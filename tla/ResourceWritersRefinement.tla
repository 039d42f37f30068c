--------------------- MODULE ResourceWritersRefinement ---------------------
(***************************************************************************)
(* Proof that the writers of ResourceWriters.tla implement UploadLog.tla,  *)
(* as the one writer of BatchUploader.tla does.                            *)
(***************************************************************************)
EXTENDS ResourceWritersProofs

(***************************************************************************)
(* What the server holds of a writer: items the worker has got, each at    *)
(* its own distance from where the writer began, and all that the offset   *)
(* has moved past if no batch of the stream was given up.                  *)
(***************************************************************************)
IndexBook(x) == x[4] \in 1..head[x[3]] /\ x[2] - Begins(x[3]) = x[4] - 1
SentBook(w) == w \in Recorders /\ ~MayLose(w) => \A i \in 1..Sent(w) : Has(w, i)
RecordBooks == (\A x \in stored : IndexBook(x)) /\ (\A w \in Writers : SentBook(w))
RecordInv == TypeOK /\ Books /\ ClosingBooks /\ AppendBooks /\ RecordBooks

Calls == \E t \in Threads : Starts(t) \/ Continues(t)

\* The numbers of a writer.
LEMMA WriterNumbers ==
  ASSUME TypeOK, Books, NEW w \in Writers
  PROVE  /\ head[w] \in Nat /\ offset[w] \in Nat /\ unfinished[w] \in Int /\ taken \in Nat
         /\ Len(log[w]) \in Nat /\ head[w] <= Len(log[w]) /\ Held(w) \in Nat /\ Held(w) <= head[w]
         /\ unfinished[w] = Len(log[w]) - head[w] + Held(w)
         /\ Sent(w) \in Nat /\ Sent(w) <= head[w] /\ Begins(w) \in Int
<1>1. /\ head[w] \in Nat /\ offset[w] \in Nat /\ unfinished[w] \in Int /\ taken \in Nat
      /\ Len(log[w]) \in Nat
  BY ResourceAssumption DEF TypeOK
<1>2. WriterBook(w) BY DEF Books, WriterBooks
<1>3. Held(w) \in Nat BY <1>1 DEF Held
<1>4. unfinished[w] = Len(log[w]) - head[w] + Held(w) BY <1>1, <1>2 DEF WriterBook, Queued
<1>5. Sent(w) \in Nat /\ Sent(w) <= head[w] BY <1>1, <1>2 DEF WriterBook, Held, Sent
<1>6. Begins(w) \in Int BY <1>1, <1>5 DEF Begins
<1> QED BY <1>1, <1>2, <1>3, <1>4, <1>5, <1>6 DEF WriterBook

\* A writer that was not made is empty.
LEMMA UnmadeEmpty ==
  ASSUME TypeOK, Books, NEW w \in Writers \ Made
  PROVE  log[w] = <<>> /\ head[w] = 0 /\ unfinished[w] = 0 /\ (Busy => cur # w)
<1>1. log[w] = <<>> /\ Len(log[w]) = 0 BY DEF Books, WriterBooks, WriterBook, Made
<1>2. head[w] = 0 /\ unfinished[w] = 0 BY <1>1, WriterNumbers
<1>3. Busy => cur # w BY DEF Books, WorkerBooks
<1> QED BY <1>1, <1>2, <1>3

\* What a call leaves alone.
LEMMA CallsLeave ==
  ASSUME TypeOK, Books, Calls
  PROVE  /\ UNCHANGED <<stored, lost, head, cur, wpc, taken>>
         /\ \A w \in Made : owner'[w] = owner[w] /\ offset'[w] = offset[w] /\ Begins(w)' = Begins(w)
         /\ Made \subseteq Made' /\ \A w \in Writers : Sent(w)' = Sent(w)
<1>1. PICK t \in Threads : Starts(t) \/ Continues(t) BY DEF Calls
<1>2. UNCHANGED <<stored, lost, head, cur, wpc, taken>>
  BY <1>1, StartsCases DEF Write, Loop, CloseJobWriters, CloseClient, DeleteSlot, Continues, ReadStart,
     CreateWriter, AssignWriter, PutItem, NextWriter, JoinWriter, LoopEnds, JoinThread, SlotDeleted,
     PopCount, DeleteRaises, writerVars, uploadVars, serverVars
<1>3. UNCHANGED <<owner, offset>> \/ CreateWriter(t)
  BY <1>1, StartsCases DEF Write, Loop, CloseJobWriters, CloseClient, DeleteSlot, Continues, ReadStart,
     AssignWriter, PutItem, NextWriter, JoinWriter, LoopEnds, JoinThread, SlotDeleted, PopCount,
     DeleteRaises, writerVars
<1>4. \A w \in Made : owner'[w] = owner[w] /\ offset'[w] = offset[w]
  BY <1>3 DEF CreateWriter, Made, TypeOK
<1>5. \A w : Sent(w)' = Sent(w) BY <1>2 DEF Sent
<1>6. Made \subseteq Made' BY <1>4 DEF Made
<1> QED BY <1>2, <1>4, <1>5, <1>6 DEF Begins

LEMMA CallsRecord ==
  ASSUME RecordInv, Calls
  PROVE  RecordBooks'
<1> USE DEF RecordInv
<1>1. /\ UNCHANGED <<stored, lost, head, cur, wpc, taken>>
      /\ \A w \in Made : owner'[w] = owner[w] /\ Begins(w)' = Begins(w)
      /\ \A w \in Writers : Sent(w)' = Sent(w)
  BY CallsLeave
<1>2. ASSUME NEW x \in stored PROVE IndexBook(x)'
  <2>1. IndexBook(x) /\ x[3] \in Made BY DEF RecordBooks, AppendBooks, StoredBook
  <2>2. Begins(x[3])' = Begins(x[3]) BY <1>1, <2>1
  <2> QED BY <1>1, <2>1, <2>2 DEF IndexBook
<1>3. ASSUME NEW w \in Writers PROVE SentBook(w)'
  <2>1. CASE w \in Made
    <3>1. SentBook(w) /\ owner'[w] = owner[w] /\ Sent(w)' = Sent(w) BY <1>1, <2>1 DEF RecordBooks
    <3> QED BY <1>1, <2>1, <3>1 DEF SentBook, Recorders, MayLose, Has
  <2>2. CASE w \notin Made
    <3>1. Sent(w)' = Sent(w) /\ Sent(w) \in Nat /\ Sent(w) <= head[w] /\ head[w] = 0
      BY <1>1, <2>2, UnmadeEmpty, WriterNumbers
    <3> QED BY <3>1 DEF SentBook
  <2> QED BY <2>1, <2>2
<1> QED BY <1>1, <1>2, <1>3 DEF RecordBooks

(***************************************************************************)
(* A batch that the server applies.                                        *)
(***************************************************************************)
LEMMA PlacedIndexes ==
  ASSUME TypeOK, Books, wpc = "upload"
  PROVE  /\ \A x \in Placed : /\ x[3] = cur /\ x[4] \in BatchIndexes
                              /\ x[2] - Begins(cur) = x[4] - 1
         /\ \A i \in BatchIndexes : \E x \in Placed : x[3] = cur /\ x[4] = i
         /\ BatchIndexes = Sent(cur) + 1..head[cur]
<1>1. /\ cur \in Writers /\ taken \in Nat /\ head[cur] \in Nat /\ offset[cur] \in Nat
      /\ Sent(cur) = head[cur] - taken /\ Begins(cur) = offset[cur] - (head[cur] - taken)
  BY CurMade DEF Busy, Sent, Begins
<1>2. ASSUME NEW x \in Placed
      PROVE  x[3] = cur /\ x[4] \in BatchIndexes /\ x[2] - Begins(cur) = x[4] - 1
  <2>1. PICK i \in 1..taken : x = <<Target[owner[cur]], offset[cur] + i - 1, cur, head[cur] - taken + i>>
    BY DEF Placed
  <2>2. x[2] = offset[cur] + i - 1 /\ x[3] = cur /\ x[4] = head[cur] - taken + i BY <2>1
  <2> QED BY <1>1, <2>2 DEF BatchIndexes
<1>3. ASSUME NEW i \in BatchIndexes PROVE \E x \in Placed : x[3] = cur /\ x[4] = i
  <2> DEFINE j == i - (head[cur] - taken)
             x == <<Target[owner[cur]], offset[cur] + j - 1, cur, head[cur] - taken + j>>
  <2>1. j \in 1..taken /\ head[cur] - taken + j = i BY <1>1 DEF BatchIndexes
  <2>2. x \in Placed BY <2>1 DEF Placed
  <2>3. x[3] = cur /\ x[4] = i BY <2>1
  <2> QED BY <2>2, <2>3
<1>4. BatchIndexes = Sent(cur) + 1..head[cur] BY <1>1 DEF BatchIndexes
<1> QED BY <1>2, <1>3, <1>4

\* What a step of the worker leaves alone, and what it may do to the server.
LEMMA WorkerLeaves ==
  ASSUME TypeOK, Books, Worker
  PROVE  /\ UNCHANGED <<owner, log>> /\ Made' = Made /\ Recorders' = Recorders
         /\ \A w \in Writers : Begins(w)' = Begins(w) /\ head'[w] \in Nat /\ head[w] <= head'[w]
         /\ \/ stored' = stored
            \/ wpc = "upload" /\ ServerApplies /\ stored' = stored \cup Placed /\ cur \in Recorders
<1>1. UNCHANGED <<owner, log>>
  BY DEF Worker, TakeBatch, UploadAnswered, UploadAgain, UploadGivenUp, AfterUpload, CallbackReads,
         CallbackWrites, MarkDone, DequeEmpty, StopOrGoOn, writerVars
<1>2. Made' = Made /\ Recorders' = Recorders BY <1>1 DEF Made, Recorders
<1>3. ASSUME NEW w \in Writers PROVE head'[w] \in Nat /\ head[w] <= head'[w]
  <2>1. ASSUME NEW v \in Writers, TakeBatch(v) PROVE head'[w] \in Nat /\ head[w] <= head'[w]
    <3>1. head' = [head EXCEPT ![v] = @ + BatchLength(v)] BY <2>1 DEF TakeBatch
    <3>2. BatchLength(v) \in Nat
      <4>1. Queued(v) \in Int /\ Queued(v) > 0 /\ Size \in Nat
        BY <2>1, WriterNumbers, ResourceAssumption DEF TakeBatch, Queued
      <4> QED BY <4>1 DEF BatchLength
    <3> QED BY <3>1, <3>2 DEF TypeOK
  <2>2. CASE head' = head BY <2>2 DEF TypeOK
  <2> QED BY <2>1, <2>2 DEF Worker, UploadAnswered, UploadAgain, UploadGivenUp, AfterUpload,
             CallbackReads, CallbackWrites, MarkDone, DequeEmpty, StopOrGoOn, writerVars
<1>4. \/ stored' = stored
      \/ wpc = "upload" /\ ServerApplies /\ stored' = stored \cup Placed /\ cur \in Recorders
  <2>1. stored' = stored \/ (wpc = "upload" /\ ServerApplies)
    BY DEF Worker, TakeBatch, UploadAnswered, UploadAgain, UploadGivenUp, CallbackReads,
           CallbackWrites, MarkDone, DequeEmpty, StopOrGoOn, serverVars
  <2>2. wpc = "upload" => cur \in Made BY DEF Books, WorkerBooks, Busy
  <2> QED BY <2>1, <2>2 DEF ServerApplies, Recorders
<1> QED BY <1>1, <1>2, <1>3, <1>4, BeginsKept

LEMMA SentKept ==
  ASSUME TypeOK, Books, Worker, NEW w \in Writers, offset'[w] = offset[w]
  PROVE  Sent(w)' = Sent(w)
<1>1. Sent(w) \in Int /\ offset[w] \in Int BY WriterNumbers
<1>2. head'[w] \in Int /\ taken' \in Int
  <2>1. TypeOK' BY WorkerCorrect
  <2> QED BY <2>1, ResourceAssumption DEF TypeOK
<1>3. Sent(w)' \in Int BY <1>2 DEF Sent
<1>4. Begins(w)' = offset'[w] - Sent(w)' /\ Begins(w)' = offset[w] - Sent(w)
  BY BeginsKept DEF Begins
<1> QED BY <1>1, <1>3, <1>4

LEMMA WorkerRecord ==
  ASSUME RecordInv, Worker
  PROVE  RecordBooks'
<1> USE DEF RecordInv
<1>1. /\ UNCHANGED owner /\ Recorders' = Recorders
      /\ \A w \in Writers : Begins(w)' = Begins(w) /\ head'[w] \in Nat /\ head[w] <= head'[w]
      /\ \/ stored' = stored
         \/ wpc = "upload" /\ ServerApplies /\ stored' = stored \cup Placed /\ cur \in Recorders
  BY WorkerLeaves
<1>2. ASSUME NEW x \in stored' PROVE IndexBook(x)'
  <2>1. CASE x \in stored
    <3>1. IndexBook(x) /\ x[3] \in Writers BY <2>1 DEF RecordBooks, AppendBooks, StoredBook, Made
    <3>2. /\ Begins(x[3])' = Begins(x[3]) /\ head'[x[3]] \in Nat /\ head[x[3]] \in Nat
          /\ head[x[3]] <= head'[x[3]]
      BY <1>1, <3>1, WriterNumbers
    <3> QED BY <3>1, <3>2 DEF IndexBook
  <2>2. CASE x \notin stored
    <3>1. wpc = "upload" /\ x \in Placed BY <1>1, <1>2, <2>2
    <3>2. /\ x[3] = cur /\ x[2] - Begins(cur) = x[4] - 1 /\ x[4] \in Sent(cur) + 1..head[cur]
          /\ cur \in Writers
      BY <3>1, PlacedIndexes, CurMade DEF Busy
    <3>3. /\ Begins(x[3])' = Begins(x[3]) /\ head'[x[3]] \in Nat /\ head[cur] <= head'[x[3]]
          /\ head[cur] \in Nat /\ Sent(cur) \in Nat
      BY <1>1, <3>2, WriterNumbers
    <3>4. x[4] \in 1..head'[x[3]] BY <3>2, <3>3
    <3>5. Begins(x[3])' = Begins(cur) BY <3>2, <3>3
    <3> QED BY <3>2, <3>4, <3>5 DEF IndexBook
  <2> QED BY <2>1, <2>2
<1>3. lost \subseteq lost'
  BY DEF Worker, TakeBatch, UploadAnswered, UploadAgain, UploadGivenUp, AfterUpload, CallbackReads,
         CallbackWrites, MarkDone, DequeEmpty, StopOrGoOn, serverVars
<1>4. \A w, i : Has(w, i) => Has(w, i)' BY <1>1 DEF Has
<1>5. ASSUME NEW w \in Writers PROVE SentBook(w)'
  <2> SUFFICES ASSUME w \in Recorders, Target[owner[w]] \notin lost', NEW i \in 1..Sent(w)'
               PROVE  Has(w, i)'
    BY <1>1 DEF SentBook, MayLose
  <2>1. SentBook(w) /\ ~MayLose(w) BY <1>3 DEF RecordBooks, MayLose
  <2>2. CASE Sent(w)' = Sent(w) BY <1>4, <2>1, <2>2 DEF SentBook
  <2>3. CASE Sent(w)' # Sent(w)
    <3>1. offset'[w] # offset[w] BY <2>3, SentKept
    <3>2. /\ wpc = "upload" /\ w = cur /\ wpc' # "upload" /\ head' = head
          /\ ServerApplies \/ Target[owner[cur]] \in lost'
      <4>1. CASE UploadAnswered
        BY <3>1, <4>1 DEF UploadAnswered, AfterUpload, TypeOK
      <4>2. ASSUME NEW served \in BOOLEAN, UploadGivenUp(served)
            PROVE  /\ wpc = "upload" /\ w = cur /\ wpc' # "upload" /\ head' = head
                   /\ ServerApplies \/ Target[owner[cur]] \in lost'
        <5>1. wpc = "upload" /\ wpc' # "upload" /\ head' = head /\ w = cur
          BY <3>1, <4>2 DEF UploadGivenUp, AfterUpload, TypeOK
        <5>2. lost' = lost \cup {Target[r] : r \in {owner[cur]} \ Slots} BY <4>2 DEF UploadGivenUp
        <5> QED BY <5>1, <5>2 DEF Recorders
      <4>3. CASE offset' = offset BY <3>1, <4>3
      <4> QED BY <4>1, <4>2, <4>3 DEF Worker, TakeBatch, UploadAgain, CallbackReads, CallbackWrites,
                                     MarkDone, DequeEmpty, StopOrGoOn, writerVars
    <3>3. ServerApplies /\ stored' = stored \cup Placed
      BY <3>2 DEF ServerApplies, Recorders
    <3>4. Sent(cur) \in Nat /\ head[cur] \in Nat BY <3>2, WriterNumbers
    <3>5. Sent(w)' = head[cur] BY <3>2, <3>4 DEF Sent
    <3>6. CASE i <= Sent(cur)
      <4>1. Has(w, i) BY <2>1, <3>2, <3>4, <3>6 DEF SentBook
      <4> QED BY <1>4, <4>1
    <3>7. CASE ~(i <= Sent(cur))
      <4>1. i \in Sent(cur) + 1..head[cur] BY <3>4, <3>5, <3>7
      <4>2. PICK x \in Placed : x[3] = cur /\ x[4] = i BY <3>2, <4>1, PlacedIndexes
      <4> QED BY <3>2, <3>3, <4>2 DEF Has
    <3> QED BY <3>6, <3>7
  <2> QED BY <2>2, <2>3
<1> QED BY <1>2, <1>5 DEF RecordBooks

LEMMA RecordsAlways == Spec => []RecordInv
<1>1. ASSUME Init PROVE RecordBooks
  <2>1. stored = {} /\ \A w \in Writers : owner[w] = None BY <1>1 DEF Init
  <2> QED BY <2>1 DEF RecordBooks, SentBook, Recorders, Made
<1>2. ASSUME RecordInv, [Next]_vars PROVE RecordBooks'
  <2>1. CASE UNCHANGED vars
    <3>1. UNCHANGED <<stored, owner, head, offset, lost, wpc, cur, taken>>
      BY <2>1 DEF vars, writerVars, uploadVars, serverVars
    <3>2. \A w : Sent(w)' = Sent(w) /\ Begins(w)' = Begins(w) BY <3>1 DEF Begins, Sent
    <3>3. \A x \in stored' : IndexBook(x)' BY <1>2, <3>1, <3>2 DEF RecordInv, RecordBooks, IndexBook
    <3>4. \A w \in Writers : SentBook(w)'
      BY <1>2, <3>1, <3>2 DEF RecordInv, RecordBooks, SentBook, Recorders, Made, MayLose, Has
    <3> QED BY <3>3, <3>4 DEF RecordBooks
  <2> QED BY <1>2, <2>1, CallsRecord, WorkerRecord DEF Next, Calls
<1>3. RecordInv /\ [Next]_vars => RecordBooks' BY <1>2
<1> QED BY <1>1, <1>3, AppendAlways, PTL DEF Spec, RecordInv

(***************************************************************************)
(* The mapped variables.                                                   *)
(***************************************************************************)
LEMMA DroppedMember ==
  ASSUME \A w \in Recorders : Sent(w) \in Nat, NEW z
  PROVE  z \in Dropped <=>
           \E w \in Recorders : \E i \in 1..Sent(w) : z = <<w, i - 1>> /\ MayLose(w) /\ ~Has(w, i)
<1>1. ASSUME z \in Dropped
      PROVE  \E w \in Recorders : \E i \in 1..Sent(w) : z = <<w, i - 1>> /\ MayLose(w) /\ ~Has(w, i)
  <2>1. PICK w \in Recorders : z \in {w} \X (0..Sent(w) - 1) BY <1>1 DEF Dropped
  <2>2. /\ z = <<w, z[2]>> /\ z[2] + 1 \in 1..Sent(w) /\ (z[2] + 1) - 1 = z[2]
        /\ MayLose(w) /\ ~Has(w, z[2] + 1)
    BY <1>1, <2>1 DEF Dropped
  <2> QED BY <2>1, <2>2
<1>2. ASSUME NEW w \in Recorders, NEW i \in 1..Sent(w), z = <<w, i - 1>>, MayLose(w), ~Has(w, i)
      PROVE  z \in Dropped
  <2>1. z[1] = w /\ z[2] = i - 1 /\ z[2] + 1 = i /\ i - 1 \in 0..Sent(w) - 1 BY <1>2
  <2>2. z \in {w} \X (0..Sent(w) - 1) BY <1>2, <2>1
  <2> QED BY <1>2, <2>1, <2>2 DEF Dropped
<1> QED BY <1>1, <1>2

LEMMA DroppedMemberNext ==
  ASSUME \A w \in Recorders' : Sent(w)' \in Nat, NEW z
  PROVE  z \in Dropped' <=>
           \E w \in Recorders' : \E i \in 1..Sent(w)' :
             z = <<w, i - 1>> /\ MayLose(w)' /\ ~Has(w, i)'
<1>1. ASSUME z \in Dropped'
      PROVE  \E w \in Recorders' : \E i \in 1..Sent(w)' :
               z = <<w, i - 1>> /\ MayLose(w)' /\ ~Has(w, i)'
  <2>1. PICK w \in Recorders' : z \in {w} \X (0..Sent(w)' - 1) BY <1>1 DEF Dropped
  <2>2. /\ z = <<w, z[2]>> /\ z[2] + 1 \in 1..Sent(w)' /\ (z[2] + 1) - 1 = z[2]
        /\ MayLose(w)' /\ ~Has(w, z[2] + 1)'
    BY <1>1, <2>1 DEF Dropped
  <2> QED BY <2>1, <2>2
<1>2. ASSUME NEW w \in Recorders', NEW i \in 1..Sent(w)', z = <<w, i - 1>>, MayLose(w)', ~Has(w, i)'
      PROVE  z \in Dropped'
  <2>1. z[1] = w /\ z[2] = i - 1 /\ z[2] + 1 = i /\ i - 1 \in 0..Sent(w)' - 1 BY <1>2
  <2>2. z \in {w} \X (0..Sent(w)' - 1) BY <1>2, <2>1
  <2> QED BY <1>2, <2>1, <2>2 DEF Dropped
<1> QED BY <1>1, <1>2

LEMMA RecorderNumbers ==
  ASSUME TypeOK, Books
  PROVE  /\ Recorders \subseteq Writers
         /\ \A w \in Recorders : Sent(w) \in Nat /\ Sent(w) <= head[w] /\ head[w] \in Nat
<1>1. Recorders \subseteq Writers BY DEF Recorders, Made
<1> QED BY <1>1, WriterNumbers

LEMMA RecorderNumbersNext ==
  ASSUME TypeOK', Books'
  PROVE  \A w \in Recorders' : Sent(w)' \in Nat
<1> SUFFICES ASSUME NEW w \in Recorders' PROVE Sent(w)' \in Nat OBVIOUS
<1>1. w \in Writers BY DEF Recorders, Made
<1>2. head'[w] \in Nat /\ taken' \in Nat BY <1>1, ResourceAssumption DEF TypeOK
<1>3. (IF cur' = w THEN taken' ELSE 0) <= head'[w]
  BY <1>1 DEF Books, WriterBooks, WriterBook, Held
<1> QED BY <1>2, <1>3 DEF Sent

\* What was put on a writer stays where it is.
LEMMA ReceivedKept ==
  ASSUME AppendBooks, stored' = stored,
         \A x \in stored : /\ Begins(x[3])' = Begins(x[3])
                           /\ log'[x[3]][x[4]] = log[x[3]][x[4]]
  PROVE  Received' = Received
BY DEF Received

(***************************************************************************)
(* The callers' steps: PutItem accepts an item, the others stutter.        *)
(***************************************************************************)
LEMMA CallsDrop ==
  ASSUME RecordInv, Calls
  PROVE  Dropped' = Dropped
<1> USE DEF RecordInv
<1>1. TypeOK' /\ Books' BY StepBooks DEF Next, Calls
<1>2. /\ UNCHANGED <<stored, lost, head>>
      /\ \A w \in Made : owner'[w] = owner[w]
      /\ Made \subseteq Made' /\ \A w \in Writers : Sent(w)' = Sent(w)
  BY CallsLeave
<1>3. Recorders \subseteq Recorders' BY <1>2 DEF Recorders
<1>4. ASSUME NEW w \in Recorders', NEW i \in 1..Sent(w)' PROVE w \in Recorders /\ i \in 1..Sent(w)
  <2>1. w \in Writers /\ Sent(w)' = Sent(w) BY <1>2 DEF Recorders, Made
  <2>2. w \in Made
    <3> SUFFICES ASSUME w \notin Made PROVE FALSE OBVIOUS
    <3>1. Sent(w) \in Nat /\ Sent(w) <= 0 BY <2>1, UnmadeEmpty, WriterNumbers
    <3> QED BY <1>4, <2>1, <3>1
  <2> QED BY <1>2, <1>4, <2>1, <2>2 DEF Recorders
<1>5. \A w \in Recorders : MayLose(w)' <=> MayLose(w) BY <1>2 DEF MayLose, Recorders
<1>6. \A w, i : Has(w, i)' <=> Has(w, i) BY <1>2 DEF Has
<1>7. \A w \in Recorders : Sent(w)' = Sent(w) BY <1>2, RecorderNumbers
<1>8. \A w \in Recorders : Sent(w) \in Nat BY RecorderNumbers
<1>9. \A w \in Recorders' : Sent(w)' \in Nat BY <1>1, RecorderNumbersNext
<1>10. ASSUME NEW z \in Dropped' PROVE z \in Dropped
  <2>1. PICK w \in Recorders' :
          \E i \in 1..Sent(w)' : z = <<w, i - 1>> /\ MayLose(w)' /\ ~Has(w, i)'
    BY <1>9, <1>10, DroppedMemberNext
  <2>2. PICK i \in 1..Sent(w)' : z = <<w, i - 1>> /\ MayLose(w)' /\ ~Has(w, i)' BY <2>1
  <2>3. w \in Recorders /\ i \in 1..Sent(w) /\ MayLose(w) /\ ~Has(w, i)
    BY <1>4, <1>5, <1>6, <2>2
  <2> QED BY <1>8, <2>2, <2>3, DroppedMember
<1>11. ASSUME NEW z \in Dropped PROVE z \in Dropped'
  <2>1. PICK w \in Recorders : \E i \in 1..Sent(w) : z = <<w, i - 1>> /\ MayLose(w) /\ ~Has(w, i)
    BY <1>8, <1>11, DroppedMember
  <2>2. PICK i \in 1..Sent(w) : z = <<w, i - 1>> /\ MayLose(w) /\ ~Has(w, i) BY <2>1
  <2>3. w \in Recorders' /\ i \in 1..Sent(w)' /\ MayLose(w)' /\ ~Has(w, i)'
    BY <1>3, <1>5, <1>6, <1>7, <2>2
  <2> QED BY <1>9, <2>2, <2>3, DroppedMemberNext
<1> QED BY <1>10, <1>11

LEMMA CallsStutter ==
  ASSUME RecordInv, Calls, log' = log, unfinished' = unfinished
  PROVE  UNCHANGED Records!vars
<1> USE DEF RecordInv
<1>1. /\ stored' = stored /\ \A w \in Made : owner'[w] = owner[w] /\ Begins(w)' = Begins(w)
      /\ Made \subseteq Made'
  BY CallsLeave
<1>2. ASSUME NEW w \in Writers
      PROVE  RecordLog'[w] = RecordLog[w] /\ Settled'[w] = Settled[w]
  <2>1. CASE w \in Made
    <3>1. w \in Recorders' <=> w \in Recorders BY <1>1, <2>1 DEF Recorders
    <3> QED BY <3>1 DEF RecordLog, Settled
  <2>2. CASE w \notin Made
    <3>1. w \notin Recorders /\ log[w] = <<>> /\ unfinished[w] = 0 /\ Len(log[w]) - unfinished[w] = 0
      BY <2>2, UnmadeEmpty DEF Recorders
    <3> QED BY <3>1 DEF RecordLog, Settled
  <2> QED BY <2>1, <2>2
<1>3. RecordLog' = RecordLog BY <1>2 DEF RecordLog
<1>4. Settled' = Settled BY <1>2 DEF Settled
<1>5. Received' = Received
  <2>1. \A x \in stored : x[3] \in Made BY DEF AppendBooks, StoredBook
  <2> QED BY <1>1, <2>1, ReceivedKept
<1> QED BY <1>3, <1>4, <1>5, CallsDrop DEF Records!vars

LEMMA PutAccepts ==
  ASSUME RecordInv, NEW t \in Threads, PutItem(t)
  PROVE  Records!Next \/ UNCHANGED Records!vars
<1> USE DEF RecordInv
<1> DEFINE w == IF on[t] \in Slots THEN mine[t] ELSE ref[on[t]]
           d == item[t]
<1>0. Calls BY DEF Calls, Continues
<1>1. CASE wclosed[w]
  <2>1. log' = log /\ unfinished' = unfinished BY <1>1 DEF PutItem
  <2> QED BY <1>0, <2>1, CallsStutter
<1>2. CASE ~wclosed[w]
  <2>1. log' = [log EXCEPT ![w] = Append(@, d)] /\ unfinished' = [unfinished EXCEPT ![w] = @ + 1]
        /\ owner' = owner
    BY <1>2 DEF PutItem
  <2>2. w \in Writers /\ owner[w] = on[t] /\ on[t] \in Resources
    <3>1. pc[t] = "put" /\ CallBook(t) BY DEF PutItem, Return, Goto, Books, CallBooks
    <3>2. on[t] \in Resources /\ ref[on[t]] # 0 /\ (on[t] \in Slots => mine[t] # 0 /\ owner[mine[t]] = on[t])
      BY <3>1 DEF CallBook
    <3>3. ref[on[t]] \in Writers \cup {0} /\ mine[t] \in Writers \cup {0}
          /\ owner[ref[on[t]]] = on[t]
      BY <3>2 DEF TypeOK, Books, RefBooks
    <3> QED BY <3>2, <3>3
  <2>3. d \in Items \cup {None} BY DEF TypeOK
  <2>4. log[w] \in Seq(Items \cup {None}) /\ Len(log[w]) \in Nat /\ unfinished[w] \in Int
    BY <2>2 DEF TypeOK
  <2> HIDE DEF w, d
  <2>5. /\ log'[w] = Append(log[w], d) /\ unfinished'[w] = unfinished[w] + 1
        /\ \A v \in Writers \ {w} : log'[v] = log[v] /\ unfinished'[v] = unfinished[v]
    BY <2>1, <2>2 DEF TypeOK
  <2>6. Recorders' = Recorders BY <2>1 DEF Recorders, Made
  <2>7. Len(log'[w]) - unfinished'[w] = Len(log[w]) - unfinished[w] BY <2>3, <2>4, <2>5
  <2>8. Settled' = Settled
    <3>1. \A v \in Writers : Settled'[v] = Settled[v] BY <2>5, <2>6, <2>7 DEF Settled
    <3> QED BY <3>1 DEF Settled
  <2>9. Received' = Received
    <3>1. stored' = stored /\ \A v \in Made : Begins(v)' = Begins(v) BY <1>0, CallsLeave
    <3>2. ASSUME NEW x \in stored
          PROVE  /\ Begins(x[3])' = Begins(x[3]) /\ log'[x[3]][x[4]] = log[x[3]][x[4]]
      <4>1. x[3] \in Made /\ x[3] \in Writers /\ IndexBook(x)
        BY DEF AppendBooks, StoredBook, RecordBooks, Made
      <4>2. x[4] \in 1..Len(log[x[3]]) BY <4>1, WriterNumbers DEF IndexBook
      <4>3. CASE x[3] = w
        <5>1. x[4] \in 1..Len(log[w]) BY <4>2, <4>3
        <5>2. Append(log[w], d)[x[4]] = log[w][x[4]] BY <2>3, <2>4, <5>1
        <5> QED BY <2>5, <3>1, <4>1, <4>3, <5>2
      <4>4. CASE x[3] # w BY <2>5, <3>1, <4>1, <4>4
      <4> QED BY <4>3, <4>4
    <3> QED BY <3>1, <3>2, ReceivedKept
  <2>10. Dropped' = Dropped BY <1>0, CallsDrop
  <2>11. CASE w \in Recorders
    <3>1. RecordLog' = [RecordLog EXCEPT ![w] = Append(@, d)]
      <4>1. RecordLog'[w] = Append(RecordLog[w], d) BY <2>2, <2>5, <2>6, <2>11 DEF RecordLog
      <4>2. \A v \in Writers \ {w} : RecordLog'[v] = RecordLog[v] BY <2>5, <2>6 DEF RecordLog
      <4> QED BY <2>2, <4>1, <4>2 DEF RecordLog
    <3>2. Records!Accept(w, d) BY <2>8, <2>9, <2>10, <3>1 DEF Records!Accept
    <3> QED BY <2>2, <2>3, <3>2 DEF Records!Next
  <2>12. CASE w \notin Recorders
    <3>1. \A v \in Writers : RecordLog'[v] = RecordLog[v] BY <2>5, <2>6, <2>12 DEF RecordLog
    <3>2. RecordLog' = RecordLog BY <3>1 DEF RecordLog
    <3> QED BY <2>8, <2>9, <2>10, <3>2 DEF Records!vars
  <2> QED BY <2>11, <2>12
<1> QED BY <1>1, <1>2

LEMMA CallsRefine ==
  ASSUME RecordInv, Calls
  PROVE  Records!Next \/ UNCHANGED Records!vars
<1>1. PICK t \in Threads : Starts(t) \/ Continues(t) BY DEF Calls
<1>2. CASE PutItem(t) BY <1>2, PutAccepts
<1>3. CASE ~PutItem(t)
  <2>1. log' = log /\ unfinished' = unfinished
    BY <1>1, <1>3, StartsCases DEF Write, Loop, CloseJobWriters, CloseClient, DeleteSlot, Continues,
       ReadStart, CreateWriter, AssignWriter, NextWriter, JoinWriter, LoopEnds, JoinThread, SlotDeleted,
       PopCount, DeleteRaises, writerVars
  <2> QED BY <2>1, CallsStutter
<1> QED BY <1>2, <1>3

(***************************************************************************)
(* The worker's steps: an upload that the server applies stores, one that  *)
(* is given up unserved gives up, MarkDone settles, the others stutter.    *)
(***************************************************************************)
LEMMA WorkerLog ==
  ASSUME TypeOK, Books, Worker
  PROVE  RecordLog' = RecordLog
BY WorkerLeaves DEF RecordLog

LEMMA SettledKept ==
  ASSUME TypeOK, Books, Worker, \A w \in Recorders : unfinished'[w] = unfinished[w]
  PROVE  Settled' = Settled
BY WorkerLeaves DEF Settled

\* Nothing is given up, unless the batch under way is.
LEMMA WorkerDrop ==
  ASSUME RecordInv, Worker, NEW D,
         \A w \in Recorders, i \in Nat \ {0} :
           <<w, i - 1>> \in D <=> wpc = "upload" /\ w = cur /\ i \in BatchIndexes /\ i <= Sent(w)'
                                  /\ MayLose(w)' /\ ~Has(w, i)',
         \A z \in D : \E w \in Recorders, i \in Nat \ {0} : z = <<w, i - 1>>
  PROVE  Dropped' = Dropped \cup D
<1> USE DEF RecordInv
<1>1. TypeOK' /\ Books' BY StepBooks DEF Next
<1>2. /\ Recorders' = Recorders /\ owner' = owner
      /\ \/ stored' = stored
         \/ wpc = "upload" /\ stored' = stored \cup Placed /\ cur \in Recorders
  BY WorkerLeaves
<1>3. /\ \A w \in Recorders : Sent(w) \in Nat /\ Sent(w)' \in Nat /\ Sent(w) <= head[w] /\ head[w] \in Nat
      /\ Recorders \subseteq Writers
  BY <1>1, <1>2, RecorderNumbers, RecorderNumbersNext
<1>4. ASSUME NEW w \in Recorders
      PROVE  /\ \/ Sent(w)' = Sent(w)
                \/ wpc = "upload" /\ w = cur /\ Sent(w)' = head[cur]
             /\ Sent(w) <= Sent(w)'
             /\ wpc = "upload" /\ w = cur => BatchIndexes = Sent(w) + 1..head[cur]
  <2>1. w \in Writers BY <1>3
  <2>2. CASE offset'[w] = offset[w] BY <1>3, <2>1, <2>2, SentKept, PlacedIndexes
  <2>3. CASE offset'[w] # offset[w]
    <3>1. AfterUpload /\ wpc = "upload"
      BY <2>3 DEF Worker, TakeBatch, UploadAnswered, UploadAgain, UploadGivenUp, CallbackReads,
             CallbackWrites, MarkDone, DequeEmpty, StopOrGoOn, writerVars
    <3>2. w = cur /\ wpc' # "upload" /\ head' = head BY <2>1, <2>3, <3>1 DEF AfterUpload, TypeOK
    <3>3. Sent(w)' = head[cur] BY <1>3, <3>2 DEF Sent
    <3> QED BY <1>3, <3>1, <3>2, <3>3, PlacedIndexes
  <2> QED BY <2>2, <2>3
<1>5. lost' = lost \/ (wpc = "upload" /\ lost' = lost \cup {Target[r] : r \in {owner[cur]} \ Slots})
  BY DEF Worker, TakeBatch, UploadAnswered, UploadAgain, UploadGivenUp, CallbackReads, CallbackWrites,
         MarkDone, DequeEmpty, StopOrGoOn, serverVars
<1>6. \A w : MayLose(w) => MayLose(w)' BY <1>2, <1>5 DEF MayLose
<1>7. ASSUME NEW w, NEW i, Has(w, i)' PROVE Has(w, i) \/ (wpc = "upload" /\ w = cur /\ i \in BatchIndexes)
  <2>1. PICK x \in stored' : x[3] = w /\ x[4] = i BY <1>7 DEF Has
  <2> QED BY <1>2, <2>1, PlacedIndexes DEF Has
<1>8. \A w, i : Has(w, i) => Has(w, i)' BY <1>2 DEF Has
<1>9. ASSUME NEW z \in Dropped' PROVE z \in Dropped \cup D
  <2>1. PICK w \in Recorders : \E i \in 1..Sent(w)' : z = <<w, i - 1>> /\ MayLose(w)' /\ ~Has(w, i)'
    BY <1>2, <1>3, DroppedMemberNext
  <2>2. PICK i \in 1..Sent(w)' : z = <<w, i - 1>> /\ MayLose(w)' /\ ~Has(w, i)' BY <2>1
  <2>3. CASE i <= Sent(w)
    <3>1. i \in 1..Sent(w) /\ ~Has(w, i) BY <1>3, <1>8, <2>2, <2>3
    <3>2. SentBook(w) BY <1>3 DEF RecordBooks
    <3>3. MayLose(w) BY <3>1, <3>2 DEF SentBook
    <3> QED BY <1>3, <2>2, <3>1, <3>3, DroppedMember
  <2>4. CASE ~(i <= Sent(w))
    <3>1. i \in Nat \ {0} /\ i <= Sent(w)' BY <1>3, <2>2
    <3>2. wpc = "upload" /\ w = cur /\ i \in BatchIndexes BY <1>3, <1>4, <2>2, <2>4
    <3> QED BY <2>2, <3>1, <3>2
  <2> QED BY <2>3, <2>4
<1>10. ASSUME NEW z \in Dropped PROVE z \in Dropped'
  <2>1. PICK w \in Recorders : \E i \in 1..Sent(w) : z = <<w, i - 1>> /\ MayLose(w) /\ ~Has(w, i)
    BY <1>3, DroppedMember
  <2>2. PICK i \in 1..Sent(w) : z = <<w, i - 1>> /\ MayLose(w) /\ ~Has(w, i) BY <2>1
  <2>3. i \in 1..Sent(w)' BY <1>3, <1>4
  <2>4. ~(wpc = "upload" /\ w = cur /\ i \in BatchIndexes) BY <1>3, <1>4
  <2>5. MayLose(w)' /\ ~Has(w, i)' BY <1>6, <1>7, <2>2, <2>4
  <2> QED BY <1>2, <1>3, <2>2, <2>3, <2>5, DroppedMemberNext
<1>11. ASSUME NEW z \in D PROVE z \in Dropped'
  <2>1. PICK w \in Recorders, i \in Nat \ {0} : z = <<w, i - 1>> OBVIOUS
  <2>2. i \in 1..Sent(w)' /\ MayLose(w)' /\ ~Has(w, i)' BY <1>3, <2>1
  <2> QED BY <1>2, <1>3, <2>1, <2>2, DroppedMemberNext
<1> QED BY <1>9, <1>10, <1>11

LEMMA NothingDropped ==
  ASSUME RecordInv, Worker,
         \A w \in Recorders, i \in BatchIndexes : wpc = "upload" /\ w = cur =>
           Has(w, i)' \/ Sent(w)' < i
  PROVE  Dropped' = Dropped
<1>1. ASSUME NEW w \in Recorders, NEW i \in Nat \ {0}
      PROVE  ~(wpc = "upload" /\ w = cur /\ i \in BatchIndexes /\ i <= Sent(w)' /\ MayLose(w)' /\ ~Has(w, i)')
  <2>1. Sent(w)' \in Nat
    <3>1. TypeOK' /\ Books' BY StepBooks DEF Next, RecordInv
    <3> QED BY <3>1, WorkerLeaves, RecorderNumbersNext DEF RecordInv
  <2> QED BY <2>1
<1>2. Dropped' = Dropped \cup {} BY <1>1, WorkerDrop
<1> QED BY <1>2

\* The server applies a batch.
LEMMA BatchStored ==
  ASSUME RecordInv, Worker, wpc = "upload", stored' = stored \cup Placed, cur \in Recorders,
         unfinished' = unfinished
  PROVE  Records!Store(cur, BatchIndexes) /\ Records!Next
<1> USE DEF RecordInv
<1>1. /\ log' = log /\ cur \in Writers /\ Recorders \subseteq Writers
      /\ \A w \in Writers : Begins(w)' = Begins(w)
  BY WorkerLeaves, RecorderNumbers
<1>2. /\ \A x \in Placed : /\ x[3] = cur /\ x[4] \in BatchIndexes
                           /\ x[2] - Begins(cur) = x[4] - 1
      /\ \A i \in BatchIndexes : \E x \in Placed : x[3] = cur /\ x[4] = i
      /\ BatchIndexes = Sent(cur) + 1..head[cur]
  BY PlacedIndexes
<1>3. \A i \in BatchIndexes : i \in Int /\ i - 1 = 0 + i - 1 BY <1>1, <1>2, WriterNumbers
<1> DEFINE f(x) == <<x[3], x[2] - Begins(x[3]), log[x[3]][x[4]]>>
           g(i) == <<cur, 0 + i - 1, RecordLog[cur][i]>>
<1>4. \A x \in stored' : <<x[3], x[2] - Begins(x[3])', log'[x[3]][x[4]]>> = f(x)
  <2> SUFFICES ASSUME NEW x \in stored' PROVE Begins(x[3])' = Begins(x[3]) BY <1>1
  <2>1. x[3] \in Writers BY <1>1, <1>2 DEF AppendBooks, StoredBook, Made
  <2> QED BY <1>1, <2>1
<1>5. \A x \in Placed : x[4] \in BatchIndexes /\ f(x) = g(x[4]) BY <1>1, <1>2, <1>3 DEF RecordLog
<1>6. \A i \in BatchIndexes : \E x \in Placed : f(x) = g(i) BY <1>2, <1>5
<1>7. Received' = {f(x) : x \in stored'} BY <1>4 DEF Received
<1>8. Received = {f(x) : x \in stored} BY DEF Received
<1>9. Received' = Received \cup {g(i) : i \in BatchIndexes}
  <2> HIDE DEF f, g
  <2> QED BY <1>5, <1>6, <1>7, <1>8
<1>10. RecordLog' = RecordLog /\ Settled' = Settled BY WorkerLog, SettledKept
<1>11. Dropped' = Dropped
  <2>1. \A w, i : w = cur /\ i \in BatchIndexes => Has(w, i)' BY <1>2 DEF Has
  <2> QED BY <2>1, NothingDropped
<1>12. Records!Store(cur, BatchIndexes) BY <1>9, <1>10, <1>11 DEF Records!Store
<1>13. BatchIndexes \in SUBSET (1..Len(RecordLog[cur]))
  <2>1. RecordLog[cur] = log[cur] BY <1>1 DEF RecordLog
  <2> QED BY <1>1, <1>2, <2>1, WriterNumbers
<1> QED BY <1>1, <1>12, <1>13 DEF Records!Next

\* A batch that the server never got is given up.
LEMMA BatchGivenUp ==
  ASSUME RecordInv, Worker, wpc = "upload", UNCHANGED <<stored, unfinished>>, cur \in Recorders,
         AfterUpload, lost' = lost \cup {Target[owner[cur]]}
  PROVE  Records!Next
<1> USE DEF RecordInv
<1> DEFINE S == {i \in BatchIndexes : ~Has(cur, i)}
           D == {<<cur, 0 + i - 1>> : i \in S}
<1>1. log' = log /\ cur \in Writers /\ owner' = owner /\ \A w \in Writers : Begins(w)' = Begins(w)
  BY WorkerLeaves, RecorderNumbers
<1>2. BatchIndexes = Sent(cur) + 1..head[cur] BY PlacedIndexes
<1>3. /\ Sent(cur) = head[cur] - taken /\ Sent(cur) \in Nat /\ head[cur] \in Nat /\ taken \in Nat
      /\ Len(log[cur]) \in Nat /\ head[cur] <= Len(log[cur])
      /\ Len(log[cur]) - unfinished[cur] = Sent(cur)
  BY <1>1, WriterNumbers DEF Sent, Held
<1>4. \A w : w = cur => Sent(w)' = head[cur] BY <1>3 DEF Sent, AfterUpload
<1>5. \A w : w = cur => MayLose(w)' BY <1>1 DEF MayLose
<1>6. \A w, i : Has(w, i)' <=> Has(w, i) BY DEF Has
<1>7. ASSUME NEW w \in Recorders, NEW i \in Nat \ {0}
      PROVE  <<w, i - 1>> \in D <=> w = cur /\ i \in BatchIndexes /\ i <= Sent(w)'
                                    /\ MayLose(w)' /\ ~Has(w, i)'
  <2>1. <<w, i - 1>> \in D <=> w = cur /\ i \in S
    <3>1. ASSUME NEW j \in S, <<w, i - 1>> = <<cur, 0 + j - 1>> PROVE w = cur /\ i = j
      <4>1. j \in Int /\ i \in Int BY <1>2, <1>3
      <4>2. w = cur /\ i - 1 = 0 + j - 1 BY <3>1
      <4> QED BY <4>1, <4>2
    <3>2. w = cur /\ i \in S => <<w, i - 1>> \in D
      <4>1. i - 1 = 0 + i - 1 OBVIOUS
      <4> QED BY <4>1
    <3> QED BY <3>1, <3>2
  <2>2. i \in BatchIndexes => i <= head[cur] BY <1>2, <1>3
  <2> QED BY <1>4, <1>5, <1>6, <2>1, <2>2
<1>8. ASSUME NEW z \in D PROVE \E w \in Recorders, i \in Nat \ {0} : z = <<w, i - 1>>
  <2>1. PICK i \in S : z = <<cur, 0 + i - 1>> BY <1>8
  <2>2. i \in Nat \ {0} /\ 0 + i - 1 = i - 1 BY <1>2, <1>3
  <2> QED BY <2>1, <2>2
<1>9. Dropped' = Dropped \cup D
  <2> HIDE DEF D
  <2> QED BY <1>7, <1>8, WorkerDrop
<1>10. RecordLog' = RecordLog /\ Settled' = Settled BY WorkerLog, SettledKept
<1>11. Received' = Received
  <2>1. \A x \in stored : x[3] \in Writers BY DEF AppendBooks, StoredBook, Made
  <2> QED BY <1>1, <2>1, ReceivedKept
<1>12. \A i \in S : i > Settled[cur] BY <1>1, <1>2, <1>3 DEF Settled
<1>13. S \in SUBSET (1..Len(RecordLog[cur]))
  <2>1. RecordLog[cur] = log[cur] BY <1>1 DEF RecordLog
  <2> QED BY <1>2, <1>3, <2>1
<1>14. Records!GiveUp(cur, S) BY <1>9, <1>10, <1>11, <1>12 DEF Records!GiveUp
<1> HIDE DEF S
<1> QED BY <1>1, <1>13, <1>14 DEF Records!Next

\* A batch is marked done.
LEMMA BatchSettled ==
  ASSUME RecordInv, MarkDone, cur \in Recorders
  PROVE  Records!Next
<1> USE DEF RecordInv
<1>0. Worker BY DEF Worker
<1>1. /\ wpc = "done" /\ wpc' = "pick" /\ UNCHANGED <<stored, lost, offset>>
      /\ unfinished' = [unfinished EXCEPT ![cur] = @ - (TasksDone - DoneBeforeCallback)]
  BY DEF MarkDone, serverVars
<1>2. log' = log /\ cur \in Writers /\ Recorders' = Recorders /\ \A w \in Writers : Begins(w)' = Begins(w)
  BY <1>0, WorkerLeaves, RecorderNumbers
<1>3. /\ Sent(cur) = head[cur] /\ head[cur] \in Nat /\ taken \in Nat /\ Len(log[cur]) \in Nat
      /\ head[cur] <= Len(log[cur]) /\ unfinished[cur] = Len(log[cur]) - head[cur] + taken
      /\ unfinished[cur] \in Int
  BY <1>1, <1>2, WriterNumbers DEF Sent, Held
<1>4. unfinished'[cur] = Len(log[cur]) - head[cur]
  <2>1. unfinished'[cur] = unfinished[cur] - (taken - 0)
    BY <1>1, <1>2 DEF TypeOK, TasksDone, DoneBeforeCallback
  <2> QED BY <1>3, <2>1
<1>5. Settled' = [Settled EXCEPT ![cur] = head[cur]]
  <2>1. Len(log[cur]) - unfinished'[cur] = head[cur] BY <1>3, <1>4
  <2>2. Settled'[cur] = head[cur] BY <1>2, <2>1 DEF Settled
  <2>3. \A v \in Writers \ {cur} : Settled'[v] = Settled[v] BY <1>1, <1>2 DEF Settled, TypeOK
  <2> QED BY <1>2, <2>2, <2>3 DEF Settled
<1>6. Settled[cur] = head[cur] - taken BY <1>2, <1>3 DEF Settled
<1>7. ASSUME NEW i \in Settled[cur] + 1..head[cur]
      PROVE  <<cur, 0 + i - 1, RecordLog[cur][i]>> \in Received \/ <<cur, 0 + i - 1>> \in Dropped
  <2>1. taken <= head[cur] BY <1>1, CurMade DEF Busy
  <2>2. i \in 1..Sent(cur) /\ 0 + i - 1 = i - 1 BY <1>3, <1>6, <2>1
  <2>3. CASE Has(cur, i)
    <3>1. PICK x \in stored : x[3] = cur /\ x[4] = i BY <2>3 DEF Has
    <3>2. x[2] - Begins(x[3]) = i - 1 BY <3>1 DEF RecordBooks, IndexBook
    <3>3. RecordLog[cur] = log[cur] BY <1>2 DEF RecordLog
    <3> QED BY <2>2, <3>1, <3>2, <3>3 DEF Received
  <2>4. CASE ~Has(cur, i)
    <3>1. SentBook(cur) BY <1>2 DEF RecordBooks
    <3>2. MayLose(cur) BY <2>2, <2>4, <3>1 DEF SentBook
    <3>3. \A w \in Recorders : Sent(w) \in Nat BY RecorderNumbers
    <3> QED BY <2>2, <2>4, <3>2, <3>3, DroppedMember
  <2> QED BY <2>3, <2>4
<1>8. RecordLog' = RecordLog BY <1>0, WorkerLog
<1>9. Received' = Received
  <2>1. \A x \in stored : x[3] \in Writers BY DEF AppendBooks, StoredBook, Made
  <2> QED BY <1>1, <1>2, <2>1, ReceivedKept
<1>10. Dropped' = Dropped BY <1>0, <1>1, NothingDropped
<1>11. head[cur] >= Settled[cur] /\ head[cur] \in 0..Len(RecordLog[cur])
  <2>1. RecordLog[cur] = log[cur] BY <1>2 DEF RecordLog
  <2> QED BY <1>3, <1>6, <2>1
<1>12. Records!Settle(cur, head[cur]) BY <1>5, <1>7, <1>8, <1>9, <1>10, <1>11 DEF Records!Settle
<1> QED BY <1>2, <1>11, <1>12 DEF Records!Next

LEMMA WorkerStutters ==
  ASSUME RecordInv, Worker, UNCHANGED stored, cur \notin Recorders \/ UNCHANGED <<offset, unfinished>>,
         \A w \in Recorders \ {cur} : unfinished'[w] = unfinished[w]
  PROVE  UNCHANGED Records!vars
<1> USE DEF RecordInv
<1>1. RecordLog' = RecordLog /\ Settled' = Settled BY WorkerLog, SettledKept
<1>2. Received' = Received
  <2>1. \A x \in stored : x[3] \in Writers BY DEF AppendBooks, StoredBook, Made
  <2> QED BY <2>1, WorkerLeaves, ReceivedKept
<1>3. Dropped' = Dropped
  <2>1. ASSUME NEW w \in Recorders, NEW i \in BatchIndexes, wpc = "upload", w = cur
        PROVE  Sent(w)' < i
    <3>1. w \in Writers /\ Sent(w) \in Nat /\ Sent(w)' = Sent(w) BY <2>1, RecorderNumbers, SentKept
    <3>2. i \in Sent(w) + 1..head[w] /\ head[w] \in Nat BY <2>1, <3>1, PlacedIndexes, WriterNumbers
    <3> QED BY <3>1, <3>2
  <2> QED BY <2>1, NothingDropped
<1> QED BY <1>1, <1>2, <1>3 DEF Records!vars

LEMMA WorkerRefines ==
  ASSUME RecordInv, Worker
  PROVE  Records!Next \/ UNCHANGED Records!vars
<1> USE DEF RecordInv
<1>1. wpc = "upload" => cur \in Made BY DEF Books, WorkerBooks, Busy
<1>2. ASSUME wpc = "upload", unfinished' = [unfinished EXCEPT ![cur] = @ - DoneBeforeCallback]
      PROVE  unfinished' = unfinished
  <2>1. \A w \in Writers : unfinished'[w] = unfinished[w] BY <1>2 DEF TypeOK, DoneBeforeCallback
  <2> QED BY <1>2, <2>1 DEF TypeOK
<1>3. ASSUME NEW w \in Writers, TakeBatch(w) PROVE UNCHANGED Records!vars
  BY <1>3, WorkerStutters DEF TakeBatch, serverVars
<1>4. CASE UploadAnswered
  <2>1. wpc = "upload" /\ ServerApplies /\ unfinished' = unfinished BY <1>2, <1>4 DEF UploadAnswered
  <2>2. CASE cur \in Recorders
    BY <2>1, <2>2, BatchStored DEF ServerApplies, Recorders
  <2>3. CASE cur \notin Recorders
    BY <1>1, <2>1, <2>3, WorkerStutters DEF ServerApplies, Recorders
  <2> QED BY <2>2, <2>3
<1>5. ASSUME NEW served \in BOOLEAN, UploadAgain(served)
      PROVE  Records!Next \/ UNCHANGED Records!vars
  <2>1. wpc = "upload" /\ UNCHANGED <<offset, unfinished>>
        /\ (IF served THEN ServerApplies ELSE UNCHANGED <<stored, slot>>)
    BY <1>5 DEF UploadAgain, writerVars
  <2>2. CASE served /\ cur \in Recorders
    BY <2>1, <2>2, BatchStored DEF ServerApplies, Recorders
  <2>3. CASE ~(served /\ cur \in Recorders)
    BY <1>1, <2>1, <2>3, WorkerStutters DEF ServerApplies, Recorders
  <2> QED BY <2>2, <2>3
<1>6. ASSUME NEW served \in BOOLEAN, UploadGivenUp(served)
      PROVE  Records!Next \/ UNCHANGED Records!vars
  <2>1. /\ wpc = "upload" /\ AfterUpload /\ unfinished' = unfinished
        /\ IF served THEN ServerApplies ELSE UNCHANGED <<stored, slot>>
        /\ lost' = lost \cup {Target[r] : r \in {owner[cur]} \ Slots}
    BY <1>2, <1>6 DEF UploadGivenUp
  <2>2. CASE served /\ cur \in Recorders
    BY <2>1, <2>2, BatchStored DEF ServerApplies, Recorders
  <2>3. CASE ~served /\ cur \in Recorders
    <3>1. {owner[cur]} \ Slots = {owner[cur]} BY <2>3 DEF Recorders
    <3>2. lost' = lost \cup {Target[owner[cur]]} BY <2>1, <3>1
    <3> QED BY <2>1, <2>3, <3>2, BatchGivenUp
  <2>4. CASE cur \notin Recorders
    BY <1>1, <2>1, <2>4, WorkerStutters DEF ServerApplies, Recorders
  <2> QED BY <2>2, <2>3, <2>4
<1>7. CASE CallbackReads \/ CallbackWrites \/ DequeEmpty \/ StopOrGoOn
  BY <1>7, WorkerStutters DEF CallbackReads, CallbackWrites, DequeEmpty, StopOrGoOn, writerVars, serverVars
<1>8. CASE MarkDone
  <2>1. stored' = stored /\ unfinished' = [unfinished EXCEPT ![cur] = @ - (TasksDone - DoneBeforeCallback)]
    BY <1>8 DEF MarkDone, serverVars
  <2>2. \A w \in Recorders \ {cur} : unfinished'[w] = unfinished[w]
    BY <2>1, RecorderNumbers DEF TypeOK
  <2> QED BY <1>8, <2>1, <2>2, BatchSettled, WorkerStutters
<1> QED BY <1>3, <1>4, <1>5, <1>6, <1>7, <1>8 DEF Worker

LEMMA InitRefines == Init => Records!Init
<1> SUFFICES ASSUME Init PROVE Records!Init OBVIOUS
<1>1. Recorders = {} /\ stored = {} BY DEF Init, Recorders, Made
<1> QED BY <1>1 DEF Records!Init, RecordLog, Settled, Received, Dropped

\* The writers of records implement the abstract upload log: whoever makes them,
\* what was settled is stored at its own position, or was dropped on a stream on
\* which an upload was given up.
THEOREM WritersRefinement == Spec => ImplementsUploadLog
<1>1. RecordInv /\ [Next]_vars => [Records!Next]_(Records!vars)
  <2> SUFFICES ASSUME RecordInv, [Next]_vars PROVE Records!Next \/ UNCHANGED Records!vars
    OBVIOUS
  <2>1. CASE UNCHANGED vars
    <3>1. UNCHANGED <<owner, log, head, unfinished, offset, wpc, cur, taken, stored, lost>>
      BY <2>1 DEF vars, writerVars, uploadVars, serverVars
    <3>2. Recorders' = Recorders BY <3>1 DEF Recorders, Made
    <3>3. \A w : /\ Sent(w)' = Sent(w) /\ Begins(w)' = Begins(w) /\ MayLose(w)' = MayLose(w)
                 /\ \A i : Has(w, i)' = Has(w, i)
      BY <3>1 DEF Sent, Begins, MayLose, Has
    <3>4. RecordLog' = RecordLog /\ Settled' = Settled BY <3>1, <3>2 DEF RecordLog, Settled
    <3>5. Received' = Received BY <3>1, <3>3 DEF Received
    <3>6. Dropped' = Dropped BY <3>2, <3>3 DEF Dropped
    <3> QED BY <3>4, <3>5, <3>6 DEF Records!vars
  <2>2. CASE Next BY <2>2, CallsRefine, WorkerRefines DEF Next, Calls
  <2> QED BY <2>1, <2>2
<1> QED BY <1>1, InitRefines, RecordsAlways, PTL DEF Spec, ImplementsUploadLog, Records!Spec
=============================================================================
