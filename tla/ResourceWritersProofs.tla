----------------------- MODULE ResourceWritersProofs -----------------------
(***************************************************************************)
(* For any threads, resources, writers and bounds: the variables of        *)
(* ResourceWriters.tla keep their types, a slot's count is what the server *)
(* reported, what flushes or closes has drained its writers, and a log in  *)
(* append mode goes on after what was stored.                              *)
(***************************************************************************)
EXTENDS ResourceWritersProperties, FiniteSetTheorems, TLAPS

Pcs == {"idle", "start", "create", "assign", "put", "flush", "flushall", "close", "closejob",
        "shut", "delete", "pop"}

CallTypes ==
  /\ pc \in [Threads -> Pcs]
  /\ on \in [Threads -> Resources \cup {None}] /\ item \in [Threads -> Items \cup {None}]
  /\ mine \in [Threads -> Writers \cup {0}] /\ start \in [Threads -> Nat]
  /\ todo \in [Threads -> SUBSET Writers] /\ size \in [Threads -> Nat]

WriterTypes ==
  /\ closed \in BOOLEAN /\ ref \in [Resources -> Writers \cup {0}]
  /\ owner \in [Writers -> Resources \cup {None}]
  /\ log \in [Writers -> Seq(Items \cup {None})]
  /\ head \in [Writers -> Nat] /\ unfinished \in [Writers -> Int]
  /\ offset \in [Writers -> Nat] /\ wclosed \in [Writers -> BOOLEAN]

UploadTypes ==
  /\ wpc \in {"pick", "upload", "callback", "count", "done", "look", "stopped"}
  /\ cur \in Writers \cup {0} /\ taken \in 0..Size /\ tries \in 0..MaxTries - 1
  /\ answer \in 0..Size \cup {None} /\ base \in Nat
  /\ newcount \in [Slots -> Nat]
  /\ slot \in [Slots -> SUBSET Items] /\ reported \in [Slots -> Nat]
  /\ torn \subseteq Slots /\ raced \subseteq Slots
  /\ fresh \subseteq Writers /\ seen \subseteq Writers

LEMMA TypeParts == TypeOK <=> CallTypes /\ WriterTypes /\ UploadTypes
BY DEF TypeOK, CallTypes, WriterTypes, UploadTypes, Pcs

LEMMA TypePartsNext == TypeOK' <=> CallTypes' /\ WriterTypes' /\ UploadTypes'
BY DEF TypeOK, CallTypes, WriterTypes, UploadTypes, Pcs

(***************************************************************************)
(* The books: what a writer has unfinished is queued or held by the        *)
(* worker, and every writer belongs to the resource that made it.          *)
(***************************************************************************)
Busy == wpc \in {"upload", "callback", "count", "done"}
Held(w) == IF cur = w THEN taken ELSE 0

WorkerBooks ==
  /\ IsFiniteSet(stored) /\ \A s \in Slots : IsFiniteSet(slot[s])
  /\ Busy => cur \in Made /\ taken > 0
  /\ ~Busy => cur = 0 /\ taken = 0
  /\ wpc \in {"callback", "count"} => owner[cur] \in Slots
  /\ wpc \in {"pick", "upload", "done", "look", "stopped"} => answer = None
  /\ wpc = "count" => answer # None
WriterBook(w) ==
  /\ head[w] <= Len(log[w]) /\ Held(w) <= head[w]
  /\ unfinished[w] = Queued(w) + Held(w)
  /\ owner[w] = None => log[w] = <<>>
  /\ owner[w] \in Slots => log[w] \in Seq(Items)
WriterBooks == \A w \in Writers : WriterBook(w)
CallBook(t) ==
  /\ pc[t] \in {"start", "create", "assign", "put"} =>
       on[t] \in Resources /\ (on[t] \in Slots => item[t] \in Items)
  /\ pc[t] \in {"delete", "pop"} => on[t] \in Slots
  /\ pc[t] = "assign" => mine[t] # 0 /\ owner[mine[t]] = on[t]
  /\ pc[t] = "put" => ref[on[t]] # 0
  /\ pc[t] = "put" /\ on[t] \in Slots => mine[t] # 0 /\ owner[mine[t]] = on[t]
CallBooks == \A t \in Threads : CallBook(t)
RefBooks == \A r \in Resources : ref[r] # 0 => owner[ref[r]] = r
Books == WorkerBooks /\ WriterBooks /\ CallBooks /\ RefBooks

LEMMA InitBooks == Init => TypeOK /\ Books
<1> SUFFICES ASSUME Init PROVE TypeOK /\ Books OBVIOUS
<1>1. 0 \in 0..MaxTries - 1 /\ 0 \in 0..Size BY ResourceAssumption
<1>2. CallTypes BY DEF Init, CallTypes, Pcs
<1>3. WriterTypes
  <2>1. log \in [Writers -> Seq(Items \cup {None})] BY DEF Init
  <2>2. head \in [Writers -> Nat] /\ unfinished \in [Writers -> Int] /\ offset \in [Writers -> Nat]
    BY DEF Init
  <2> QED BY <2>1, <2>2 DEF Init, WriterTypes
<1>4. UploadTypes BY <1>1 DEF Init, UploadTypes
<1>5. WorkerBooks BY FS_EmptySet DEF Init, WorkerBooks, Busy
<1>6. WriterBooks
  <2> SUFFICES ASSUME NEW w \in Writers PROVE WriterBook(w) BY DEF WriterBooks
  <2>1. head[w] = 0 /\ unfinished[w] = 0 /\ log[w] = <<>> /\ taken = 0 /\ owner[w] = None
    BY DEF Init
  <2>2. Len(log[w]) = 0 /\ log[w] \in Seq(Items) BY <2>1
  <2> QED BY <2>1, <2>2 DEF WriterBook, Queued, Held
<1>7. CallBooks /\ RefBooks BY DEF Init, CallBooks, CallBook, RefBooks
<1> QED BY <1>2, <1>3, <1>4, <1>5, <1>6, <1>7, TypeParts DEF Books

LEMMA ReturnTypes ==
  ASSUME CallTypes, NEW t \in Threads, NEW from, Return(t, from)
  PROVE  CallTypes'
BY DEF CallTypes, Return, Goto, Pcs

(***************************************************************************)
(* Counting.                                                               *)
(***************************************************************************)
LEMMA FiniteBatch ==
  ASSUME TypeOK, cur \in Writers
  PROVE  /\ IsFiniteSet(BatchItems) /\ Cardinality(BatchItems) \in 0..taken
         /\ IsFiniteSet(Placed)
<1> DEFINE P == 1..taken
           f == [i \in BatchIndexes |-> log[cur][i]]
           g == [i \in P |-> <<Target[owner[cur]], offset[cur] + i - 1, cur, head[cur] - taken + i>>]
<1>1. taken \in Nat BY ResourceAssumption DEF TypeOK
<1>2. IsFiniteSet(P) /\ Cardinality(P) = taken BY <1>1, FS_Interval
<1>3. g \in Surjection(P, Placed) BY DEF Surjection, Placed
<1>4. IsFiniteSet(Placed)
  <2> HIDE DEF P, g
  <2> QED BY <1>2, <1>3, FS_Surjection
<1>5. IsFiniteSet(BatchIndexes) /\ Cardinality(BatchIndexes) <= taken
      /\ Cardinality(BatchIndexes) \in Nat
  <2>1. head[cur] \in Nat BY DEF TypeOK
  <2>2. head[cur] - taken + 1 \in Int /\ head[cur] \in Int BY <1>1, <2>1
  <2>3. /\ IsFiniteSet(BatchIndexes)
        /\ Cardinality(BatchIndexes) = IF head[cur] - taken + 1 > head[cur] THEN 0
                                       ELSE head[cur] - (head[cur] - taken + 1) + 1
    BY <2>2, FS_Interval DEF BatchIndexes
  <2> QED BY <1>1, <2>1, <2>3
<1>6. f \in Surjection(BatchIndexes, BatchItems) BY DEF Surjection, BatchItems
<1>7. IsFiniteSet(BatchItems) /\ Cardinality(BatchItems) <= Cardinality(BatchIndexes)
  <2> HIDE DEF f
  <2> QED BY <1>5, <1>6, FS_Surjection
<1>8. Cardinality(BatchItems) \in Nat BY <1>7, FS_CardinalityType
<1> QED BY <1>1, <1>4, <1>5, <1>7, <1>8

LEMMA InputValuesIsNat ==
  ASSUME IsFiniteSet(stored), NEW r
  PROVE  InputValues(r) \in Nat
<1> DEFINE S == {y \in stored : y[1] = Target[r]}
           T == {x[2] : x \in S}
           f == [x \in S |-> x[2]]
<1>1. IsFiniteSet(S) BY FS_Subset
<1>2. f \in Surjection(S, T) BY DEF Surjection
<1>3. IsFiniteSet(T)
  <2> HIDE DEF S, T, f
  <2> QED BY <1>1, <1>2, FS_Surjection
<1>4. InputValues(r) = Cardinality(T) BY DEF InputValues
<1> HIDE DEF T
<1> QED BY <1>3, <1>4, FS_CardinalityType

LEMMA RefsCounted ==
  ASSUME TypeOK, NEW R \in SUBSET Resources
  PROVE  Refs(R) \subseteq Writers /\ Cardinality(Refs(R)) \in Nat
<1>1. Refs(R) \subseteq Writers BY DEF TypeOK, Refs
<1>2. IsFiniteSet(Refs(R)) BY <1>1, FS_Subset, ResourceAssumption
<1> QED BY <1>1, <1>2, FS_CardinalityType

(***************************************************************************)
(* The callers' steps and the types.                                       *)
(***************************************************************************)
LEMMA LoopTypes ==
  ASSUME TypeOK, NEW t \in Threads, NEW to \in Pcs, NEW R \in SUBSET Resources, Loop(t, to, R)
  PROVE  TypeOK'
<1>1. Refs(R) \subseteq Writers BY RefsCounted
<1>2. Cardinality(Refs(Slots)) \in Nat BY RefsCounted, ResourceAssumption
<1>3. CallTypes' BY <1>1, <1>2, TypeParts DEF Loop, Goto, CallTypes
<1>4. WriterTypes' BY TypeParts DEF Loop, WriterTypes, writerVars
<1>5. UploadTypes' BY TypeParts DEF Loop, UploadTypes, uploadVars, serverVars
<1> QED BY <1>3, <1>4, <1>5, TypePartsNext

LEMMA StartsCases ==
  ASSUME NEW t \in Threads, Starts(t)
  PROVE  \/ \E r \in Resources, d \in Items \cup {None} :
              Write(t, r, d) /\ (r \in Slots => d \in Items)
         \/ \E to \in {"flush", "flushall", "close"}, R \in SUBSET Resources :
              Loop(t, to, R) /\ (to = "close" => Alone(t))
         \/ CloseJobWriters(t) \/ CloseClient(t)
         \/ \E s \in Slots : DeleteSlot(t, s)
<1> USE DEF FlushSlot, Flush, AddToSlot, WriteRecord, Close, FlushFrontier, CloseFrontier
<1>1. Uses[t] \subseteq Resources /\ Slots \subseteq Resources BY ResourceAssumption
<1>2. \A r \in Resources : {r} \in SUBSET Resources OBVIOUS
<1>3. CASE \E s \in Uses[t] \cap Slots : FlushSlot(t, s) BY <1>1, <1>2, <1>3
<1>4. CASE \E s \in Uses[t] \cap Slots : DeleteSlot(t, s) BY <1>4
<1>5. CASE \E s \in Uses[t] \cap Slots, d \in Items : AddToSlot(t, s, d) BY <1>1, <1>5
<1>6. CASE \E r \in Uses[t] \ Slots : WriteRecord(t, r) BY <1>1, <1>6
<1>7. CASE \E r \in Uses[t] \ Slots : Flush(t, r) \/ Close(t, r) BY <1>1, <1>2, <1>7
<1>8. CASE FlushFrontier(t) \/ CloseFrontier(t) BY <1>1, <1>8
<1> QED BY <1>3, <1>4, <1>5, <1>6, <1>7, <1>8 DEF Starts

LEMMA StartsTypeOK ==
  ASSUME TypeOK, Books, NEW t \in Threads, Starts(t)
  PROVE  TypeOK'
<1>1. ASSUME NEW r \in Resources, NEW d \in Items \cup {None}, Write(t, r, d) PROVE TypeOK'
  <2>1. CallTypes' BY <1>1, TypeParts DEF Write, Goto, CallTypes, WriterTypes, Pcs
  <2>2. WriterTypes' BY <1>1, TypeParts DEF Write, WriterTypes, writerVars
  <2>3. UploadTypes' BY <1>1, TypeParts DEF Write, UploadTypes, uploadVars, serverVars
  <2> QED BY <2>1, <2>2, <2>3, TypePartsNext
<1>2. ASSUME NEW to \in {"flush", "flushall", "close"}, NEW R \in SUBSET Resources, Loop(t, to, R)
      PROVE  TypeOK'
  BY <1>2, LoopTypes DEF Pcs
<1>3. ASSUME CloseJobWriters(t) PROVE TypeOK'
  <2>1. Refs(Closes) \subseteq Writers /\ Cardinality(Refs(Slots)) \in Nat
    BY RefsCounted, ResourceAssumption
  <2>2. CallTypes' BY <1>3, <2>1, TypeParts DEF CloseJobWriters, Goto, CallTypes, Pcs
  <2>3. wclosed' \in [Writers -> BOOLEAN] BY <1>3 DEF CloseJobWriters, TypeOK
  <2>4. WriterTypes' BY <1>3, <2>3, TypeParts DEF CloseJobWriters, WriterTypes
  <2>5. UploadTypes' BY <1>3, TypeParts DEF CloseJobWriters, UploadTypes, uploadVars, serverVars
  <2> QED BY <2>2, <2>4, <2>5, TypePartsNext
<1>4. ASSUME CloseClient(t) PROVE TypeOK'
  <2>1. CallTypes' BY <1>4, TypeParts DEF CloseClient, Goto, CallTypes, Pcs
  <2>2. WriterTypes' BY <1>4, TypeParts DEF CloseClient, WriterTypes, writerVars
  <2>3. UploadTypes' BY <1>4, TypeParts DEF CloseClient, UploadTypes, uploadVars, serverVars
  <2> QED BY <2>1, <2>2, <2>3, TypePartsNext
<1>5. ASSUME NEW s \in Slots, DeleteSlot(t, s) PROVE TypeOK'
  <2>1. CallTypes' BY <1>5, TypeParts, ResourceAssumption DEF DeleteSlot, Goto, CallTypes, Pcs
  <2>2. WriterTypes' BY <1>5, TypeParts DEF DeleteSlot, WriterTypes, writerVars
  <2>3. UploadTypes' BY <1>5, TypeParts DEF DeleteSlot, UploadTypes, uploadVars, serverVars
  <2> QED BY <2>1, <2>2, <2>3, TypePartsNext
<1> QED BY <1>1, <1>2, <1>3, <1>4, <1>5, StartsCases

LEMMA ContinuesTypeOK ==
  ASSUME TypeOK, Books, NEW t \in Threads, Continues(t)
  PROVE  TypeOK'
<1>1. ASSUME ReadStart(t) PROVE TypeOK'
  <2>1. BatchWriteStart(on[t]) \in Nat
    BY InputValuesIsNat DEF BatchWriteStart, Books, WorkerBooks
  <2>2. CallTypes' BY <1>1, <2>1, TypeParts DEF ReadStart, Goto, CallTypes, Pcs
  <2>3. WriterTypes' BY <1>1, TypeParts DEF ReadStart, WriterTypes, writerVars
  <2>4. UploadTypes' BY <1>1, TypeParts DEF ReadStart, UploadTypes, uploadVars, serverVars
  <2> QED BY <2>2, <2>3, <2>4, TypePartsNext
<1>2. ASSUME CreateWriter(t) PROVE TypeOK'
  <2>1. PICK w \in Writers \ Made :
          /\ owner' = [owner EXCEPT ![w] = on[t]] /\ offset' = [offset EXCEPT ![w] = start[t]]
          /\ mine' = [mine EXCEPT ![t] = w]
          /\ fresh' = IF on[t] \notin Slots /\ OpenOn(on[t]) = {} THEN fresh \cup {w} ELSE fresh
          /\ Goto(t, "create", "assign")
          /\ UNCHANGED <<closed, ref, newcount, log, head, unfinished, wclosed, on, item, start,
                         todo, size, uploadVars, stored, slot, reported, lost, torn, raced, seen>>
    BY <1>2 DEF CreateWriter
  <2>2. CallTypes' BY <2>1, TypeParts DEF Goto, CallTypes, Pcs
  <2>3. WriterTypes' BY <2>1, TypeParts DEF WriterTypes, CallTypes
  <2>4. UploadTypes' BY <2>1, TypeParts DEF UploadTypes, uploadVars
  <2> QED BY <2>2, <2>3, <2>4, TypePartsNext
<1>3. ASSUME AssignWriter(t) PROVE TypeOK'
  <2>1. CallTypes' BY <1>3, TypeParts DEF AssignWriter, Goto, CallTypes, Pcs
  <2>2. WriterTypes' BY <1>3, TypeParts DEF AssignWriter, WriterTypes, writerVars, CallTypes
  <2>3. UploadTypes' BY <1>3, TypeParts DEF AssignWriter, UploadTypes, uploadVars, serverVars
  <2> QED BY <2>1, <2>2, <2>3, TypePartsNext
<1>4. ASSUME PutItem(t) PROVE TypeOK'
  <2> DEFINE w == IF on[t] \in Slots THEN mine[t] ELSE ref[on[t]]
  <2>1. CallTypes' BY <1>4, TypeParts, ReturnTypes DEF PutItem
  <2>2. /\ log' = log \/ log' = [log EXCEPT ![w] = Append(@, item[t])]
        /\ unfinished' = unfinished \/ unfinished' = [unfinished EXCEPT ![w] = @ + 1]
        /\ UNCHANGED <<closed, ref, owner, head, offset, wclosed>>
    BY <1>4 DEF PutItem
  <2>3. log' \in [Writers -> Seq(Items \cup {None})]
    <3> DEFINE x == Append(log[w], item[t])
    <3>1. log \in [Writers -> Seq(Items \cup {None})] BY DEF TypeOK
    <3>2. w \in Writers => x \in Seq(Items \cup {None}) BY DEF TypeOK
    <3>3. log' = log \/ log' = [log EXCEPT ![w] = x] BY <2>2
    <3> HIDE DEF w, x
    <3> QED BY <3>1, <3>2, <3>3
  <2>4. unfinished' \in [Writers -> Int]
    <3> HIDE DEF w
    <3> QED BY <2>2 DEF TypeOK
  <2>5. WriterTypes' BY <2>2, <2>3, <2>4, TypeParts DEF WriterTypes
  <2>6. UploadTypes' BY <1>4, TypeParts DEF PutItem, UploadTypes, uploadVars, serverVars
  <2> QED BY <2>1, <2>5, <2>6, TypePartsNext
<1>5. ASSUME NextWriter(t) PROVE TypeOK'
  <2>1. PICK w \in todo[t] :
          /\ mine' = [mine EXCEPT ![t] = w] /\ todo' = [todo EXCEPT ![t] = @ \ {w}]
          /\ wclosed' = IF pc[t] = "close" THEN [wclosed EXCEPT ![w] = TRUE] ELSE wclosed
    BY <1>5 DEF NextWriter
  <2>2. w \in Writers BY DEF TypeOK
  <2>3. CallTypes' BY <1>5, <2>1, <2>2, TypeParts DEF NextWriter, CallTypes
  <2>4. WriterTypes' BY <1>5, <2>1, TypeParts DEF NextWriter, WriterTypes
  <2>5. UploadTypes' BY <1>5, TypeParts DEF NextWriter, UploadTypes, uploadVars, serverVars
  <2> QED BY <2>3, <2>4, <2>5, TypePartsNext
<1>6. ASSUME JoinWriter(t) PROVE TypeOK'
  <2>1. CallTypes' BY <1>6, TypeParts DEF JoinWriter, CallTypes
  <2>2. WriterTypes' BY <1>6, TypeParts DEF JoinWriter, WriterTypes, writerVars
  <2>3. UploadTypes' BY <1>6, TypeParts DEF JoinWriter, UploadTypes, uploadVars, serverVars
  <2> QED BY <2>1, <2>2, <2>3, TypePartsNext
<1>7. ASSUME LoopEnds(t) \/ JoinThread(t) PROVE TypeOK'
  <2>1. CallTypes' BY <1>7, TypeParts, ReturnTypes DEF LoopEnds, JoinThread
  <2>2. WriterTypes' BY <1>7, TypeParts DEF LoopEnds, JoinThread, WriterTypes, writerVars
  <2>3. UploadTypes'
    BY <1>7, TypeParts DEF LoopEnds, JoinThread, UploadTypes, uploadVars, serverVars
  <2> QED BY <2>1, <2>2, <2>3, TypePartsNext
<1>8. ASSUME SlotDeleted(t) PROVE TypeOK'
  <2>1. CallTypes' BY <1>8, TypeParts DEF SlotDeleted, Goto, CallTypes, Pcs
  <2>2. WriterTypes' BY <1>8, TypeParts DEF SlotDeleted, WriterTypes, writerVars
  <2>3. UploadTypes'
    <3>1. on[t] \in Slots BY <1>8 DEF SlotDeleted, Goto, Books, CallBooks, CallBook
    <3> QED BY <1>8, <3>1, TypeParts DEF SlotDeleted, ServerDeletes, UploadTypes, uploadVars
  <2> QED BY <2>1, <2>2, <2>3, TypePartsNext
<1>9. ASSUME NEW served \in BOOLEAN, DeleteRaises(t, served) PROVE TypeOK'
  <2>1. CallTypes' BY <1>9, TypeParts, ReturnTypes DEF DeleteRaises
  <2>2. WriterTypes' BY <1>9, TypeParts DEF DeleteRaises, WriterTypes, writerVars
  <2>3. on[t] \in Slots BY <1>9 DEF DeleteRaises, Return, Goto, Books, CallBooks, CallBook
  <2>4. UploadTypes'
    BY <1>9, <2>3, TypeParts DEF DeleteRaises, ServerDeletes, UploadTypes, uploadVars
  <2> QED BY <2>1, <2>2, <2>4, TypePartsNext
<1>10. ASSUME PopCount(t) PROVE TypeOK'
  <2>1. CallTypes' BY <1>10, TypeParts, ReturnTypes DEF PopCount
  <2>2. WriterTypes' BY <1>10, TypeParts DEF PopCount, WriterTypes, writerVars
  <2>3. UploadTypes'
    <3>1. on[t] \in Slots BY <1>10 DEF PopCount, Return, Goto, Books, CallBooks, CallBook
    <3>2. Uncounted(on[t]) \in Nat BY ResourceAssumption DEF TypeOK, Uncounted
    <3>3. UNCHANGED <<uploadVars, slot, fresh, seen>> BY <1>10 DEF PopCount
    <3>4. newcount' \in [Slots -> Nat] /\ reported' \in [Slots -> Nat]
      BY <1>10, <3>1, <3>2 DEF PopCount, CountPopped, TypeOK
    <3>5. torn' \subseteq Slots /\ raced' \subseteq Slots BY <1>10, <3>1 DEF PopCount, TypeOK
    <3> QED BY <3>3, <3>4, <3>5, TypeParts DEF UploadTypes, uploadVars
  <2> QED BY <2>1, <2>2, <2>3, TypePartsNext
<1> QED BY <1>1, <1>2, <1>3, <1>4, <1>5, <1>6, <1>7, <1>8, <1>9, <1>10 DEF Continues

(***************************************************************************)
(* The callers' steps and the books.                                       *)
(***************************************************************************)
LEMMA WorkerBooksFrame ==
  ASSUME WorkerBooks, UNCHANGED <<uploadVars, owner, stored, slot>>
  PROVE  WorkerBooks'
BY DEF WorkerBooks, Busy, Made, uploadVars

LEMMA WriterBooksFrame ==
  ASSUME WriterBooks, UNCHANGED <<owner, log, head, unfinished, cur, taken>>
  PROVE  WriterBooks'
BY DEF WriterBooks, WriterBook, Held, Queued

LEMMA CallBooksFrame ==
  ASSUME CallBooks, UNCHANGED <<callVars, ref, owner>>
  PROVE  CallBooks'
BY DEF CallBooks, CallBook, callVars

LEMMA ReturnBooks ==
  ASSUME TypeOK, CallBooks, NEW t \in Threads, NEW from, Return(t, from), UNCHANGED <<ref, owner>>
  PROVE  CallBooks'
BY DEF TypeOK, CallBooks, CallBook, Return, Goto

LEMMA StartsBooks ==
  ASSUME TypeOK, Books, NEW t \in Threads, Starts(t)
  PROVE  Books'
<1>1. ASSUME NEW r \in Resources, NEW d \in Items \cup {None}, Write(t, r, d),
             r \in Slots => d \in Items
      PROVE  Books'
  <2>1. WorkerBooks' BY <1>1, WorkerBooksFrame DEF Write, Books, writerVars, serverVars
  <2>2. WriterBooks' BY <1>1, WriterBooksFrame DEF Write, Books, writerVars, uploadVars
  <2>3. CallBook(t)'
    <3>1. pc'[t] = (IF ref[r] # 0 THEN "put" ELSE IF r \in Appending THEN "start" ELSE "create")
          /\ on'[t] = r /\ item'[t] = d /\ mine'[t] = ref[r] /\ ref' = ref /\ owner' = owner
      BY <1>1 DEF Write, Goto, TypeOK, writerVars
    <3> QED BY <1>1, <3>1 DEF CallBook, Books, RefBooks
  <2>4. \A u \in Threads \ {t} : CallBook(u)'
    BY <1>1 DEF Write, Goto, TypeOK, writerVars, CallBook, Books, CallBooks
  <2>5. RefBooks' BY <1>1 DEF Write, RefBooks, Books, writerVars
  <2> QED BY <2>1, <2>2, <2>3, <2>4, <2>5 DEF Books, CallBooks
<1>2. ASSUME NEW to \in {"flush", "flushall", "close"}, NEW R \in SUBSET Resources, Loop(t, to, R)
      PROVE  Books'
  <2>1. WorkerBooks' BY <1>2, WorkerBooksFrame DEF Loop, Books, writerVars, serverVars
  <2>2. WriterBooks' BY <1>2, WriterBooksFrame DEF Loop, Books, writerVars, uploadVars
  <2>3. CallBooks' BY <1>2 DEF Loop, Goto, TypeOK, writerVars, CallBook, Books, CallBooks
  <2>4. RefBooks' BY <1>2 DEF Loop, RefBooks, Books, writerVars
  <2> QED BY <2>1, <2>2, <2>3, <2>4 DEF Books
<1>3. ASSUME CloseJobWriters(t) PROVE Books'
  <2>1. WorkerBooks' BY <1>3, WorkerBooksFrame DEF CloseJobWriters, Books, serverVars
  <2>2. WriterBooks' BY <1>3, WriterBooksFrame DEF CloseJobWriters, Books, uploadVars
  <2>3. CallBooks' BY <1>3 DEF CloseJobWriters, Goto, TypeOK, CallBook, Books, CallBooks
  <2>4. RefBooks' BY <1>3 DEF CloseJobWriters, RefBooks, Books
  <2> QED BY <2>1, <2>2, <2>3, <2>4 DEF Books
<1>4. ASSUME CloseClient(t) PROVE Books'
  <2>1. WorkerBooks' BY <1>4, WorkerBooksFrame DEF CloseClient, Books, writerVars, serverVars
  <2>2. WriterBooks' BY <1>4, WriterBooksFrame DEF CloseClient, Books, writerVars, uploadVars
  <2>3. CallBooks' BY <1>4 DEF CloseClient, Goto, TypeOK, writerVars, CallBook, Books, CallBooks
  <2>4. RefBooks' BY <1>4 DEF CloseClient, RefBooks, Books, writerVars
  <2> QED BY <2>1, <2>2, <2>3, <2>4 DEF Books
<1>5. ASSUME NEW s \in Slots, DeleteSlot(t, s) PROVE Books'
  <2>1. WorkerBooks' BY <1>5, WorkerBooksFrame DEF DeleteSlot, Books, writerVars, serverVars
  <2>2. WriterBooks' BY <1>5, WriterBooksFrame DEF DeleteSlot, Books, writerVars, uploadVars
  <2>3. CallBooks' BY <1>5 DEF DeleteSlot, Goto, TypeOK, writerVars, CallBook, Books, CallBooks
  <2>4. RefBooks' BY <1>5 DEF DeleteSlot, RefBooks, Books, writerVars
  <2> QED BY <2>1, <2>2, <2>3, <2>4 DEF Books
<1> QED BY <1>1, <1>2, <1>3, <1>4, <1>5, StartsCases

LEMMA ContinuesBooks ==
  ASSUME TypeOK, Books, NEW t \in Threads, Continues(t)
  PROVE  Books'
<1>1. ASSUME ReadStart(t) PROVE Books'
  <2>1. WorkerBooks' BY <1>1, WorkerBooksFrame DEF ReadStart, Books, writerVars, serverVars
  <2>2. WriterBooks' BY <1>1, WriterBooksFrame DEF ReadStart, Books, writerVars, uploadVars
  <2>3. CallBooks' BY <1>1 DEF ReadStart, Goto, TypeOK, writerVars, CallBook, Books, CallBooks
  <2>4. RefBooks' BY <1>1 DEF ReadStart, RefBooks, Books, writerVars
  <2> QED BY <2>1, <2>2, <2>3, <2>4 DEF Books
<1>2. ASSUME CreateWriter(t) PROVE Books'
  <2>1. PICK w \in Writers \ Made :
          /\ owner' = [owner EXCEPT ![w] = on[t]] /\ mine' = [mine EXCEPT ![t] = w]
          /\ Goto(t, "create", "assign")
          /\ UNCHANGED <<ref, log, head, unfinished, on, item, uploadVars, stored, slot>>
    BY <1>2 DEF CreateWriter
  <2>2. owner[w] = None /\ on[t] \in Resources /\ on[t] # None /\ w # 0
    BY <2>1, ResourceAssumption DEF Made, Books, CallBooks, CallBook, Goto
  <2>3. owner'[w] = on[t] /\ \A v \in Writers \ {w} : owner'[v] = owner[v]
    BY <2>1 DEF TypeOK
  <2>4. WorkerBooks' BY <2>1, <2>2, <2>3 DEF Books, WorkerBooks, Busy, Made, uploadVars
  <2>5. WriterBook(w)'
    <3>0. log'[w] = <<>> BY <2>1, <2>2 DEF Books, WriterBooks, WriterBook
    <3>1. log'[w] \in Seq(Items) BY <3>0
    <3> QED BY <2>1, <2>2, <2>3, <3>1
            DEF Books, WriterBooks, WriterBook, Held, Queued, uploadVars
  <2>6. \A v \in Writers \ {w} : WriterBook(v)'
    BY <2>1, <2>3 DEF Books, WriterBooks, WriterBook, Held, Queued, uploadVars
  <2>7. CallBook(t)'
    BY <2>1, <2>2, <2>3 DEF Books, CallBooks, CallBook, Goto, TypeOK
  <2>8. \A u \in Threads \ {t} : CallBook(u)'
    <3> SUFFICES ASSUME NEW u \in Threads \ {t} PROVE CallBook(u)' OBVIOUS
    <3>1. /\ pc'[u] = pc[u] /\ on'[u] = on[u] /\ item'[u] = item[u] /\ mine'[u] = mine[u]
          /\ ref' = ref
      BY <2>1 DEF Goto, TypeOK
    <3>2. mine[u] \in Writers /\ owner[mine[u]] \in Resources => owner'[mine[u]] = owner[mine[u]]
      BY <2>2, <2>3, ResourceAssumption
    <3>3. mine[u] \in Writers \cup {0} /\ CallBook(u) BY DEF TypeOK, Books, CallBooks
    <3>4. Slots \subseteq Resources BY ResourceAssumption
    <3> QED BY <3>1, <3>2, <3>3, <3>4 DEF CallBook
  <2>9. RefBooks'
    <3> SUFFICES ASSUME NEW r \in Resources, ref'[r] # 0 PROVE owner'[ref'[r]] = r BY DEF RefBooks
    <3>1. ref' = ref /\ ref[r] \in Writers /\ owner[ref[r]] = r
      BY <2>1 DEF TypeOK, Books, RefBooks
    <3>2. ref[r] # w BY <2>2, <3>1, ResourceAssumption
    <3> QED BY <2>3, <3>1, <3>2
  <2> QED BY <2>4, <2>5, <2>6, <2>7, <2>8, <2>9 DEF Books, CallBooks, WriterBooks
<1>3. ASSUME AssignWriter(t) PROVE Books'
  <2>1. WorkerBooks' BY <1>3, WorkerBooksFrame DEF AssignWriter, Books, writerVars, serverVars
  <2>2. WriterBooks' BY <1>3, WriterBooksFrame DEF AssignWriter, Books, writerVars, uploadVars
  <2>3. on[t] \in Resources /\ mine[t] # 0 /\ owner[mine[t]] = on[t]
        /\ ref' = [ref EXCEPT ![on[t]] = mine[t]] /\ owner' = owner
    BY <1>3 DEF AssignWriter, Goto, Books, CallBooks, CallBook, writerVars
  <2>4. CallBooks'
    BY <1>3, <2>3 DEF AssignWriter, Goto, TypeOK, CallBook, Books, CallBooks
  <2>5. RefBooks' BY <2>3 DEF TypeOK, RefBooks, Books
  <2> QED BY <2>1, <2>2, <2>4, <2>5 DEF Books
<1>4. ASSUME PutItem(t) PROVE Books'
  <2> DEFINE w == IF on[t] \in Slots THEN mine[t] ELSE ref[on[t]]
  <2>1. /\ Return(t, "put")
        /\ \/ log' = log /\ unfinished' = unfinished
           \/ /\ log' = [log EXCEPT ![w] = Append(log[w], item[t])]
              /\ unfinished' = [unfinished EXCEPT ![w] = unfinished[w] + 1]
        /\ UNCHANGED <<ref, owner, head, uploadVars, stored, slot>>
    BY <1>4 DEF PutItem, serverVars
  <2>2. w \in Writers /\ owner[w] \in Resources
        /\ (owner[w] \in Slots => item[t] \in Items)
    <3>1. on[t] \in Resources /\ (on[t] \in Slots => item[t] \in Items) /\ ref[on[t]] # 0
          /\ (on[t] \in Slots => mine[t] # 0 /\ owner[mine[t]] = on[t])
      BY <2>1 DEF Return, Goto, Books, CallBooks, CallBook
    <3>2. owner[w] = on[t] BY <3>1 DEF Books, RefBooks
    <3>3. w \in Writers BY <3>1 DEF TypeOK
    <3> QED BY <3>1, <3>2, <3>3
  <2> HIDE DEF w
  <2>3. WorkerBooks' BY <2>1, WorkerBooksFrame DEF Books
  <2>4. ASSUME NEW v \in Writers PROVE WriterBook(v)'
    <3>1. CASE v # w \/ (log' = log /\ unfinished' = unfinished)
      <4>1. log'[v] = log[v] /\ unfinished'[v] = unfinished[v] /\ head' = head /\ owner' = owner
            /\ cur' = cur /\ taken' = taken
        BY <2>1, <3>1 DEF TypeOK, uploadVars
      <4> QED BY <4>1 DEF Books, WriterBooks, WriterBook, Held, Queued
    <3>2. CASE /\ v = w /\ log' = [log EXCEPT ![w] = Append(log[w], item[t])]
               /\ unfinished' = [unfinished EXCEPT ![w] = unfinished[w] + 1]
      <4>1. log'[v] = Append(log[v], item[t]) /\ unfinished'[v] = unfinished[v] + 1
            /\ head' = head /\ owner' = owner /\ cur' = cur /\ taken' = taken
        BY <2>1, <2>2, <3>2 DEF TypeOK, uploadVars
      <4>2. log[v] \in Seq(Items \cup {None}) /\ item[t] \in Items \cup {None} /\ head[v] \in Nat
            /\ unfinished[v] \in Int /\ taken \in Nat
        BY <2>2, <3>2, ResourceAssumption DEF TypeOK
      <4>3. Len(log'[v]) = Len(log[v]) + 1 /\ Len(log[v]) \in Nat BY <4>1, <4>2
      <4>4. owner[v] \in Slots => log'[v] \in Seq(Items)
        BY <2>2, <3>2, <4>1 DEF Books, WriterBooks, WriterBook
      <4>5. owner[v] # None BY <2>2, <3>2, ResourceAssumption
      <4>6. WriterBook(v) BY <2>2 DEF Books, WriterBooks
      <4>7. Held(v)' = Held(v) /\ Held(v) \in Nat BY <4>1, <4>2 DEF Held
      <4>8. Queued(v)' = Queued(v) + 1 /\ Queued(v) \in Int BY <4>1, <4>2, <4>3 DEF Queued
      <4>9. owner'[v] \in Slots => log'[v] \in Seq(Items) BY <4>1, <4>4
      <4>10. head'[v] <= Len(log'[v]) /\ Held(v)' <= head'[v] /\ unfinished'[v] = Queued(v)' + Held(v)'
        BY <4>1, <4>2, <4>3, <4>6, <4>7, <4>8 DEF WriterBook
      <4> QED BY <3>2, <4>1, <4>5, <4>9, <4>10 DEF WriterBook
    <3> QED BY <2>1, <3>1, <3>2
  <2>5. CallBooks' BY <2>1, ReturnBooks DEF Books
  <2>6. RefBooks' BY <2>1 DEF RefBooks, Books
  <2> QED BY <2>3, <2>4, <2>5, <2>6 DEF Books, WriterBooks
<1>5. ASSUME NextWriter(t) PROVE Books'
  <2>1. PICK w \in todo[t] : mine' = [mine EXCEPT ![t] = w] BY <1>5 DEF NextWriter
  <2>2. WorkerBooks' BY <1>5, WorkerBooksFrame DEF NextWriter, Books, serverVars
  <2>3. WriterBooks' BY <1>5, WriterBooksFrame DEF NextWriter, Books, uploadVars
  <2>4. CallBooks' BY <1>5, <2>1 DEF NextWriter, InLoop, TypeOK, CallBook, Books, CallBooks
  <2>5. RefBooks' BY <1>5 DEF NextWriter, RefBooks, Books
  <2> QED BY <2>2, <2>3, <2>4, <2>5 DEF Books
<1>6. ASSUME JoinWriter(t) PROVE Books'
  <2>1. WorkerBooks' BY <1>6, WorkerBooksFrame DEF JoinWriter, Books, writerVars, serverVars
  <2>2. WriterBooks' BY <1>6, WriterBooksFrame DEF JoinWriter, Books, writerVars, uploadVars
  <2>3. CallBooks' BY <1>6 DEF JoinWriter, InLoop, TypeOK, CallBook, Books, CallBooks, writerVars
  <2>4. RefBooks' BY <1>6 DEF JoinWriter, RefBooks, Books, writerVars
  <2> QED BY <2>1, <2>2, <2>3, <2>4 DEF Books
<1>7. ASSUME LoopEnds(t) \/ JoinThread(t) PROVE Books'
  <2>1. WorkerBooks' BY <1>7, WorkerBooksFrame DEF LoopEnds, JoinThread, Books, writerVars, serverVars
  <2>2. WriterBooks' BY <1>7, WriterBooksFrame DEF LoopEnds, JoinThread, Books, writerVars, uploadVars
  <2>3. CallBooks' BY <1>7, ReturnBooks DEF LoopEnds, JoinThread, Books, writerVars
  <2>4. RefBooks' BY <1>7 DEF LoopEnds, JoinThread, RefBooks, Books, writerVars
  <2> QED BY <2>1, <2>2, <2>3, <2>4 DEF Books
<1>8. ASSUME NEW S \in SUBSET Slots, slot' = [s \in Slots |-> IF s \in S THEN {} ELSE slot[s]],
             UNCHANGED <<uploadVars, owner, stored>>
      PROVE  WorkerBooks'
  <2>1. \A s \in Slots : IsFiniteSet(slot'[s]) BY <1>8, FS_EmptySet DEF Books, WorkerBooks
  <2> QED BY <1>8, <2>1 DEF Books, WorkerBooks, Busy, Made, uploadVars
<1>9. ASSUME SlotDeleted(t) PROVE Books'
  <2>1. on[t] \in Slots BY <1>9 DEF SlotDeleted, Goto, Books, CallBooks, CallBook
  <2>2. slot' = [s \in Slots |-> IF s \in {on[t]} THEN {} ELSE slot[s]]
    BY <1>9 DEF SlotDeleted, ServerDeletes, TypeOK
  <2>3. WorkerBooks' BY <1>8, <1>9, <2>1, <2>2 DEF SlotDeleted, writerVars
  <2>4. WriterBooks' BY <1>9, WriterBooksFrame DEF SlotDeleted, Books, writerVars, uploadVars
  <2>5. CallBooks' BY <1>9, <2>1 DEF SlotDeleted, Goto, TypeOK, CallBook, Books, CallBooks, writerVars
  <2>6. RefBooks' BY <1>9 DEF SlotDeleted, RefBooks, Books, writerVars
  <2> QED BY <2>3, <2>4, <2>5, <2>6 DEF Books
<1>10. ASSUME NEW served \in BOOLEAN, DeleteRaises(t, served) PROVE Books'
  <2>1. on[t] \in Slots BY <1>10 DEF DeleteRaises, Return, Goto, Books, CallBooks, CallBook
  <2>2. WorkerBooks'
    <3>1. CASE served
      <4>1. slot' = [s \in Slots |-> IF s \in {on[t]} THEN {} ELSE slot[s]]
        BY <1>10, <3>1 DEF DeleteRaises, ServerDeletes, TypeOK
      <4> QED BY <1>8, <1>10, <2>1, <4>1 DEF DeleteRaises, writerVars
    <3>2. CASE ~served
      BY <1>10, <3>2, WorkerBooksFrame DEF DeleteRaises, Books, writerVars
    <3> QED BY <3>1, <3>2
  <2>3. WriterBooks' BY <1>10, WriterBooksFrame DEF DeleteRaises, Books, writerVars, uploadVars
  <2>4. CallBooks' BY <1>10, ReturnBooks DEF DeleteRaises, Books, writerVars
  <2>5. RefBooks' BY <1>10 DEF DeleteRaises, RefBooks, Books, writerVars
  <2> QED BY <2>2, <2>3, <2>4, <2>5 DEF Books
<1>11. ASSUME PopCount(t) PROVE Books'
  <2>1. WorkerBooks' BY <1>11, WorkerBooksFrame DEF PopCount, Books, writerVars
  <2>2. WriterBooks' BY <1>11, WriterBooksFrame DEF PopCount, Books, writerVars, uploadVars
  <2>3. CallBooks' BY <1>11, ReturnBooks DEF PopCount, Books, writerVars
  <2>4. RefBooks' BY <1>11 DEF PopCount, RefBooks, Books, writerVars
  <2> QED BY <2>1, <2>2, <2>3, <2>4 DEF Books
<1> QED BY <1>1, <1>2, <1>3, <1>4, <1>5, <1>6, <1>7, <1>9, <1>10, <1>11 DEF Continues

(***************************************************************************)
(* The worker's steps.                                                     *)
(***************************************************************************)
LEMMA CurMade ==
  ASSUME TypeOK, Books, Busy
  PROVE  /\ cur \in Writers /\ owner[cur] \in Resources /\ taken \in Nat /\ taken > 0
         /\ head[cur] \in Nat /\ offset[cur] \in Nat /\ unfinished[cur] \in Int /\ taken <= head[cur]
<1>1. cur \in Writers /\ taken > 0 BY DEF Books, WorkerBooks, Made
<1>2. Held(cur) = taken /\ WriterBook(cur) BY <1>1 DEF Held, Books, WriterBooks
<1>3. owner[cur] \in Resources BY <1>1 DEF Books, WorkerBooks, Made, TypeOK
<1> QED BY <1>1, <1>2, <1>3, ResourceAssumption DEF TypeOK, WriterBook

LEMMA ServerKeeps ==
  ASSUME TypeOK, Books, wpc = "upload", ServerApplies \/ UNCHANGED <<stored, slot>>
  PROVE  /\ slot' \in [Slots -> SUBSET Items]
         /\ IsFiniteSet(stored') /\ \A s \in Slots : IsFiniteSet(slot'[s])
<1>1. cur \in Writers /\ taken <= head[cur] /\ taken \in Nat /\ head[cur] \in Nat
  BY CurMade DEF Busy
<1>2. IsFiniteSet(BatchItems) /\ IsFiniteSet(Placed) BY <1>1, FiniteBatch
<1>3. CASE UNCHANGED <<stored, slot>> BY <1>3 DEF TypeOK, Books, WorkerBooks
<1>4. CASE owner[cur] \notin Slots /\ stored' = stored \cup Placed /\ slot' = slot
  <2>1. IsFiniteSet(stored \cup Placed) BY <1>2, FS_Union DEF Books, WorkerBooks
  <2> QED BY <1>4, <2>1 DEF TypeOK, Books, WorkerBooks
<1>5. CASE owner[cur] \in Slots /\ stored' = stored
           /\ slot' = [slot EXCEPT ![owner[cur]] = slot[owner[cur]] \cup BatchItems]
  <2>1. BatchItems \subseteq Items
    <3> SUFFICES ASSUME NEW i \in BatchIndexes PROVE log[cur][i] \in Items BY DEF BatchItems
    <3>1. log[cur] \in Seq(Items) /\ head[cur] <= Len(log[cur])
      BY <1>1, <1>5 DEF Books, WriterBooks, WriterBook
    <3>2. Len(log[cur]) \in Nat BY <3>1
    <3>3. i \in 1..Len(log[cur]) BY <1>1, <3>1, <3>2 DEF BatchIndexes
    <3> QED BY <3>1, <3>3
  <2>2. IsFiniteSet(slot[owner[cur]] \cup BatchItems)
    BY <1>2, <1>5, FS_Union DEF Books, WorkerBooks
  <2>3. slot' \in [Slots -> SUBSET Items] BY <1>5, <2>1 DEF TypeOK
  <2>4. \A s \in Slots : slot'[s] = IF s = owner[cur] THEN slot[s] \cup BatchItems ELSE slot[s]
    BY <1>5 DEF TypeOK
  <2> QED BY <1>5, <2>2, <2>3, <2>4 DEF Books, WorkerBooks
<1> QED BY <1>3, <1>4, <1>5 DEF ServerApplies

\* The batch is through its attempts; found is what the callback will get.
LEMMA UploadEnds ==
  ASSUME TypeOK, Books, wpc = "upload", AfterUpload, ServerApplies \/ UNCHANGED <<stored, slot>>,
         unfinished' = unfinished, reported' \in [Slots -> Nat],
         IF owner[cur] \in Slots THEN answer' \in 0..Size \cup {None} ELSE answer' = answer
  PROVE  TypeOK' /\ Books'
<1> USE DEF AfterUpload
<1>1. /\ cur \in Writers /\ owner[cur] \in Resources /\ taken \in Nat /\ taken > 0
      /\ offset[cur] \in Nat
  BY CurMade DEF Busy
<1>2. /\ slot' \in [Slots -> SUBSET Items]
      /\ IsFiniteSet(stored') /\ \A s \in Slots : IsFiniteSet(slot'[s])
  BY ServerKeeps
<1>3. CallTypes' BY TypeParts DEF CallTypes, callVars
<1>4. WriterTypes'
  <2>1. offset' \in [Writers -> Nat] BY <1>1 DEF TypeOK
  <2> QED BY <2>1, TypeParts DEF WriterTypes
<1>5. UploadTypes'
  <2>1. wpc' \in {"callback", "done"} /\ 0 \in 0..MaxTries - 1 BY ResourceAssumption
  <2>2. answer' \in 0..Size \cup {None} BY DEF TypeOK
  <2> QED BY <1>2, <2>1, <2>2, TypeParts DEF UploadTypes
<1>6. WorkerBooks'
  <2>1. answer = None /\ cur \in Made BY DEF Books, WorkerBooks, Busy
  <2>2. wpc' = (IF owner[cur] \in Slots THEN "callback" ELSE "done") /\ owner' = owner
        /\ cur' = cur /\ taken' = taken
    OBVIOUS
  <2>3. owner[cur] \notin Slots => answer' = None BY <2>1
  <2> QED BY <1>1, <1>2, <2>1, <2>2, <2>3 DEF WorkerBooks, Busy, Made
<1>7. WriterBooks' BY WriterBooksFrame DEF Books
<1>8. CallBooks' BY CallBooksFrame DEF Books
<1>9. RefBooks' BY DEF Books, RefBooks
<1> QED BY <1>3, <1>4, <1>5, <1>6, <1>7, <1>8, <1>9, TypePartsNext DEF Books

\* How many of the batch are new to the slot.
LEMMA NewInSlot ==
  ASSUME TypeOK, Books, wpc = "upload", owner[cur] \in Slots
  PROVE  Cardinality(BatchItems \ slot[owner[cur]]) \in 0..Size
<1> DEFINE N == BatchItems \ slot[owner[cur]]
<1>1. cur \in Writers /\ taken \in Nat BY CurMade DEF Busy
<1>2. IsFiniteSet(BatchItems) /\ Cardinality(BatchItems) \in 0..taken BY <1>1, FiniteBatch
<1>3. Cardinality(N) <= Cardinality(BatchItems) /\ IsFiniteSet(N) BY <1>2, FS_Subset
<1>4. Cardinality(N) \in Nat BY <1>3, FS_CardinalityType
<1>5. taken <= Size BY ResourceAssumption DEF TypeOK
<1> HIDE DEF N
<1>6. Cardinality(N) \in 0..Size BY <1>1, <1>2, <1>3, <1>4, <1>5, ResourceAssumption
<1> QED BY <1>6 DEF N

LEMMA WorkerCorrect ==
  ASSUME TypeOK, Books, Worker
  PROVE  TypeOK' /\ Books'
<1>1. ASSUME NEW w \in Writers, TakeBatch(w) PROVE TypeOK' /\ Books'
  <2> DEFINE n == BatchLength(w)
  <2>1. WriterBook(w) /\ wpc = "pick" /\ cur = 0 /\ taken = 0 /\ w # 0
    BY <1>1, ResourceAssumption DEF TakeBatch, Books, WriterBooks, WorkerBooks, Busy
  <2>2. head[w] \in Nat /\ unfinished[w] \in Int /\ Len(log[w]) \in Nat
        /\ log[w] \in Seq(Items \cup {None})
    BY DEF TypeOK
  <2>3. n \in 1..Size /\ n <= Queued(w) /\ Queued(w) \in Nat
    BY <1>1, <2>1, <2>2, ResourceAssumption DEF TakeBatch, BatchLength, Queued
  <2>4. head' = [head EXCEPT ![w] = head[w] + n] /\ cur' = w /\ taken' = n /\ wpc' = "upload"
        /\ UNCHANGED <<ref, owner, log, unfinished, stored, slot, callVars>>
    BY <1>1 DEF TakeBatch, serverVars
  <2> HIDE DEF n
  <2>5. head' \in [Writers -> Nat] /\ head'[w] = head[w] + n
        /\ \A v \in Writers \ {w} : head'[v] = head[v]
    BY <2>2, <2>3, <2>4 DEF TypeOK
  <2>6. CallTypes' BY <1>1, TypeParts DEF TakeBatch, CallTypes, callVars
  <2>7. WriterTypes' BY <1>1, <2>5, TypeParts DEF TakeBatch, WriterTypes
  <2>8. UploadTypes'
    <3>1. taken' \in 0..Size /\ cur' \in Writers \cup {0} BY <2>3, <2>4, ResourceAssumption
    <3> QED BY <1>1, <3>1, TypeParts DEF TakeBatch, UploadTypes, serverVars
  <2>9. WorkerBooks'
    <3>1. w \in Made /\ answer' = answer /\ answer = None
      BY <1>1 DEF TakeBatch, Books, WorkerBooks
    <3> QED BY <2>3, <2>4, <3>1 DEF Books, WorkerBooks, Busy, Made
  <2>10. ASSUME NEW v \in Writers PROVE WriterBook(v)'
    <3>1. CASE v = w
      <4>1. Held(v) = 0 /\ Held(v)' = n BY <2>1, <2>4, <3>1 DEF Held
      <4>2. Queued(v)' = Queued(v) - n BY <2>2, <2>3, <2>4, <2>5, <3>1 DEF Queued
      <4>3. head'[v] <= Len(log'[v]) /\ Held(v)' <= head'[v]
        BY <2>2, <2>3, <2>4, <2>5, <3>1, <4>1 DEF Queued
      <4>4. unfinished'[v] = Queued(v)' + Held(v)'
        BY <2>1, <2>2, <2>3, <2>4, <3>1, <4>1, <4>2 DEF WriterBook
      <4> QED BY <2>1, <2>4, <3>1, <4>3, <4>4 DEF WriterBook
    <3>2. CASE v # w
      BY <2>1, <2>4, <2>5, <3>2, ResourceAssumption
         DEF Books, WriterBooks, WriterBook, Held, Queued
    <3> QED BY <3>1, <3>2
  <2>11. CallBooks' BY <2>4, CallBooksFrame DEF Books
  <2>12. RefBooks' BY <2>4 DEF Books, RefBooks
  <2> QED BY <2>6, <2>7, <2>8, <2>9, <2>10, <2>11, <2>12, TypePartsNext DEF Books, WriterBooks
<1>2. unfinished \in [Writers -> Int] BY DEF TypeOK
<1>3. ASSUME unfinished' = [unfinished EXCEPT ![cur] = @ - DoneBeforeCallback]
      PROVE  unfinished' = unfinished
  BY <1>2, <1>3 DEF DoneBeforeCallback
<1>4. ASSUME UploadAnswered PROVE TypeOK' /\ Books'
  <2>1. /\ wpc = "upload" /\ ServerApplies /\ AfterUpload /\ unfinished' = unfinished
        /\ IF owner[cur] \in Slots
           THEN /\ answer' = Cardinality(BatchItems \ slot[owner[cur]])
                /\ reported' = [reported EXCEPT ![owner[cur]] =
                                  @ + Cardinality(BatchItems \ slot[owner[cur]])]
           ELSE answer' = answer /\ reported' = reported
    BY <1>3, <1>4 DEF UploadAnswered
  <2>2. owner[cur] \in Slots => Cardinality(BatchItems \ slot[owner[cur]]) \in 0..Size
    BY <2>1, NewInSlot
  <2>3. reported' \in [Slots -> Nat] BY <2>1, <2>2, ResourceAssumption DEF TypeOK
  <2> QED BY <2>1, <2>2, <2>3, UploadEnds
<1>5. ASSUME NEW served \in BOOLEAN, UploadAgain(served) PROVE TypeOK' /\ Books'
  <2>1. wpc = "upload" /\ (ServerApplies \/ UNCHANGED <<stored, slot>>) BY <1>5 DEF UploadAgain
  <2>2. /\ slot' \in [Slots -> SUBSET Items]
        /\ IsFiniteSet(stored') /\ \A s \in Slots : IsFiniteSet(slot'[s])
    BY <2>1, ServerKeeps
  <2>3. CallTypes' BY <1>5, TypeParts DEF UploadAgain, CallTypes, callVars
  <2>4. WriterTypes' BY <1>5, TypeParts DEF UploadAgain, WriterTypes, writerVars
  <2>5. UploadTypes'
    <3>1. tries' \in 0..MaxTries - 1 BY <1>5, ResourceAssumption DEF UploadAgain, TypeOK
    <3> QED BY <1>5, <2>2, <3>1, TypeParts DEF UploadAgain, UploadTypes
  <2>6. WorkerBooks' BY <1>5, <2>2 DEF UploadAgain, Books, WorkerBooks, Busy, Made, writerVars
  <2>7. WriterBooks' BY <1>5, WriterBooksFrame DEF UploadAgain, Books, writerVars
  <2>8. CallBooks' BY <1>5, CallBooksFrame DEF UploadAgain, Books, writerVars
  <2>9. RefBooks' BY <1>5 DEF UploadAgain, Books, RefBooks, writerVars
  <2> QED BY <2>3, <2>4, <2>5, <2>6, <2>7, <2>8, <2>9, TypePartsNext DEF Books
<1>6. ASSUME NEW served \in BOOLEAN, UploadGivenUp(served) PROVE TypeOK' /\ Books'
  <2>1. /\ wpc = "upload" /\ (ServerApplies \/ UNCHANGED <<stored, slot>>) /\ AfterUpload
        /\ unfinished' = unfinished /\ answer' = answer /\ reported' = reported
    BY <1>3, <1>6 DEF UploadGivenUp
  <2>2. reported' \in [Slots -> Nat] /\ answer' \in 0..Size \cup {None} BY <2>1 DEF TypeOK
  <2> QED BY <2>1, <2>2, UploadEnds
<1>7. ASSUME CallbackReads PROVE TypeOK' /\ Books'
  <2>1. owner[cur] \in Slots BY <1>7 DEF CallbackReads, Books, WorkerBooks
  <2>2. CallTypes' BY <1>7, TypeParts DEF CallbackReads, CallTypes, callVars
  <2>3. WriterTypes' BY <1>7, TypeParts DEF CallbackReads, WriterTypes, writerVars
  <2>4. UploadTypes' BY <1>7, <2>1, TypeParts DEF CallbackReads, UploadTypes, serverVars
  <2>5. WorkerBooks'
    BY <1>7 DEF CallbackReads, Books, WorkerBooks, Busy, Made, writerVars, serverVars
  <2>6. WriterBooks' BY <1>7, WriterBooksFrame DEF CallbackReads, Books, writerVars
  <2>7. CallBooks' BY <1>7, CallBooksFrame DEF CallbackReads, Books, writerVars
  <2>8. RefBooks' BY <1>7 DEF CallbackReads, Books, RefBooks, writerVars
  <2> QED BY <2>2, <2>3, <2>4, <2>5, <2>6, <2>7, <2>8, TypePartsNext DEF Books
<1>8. ASSUME CallbackWrites PROVE TypeOK' /\ Books'
  <2>1. owner[cur] \in Slots /\ answer # None BY <1>8 DEF CallbackWrites, Books, WorkerBooks
  <2>2. Counted(base) \in Nat BY <2>1, ResourceAssumption DEF Counted, TypeOK
  <2>3. CallTypes' BY <1>8, TypeParts DEF CallbackWrites, CallTypes, callVars
  <2>4. WriterTypes' BY <1>8, TypeParts DEF CallbackWrites, WriterTypes, writerVars
  <2>5. UploadTypes'
    BY <1>8, <2>1, <2>2, TypeParts DEF CallbackWrites, UploadTypes, serverVars
  <2>6. WorkerBooks'
    BY <1>8 DEF CallbackWrites, Books, WorkerBooks, Busy, Made, writerVars, serverVars
  <2>7. WriterBooks' BY <1>8, WriterBooksFrame DEF CallbackWrites, Books, writerVars
  <2>8. CallBooks' BY <1>8, CallBooksFrame DEF CallbackWrites, Books, writerVars
  <2>9. RefBooks' BY <1>8 DEF CallbackWrites, Books, RefBooks, writerVars
  <2> QED BY <2>3, <2>4, <2>5, <2>6, <2>7, <2>8, <2>9, TypePartsNext DEF Books
<1>9. ASSUME MarkDone PROVE TypeOK' /\ Books'
  <2>1. cur \in Writers /\ taken \in Nat /\ taken > 0 /\ unfinished[cur] \in Int /\ wpc = "done"
    BY <1>9, CurMade DEF MarkDone, Busy
  <2>2. /\ unfinished' = [unfinished EXCEPT ![cur] = unfinished[cur] - taken]
        /\ cur' = 0 /\ taken' = 0 /\ base' = 0 /\ wpc' = "pick" /\ answer' = answer
        /\ UNCHANGED <<ref, owner, log, head, stored, slot, callVars>>
    BY <1>9, <2>1 DEF MarkDone, TasksDone, DoneBeforeCallback, serverVars
  <2>3. unfinished' \in [Writers -> Int] BY <2>1, <2>2 DEF TypeOK
  <2>4. CallTypes' BY <1>9, TypeParts DEF MarkDone, CallTypes, callVars
  <2>5. WriterTypes' BY <1>9, <2>3, TypeParts DEF MarkDone, WriterTypes
  <2>6. UploadTypes'
    BY <1>9, <2>2, ResourceAssumption, TypeParts DEF MarkDone, UploadTypes, serverVars
  <2>7. WorkerBooks' BY <2>1, <2>2 DEF Books, WorkerBooks, Busy, Made
  <2>8. ASSUME NEW v \in Writers PROVE WriterBook(v)'
    <3>1. WriterBook(v) /\ head[v] \in Nat /\ v # 0 /\ Queued(v)' = Queued(v) /\ Held(v)' = 0
          /\ unfinished[v] \in Int /\ Len(log[v]) \in Nat
      BY <2>2, ResourceAssumption DEF Books, WriterBooks, TypeOK, Queued, Held
    <3>2. unfinished'[v] = unfinished[v] - Held(v) BY <2>1, <2>2, <3>1 DEF TypeOK, Held
    <3>3. Held(v) \in Nat BY <2>1 DEF Held
    <3>4. Queued(v) \in Int BY <3>1 DEF Queued
    <3>5. unfinished'[v] = Queued(v)' + Held(v)' BY <3>1, <3>2, <3>3, <3>4 DEF WriterBook
    <3> QED BY <2>2, <3>1, <3>5 DEF WriterBook
  <2>9. CallBooks' BY <2>2, CallBooksFrame DEF Books
  <2>10. RefBooks' BY <2>2 DEF Books, RefBooks
  <2> QED BY <2>4, <2>5, <2>6, <2>7, <2>8, <2>9, <2>10, TypePartsNext DEF Books, WriterBooks
<1>10. ASSUME DequeEmpty PROVE TypeOK' /\ Books'
  <2>1. wclosed' \in [Writers -> BOOLEAN] BY <1>10 DEF DequeEmpty, TypeOK
  <2>2. CallTypes' BY <1>10, TypeParts DEF DequeEmpty, CallTypes, callVars
  <2>3. WriterTypes' BY <1>10, <2>1, TypeParts DEF DequeEmpty, WriterTypes
  <2>4. UploadTypes' BY <1>10, TypeParts DEF DequeEmpty, UploadTypes, Made
  <2>5. WorkerBooks' BY <1>10 DEF DequeEmpty, Books, WorkerBooks, Busy, Made
  <2>6. WriterBooks' BY <1>10, WriterBooksFrame DEF DequeEmpty, Books
  <2>7. CallBooks' BY <1>10, CallBooksFrame DEF DequeEmpty, Books
  <2>8. RefBooks' BY <1>10 DEF DequeEmpty, Books, RefBooks
  <2> QED BY <2>2, <2>3, <2>4, <2>5, <2>6, <2>7, <2>8, TypePartsNext DEF Books
<1>11. ASSUME StopOrGoOn PROVE TypeOK' /\ Books'
  <2>1. CallTypes' BY <1>11, TypeParts DEF StopOrGoOn, CallTypes, callVars
  <2>2. WriterTypes' BY <1>11, TypeParts DEF StopOrGoOn, WriterTypes, writerVars
  <2>3. UploadTypes' BY <1>11, TypeParts DEF StopOrGoOn, UploadTypes
  <2>4. WorkerBooks' BY <1>11 DEF StopOrGoOn, Books, WorkerBooks, Busy, Made, writerVars
  <2>5. WriterBooks' BY <1>11, WriterBooksFrame DEF StopOrGoOn, Books, writerVars
  <2>6. CallBooks' BY <1>11, CallBooksFrame DEF StopOrGoOn, Books, writerVars
  <2>7. RefBooks' BY <1>11 DEF StopOrGoOn, Books, RefBooks, writerVars
  <2> QED BY <2>1, <2>2, <2>3, <2>4, <2>5, <2>6, <2>7, TypePartsNext DEF Books
<1> QED BY <1>1, <1>4, <1>5, <1>6, <1>7, <1>8, <1>9, <1>10, <1>11 DEF Worker

LEMMA StepBooks ==
  ASSUME TypeOK, Books, [Next]_vars
  PROVE  TypeOK' /\ Books'
<1>1. CASE UNCHANGED vars
  <2>1. TypeOK'
    BY <1>1 DEF TypeOK, vars, writerVars, uploadVars, callVars, serverVars
  <2>2. WorkerBooks' BY <1>1, WorkerBooksFrame DEF Books, vars, writerVars, serverVars
  <2>3. WriterBooks' BY <1>1, WriterBooksFrame DEF Books, vars, writerVars, uploadVars
  <2>4. CallBooks' BY <1>1, CallBooksFrame DEF Books, vars, writerVars
  <2>5. RefBooks' BY <1>1 DEF Books, RefBooks, vars, writerVars
  <2> QED BY <2>1, <2>2, <2>3, <2>4, <2>5 DEF Books
<1>2. ASSUME NEW t \in Threads, Starts(t) PROVE TypeOK' /\ Books'
  BY <1>2, StartsTypeOK, StartsBooks
<1>3. ASSUME NEW t \in Threads, Continues(t) PROVE TypeOK' /\ Books'
  BY <1>3, ContinuesTypeOK, ContinuesBooks
<1>4. CASE Worker BY <1>4, WorkerCorrect
<1> QED BY <1>1, <1>2, <1>3, <1>4 DEF Next

\* The variables keep their types and the books fit.
THEOREM WriterTypesCorrect == Spec => [](TypeOK /\ Books)
<1>1. Init => TypeOK /\ Books BY InitBooks
<1>2. TypeOK /\ Books /\ [Next]_vars => (TypeOK /\ Books)' BY StepBooks
<1> QED BY <1>1, <1>2, PTL DEF Spec

(***************************************************************************)
(* A call that closes has the resources to itself, and nothing is written  *)
(* once the client is closed; the writers that the worker saw when it      *)
(* found its deque empty were closed and stay drained; close_writers waits *)
(* for all that its first loop found.                                      *)
(***************************************************************************)
Closing(t) ==
  pc[t] \in {"close", "closejob", "shut"} => \A u \in Threads \ {t} : pc[u] = "idle"
Draining(t) ==
  pc[t] = "closejob" =>
    \A w \in Refs(Closes) : w \in todo[t] \/ w = mine[t] \/ unfinished[w] = 0
NoneWriting == \A t \in Threads : pc[t] \notin {"start", "create", "assign", "put"}
ClosedBooks ==
  /\ closed => NoneWriting
  /\ wpc = "stopped" => closed
  /\ wpc \in {"look", "stopped"} => \A w \in seen : wclosed[w] /\ Queued(w) = 0
ClosingBooks == (\A t \in Threads : Closing(t) /\ Draining(t)) /\ ClosedBooks

LEMMA ClosedFrame ==
  ASSUME TypeOK, ClosedBooks, UNCHANGED <<wpc, seen, head>>, closed => closed',
         closed' => NoneWriting',
         \A w \in Writers : wclosed[w] => wclosed'[w] /\ log'[w] = log[w]
  PROVE  ClosedBooks'
<1>1. seen \subseteq Writers BY DEF TypeOK
<1> QED BY <1>1 DEF ClosedBooks, Queued

LEMMA ClosingFrame ==
  ASSUME ClosingBooks, NEW t \in Threads, \A u \in Threads \ {t} : pc'[u] = pc[u],
         pc[t] # "idle" \/ NobodyCloses,
         pc'[t] \in {"close", "closejob", "shut"} => pc[t] = pc'[t] \/ Alone(t)
  PROVE  \A u \in Threads : Closing(u)'
<1> SUFFICES ASSUME NEW u \in Threads, NEW v \in Threads \ {u},
                    pc'[u] \in {"close", "closejob", "shut"}
             PROVE  pc'[v] = "idle"
  BY DEF Closing
<1>1. CASE u = t BY <1>1 DEF ClosingBooks, Closing, Alone
<1>2. CASE u # t
  <2>1. pc[u] \in {"close", "closejob", "shut"} BY <1>2
  <2>2. pc[t] = "idle" BY <1>2, <2>1 DEF ClosingBooks, Closing
  <2> QED BY <2>1, <2>2 DEF NobodyCloses
<1> QED BY <1>1, <1>2

LEMMA StartsClosing ==
  ASSUME TypeOK, Books, ClosingBooks, NEW t \in Threads, Starts(t)
  PROVE  ClosingBooks'
<1>0. NobodyCloses BY DEF Starts
<1>6. /\ UNCHANGED <<wpc, seen, head, log>> /\ (closed => closed')
      /\ \A w \in Writers : wclosed[w] => wclosed'[w]
  BY StartsCases
     DEF Write, Loop, CloseJobWriters, CloseClient, DeleteSlot, writerVars, uploadVars, serverVars,
         TypeOK
<1>1. ASSUME NEW r \in Resources, NEW d \in Items \cup {None}, Write(t, r, d)
      PROVE  ClosingBooks'
  <2>1. \A u \in Threads \ {t} : pc'[u] = pc[u] BY <1>1 DEF Write, Goto, TypeOK
  <2>2. pc'[t] \in {"put", "start", "create"} BY <1>1 DEF Write, Goto, TypeOK
  <2>3. \A u \in Threads : Closing(u)' BY <1>0, <2>1, <2>2, ClosingFrame
  <2>4. \A u \in Threads : Draining(u)'
    BY <1>0, <2>1, <2>2 DEF Draining, NobodyCloses
  <2>5. ClosedBooks' BY <1>1, <1>6, ClosedFrame DEF Write, ClosingBooks
  <2> QED BY <2>3, <2>4, <2>5 DEF ClosingBooks
<1>2. ASSUME NEW to \in {"flush", "flushall", "close"}, NEW R \in SUBSET Resources, Loop(t, to, R),
             to = "close" => Alone(t)
      PROVE  ClosingBooks'
  <2>1. \A u \in Threads \ {t} : pc'[u] = pc[u] BY <1>2 DEF Loop, Goto, TypeOK
  <2>2. pc'[t] = to BY <1>2 DEF Loop, Goto, TypeOK
  <2>3. \A u \in Threads : Closing(u)' BY <1>0, <1>2, <2>1, <2>2, ClosingFrame
  <2>4. \A u \in Threads : Draining(u)'
    BY <1>0, <2>1, <2>2 DEF Draining, NobodyCloses
  <2>5. closed' => NoneWriting'
    BY <1>2, <2>1, <2>2 DEF Loop, ClosingBooks, ClosedBooks, NoneWriting
  <2>6. ClosedBooks' BY <1>6, <2>5, ClosedFrame DEF ClosingBooks
  <2> QED BY <2>3, <2>4, <2>6 DEF ClosingBooks
<1>3. ASSUME CloseJobWriters(t) PROVE ClosingBooks'
  <2>1. \A u \in Threads \ {t} : pc'[u] = pc[u] BY <1>3 DEF CloseJobWriters, Goto, TypeOK
  <2>2. pc'[t] = "closejob" /\ todo'[t] = Refs(Closes) /\ Alone(t)
    BY <1>3 DEF CloseJobWriters, Goto, TypeOK
  <2>3. \A u \in Threads : Closing(u)' BY <1>0, <2>1, <2>2, ClosingFrame
  <2>4. \A u \in Threads : Draining(u)'
    BY <1>0, <1>3, <2>1, <2>2 DEF CloseJobWriters, Draining, NobodyCloses, Refs
  <2>5. closed' => NoneWriting'
    BY <1>3, <2>1, <2>2 DEF CloseJobWriters, ClosingBooks, ClosedBooks, NoneWriting
  <2>6. ClosedBooks' BY <1>6, <2>5, ClosedFrame DEF ClosingBooks
  <2> QED BY <2>3, <2>4, <2>6 DEF ClosingBooks
<1>4. ASSUME CloseClient(t) PROVE ClosingBooks'
  <2>1. \A u \in Threads \ {t} : pc'[u] = pc[u] BY <1>4 DEF CloseClient, Goto, TypeOK
  <2>2. pc'[t] = "shut" /\ Alone(t) BY <1>4 DEF CloseClient, Goto, TypeOK
  <2>3. \A u \in Threads : Closing(u)' BY <1>0, <2>1, <2>2, ClosingFrame
  <2>4. \A u \in Threads : Draining(u)' BY <1>0, <2>1, <2>2 DEF Draining, NobodyCloses
  <2>5. closed' => NoneWriting'
    BY <1>4, <2>1, <2>2 DEF CloseClient, ClosingBooks, ClosedBooks, NoneWriting, Alone
  <2>6. ClosedBooks' BY <1>6, <2>5, ClosedFrame DEF ClosingBooks
  <2> QED BY <2>3, <2>4, <2>6 DEF ClosingBooks
<1>5. ASSUME NEW s \in Slots, DeleteSlot(t, s) PROVE ClosingBooks'
  <2>1. \A u \in Threads \ {t} : pc'[u] = pc[u] BY <1>5 DEF DeleteSlot, Goto, TypeOK
  <2>2. pc'[t] = "delete" BY <1>5 DEF DeleteSlot, Goto, TypeOK
  <2>3. \A u \in Threads : Closing(u)' BY <1>0, <2>1, <2>2, ClosingFrame
  <2>4. \A u \in Threads : Draining(u)' BY <1>0, <2>1, <2>2 DEF Draining, NobodyCloses
  <2>5. closed' => NoneWriting'
    BY <1>5, <2>1, <2>2 DEF DeleteSlot, ClosingBooks, ClosedBooks, NoneWriting
  <2>6. ClosedBooks' BY <1>6, <2>5, ClosedFrame DEF ClosingBooks
  <2> QED BY <2>3, <2>4, <2>6 DEF ClosingBooks
<1> QED BY <1>1, <1>2, <1>3, <1>4, <1>5, StartsCases

LEMMA ContinuesClosing ==
  ASSUME TypeOK, Books, ClosingBooks, NEW t \in Threads, Continues(t)
  PROVE  ClosingBooks'
<1>1. /\ pc[t] # "idle" /\ \A u \in Threads \ {t} : pc'[u] = pc[u]
      /\ pc'[t] \in {"close", "closejob", "shut"} => pc'[t] = pc[t]
      /\ closed' = closed /\ wpc' = wpc /\ head' = head
      /\ pc'[t] \in {"start", "create", "assign", "put"} =>
           pc[t] \in {"start", "create", "assign"}
  BY DEF Continues, ReadStart, CreateWriter, AssignWriter, PutItem, NextWriter, JoinWriter, LoopEnds,
         JoinThread, SlotDeleted, PopCount, DeleteRaises, Goto, Return, InLoop, TypeOK, writerVars,
         uploadVars
<1>2. \A u \in Threads : Closing(u)' BY <1>1, ClosingFrame
<1>3. seen' = seen /\ \A w \in Writers : wclosed[w] => wclosed'[w] /\ log'[w] = log[w]
  <2>1. CASE PutItem(t) BY <2>1 DEF PutItem, serverVars, TypeOK
  <2>2. CASE ~PutItem(t)
    <3>1. wclosed' = wclosed \/ \E v : wclosed' = [wclosed EXCEPT ![v] = TRUE]
      BY <2>2 DEF Continues, ReadStart, CreateWriter, AssignWriter, NextWriter, JoinWriter, LoopEnds,
                  JoinThread, SlotDeleted, PopCount, DeleteRaises, writerVars
    <3>2. seen' = seen /\ log' = log
      BY <2>2 DEF Continues, ReadStart, CreateWriter, AssignWriter, NextWriter, JoinWriter, LoopEnds,
                  JoinThread, SlotDeleted, PopCount, DeleteRaises, writerVars, serverVars
    <3> QED BY <3>1, <3>2 DEF TypeOK
  <2> QED BY <2>1, <2>2
<1>4. ClosedBooks'
  <2>1. closed' => NoneWriting' BY <1>1 DEF ClosingBooks, ClosedBooks, NoneWriting
  <2> QED BY <1>1, <1>3, <2>1, ClosedFrame DEF ClosingBooks
<1>5. \A u \in Threads : Draining(u)'
  <2> SUFFICES ASSUME NEW u \in Threads, pc'[u] = "closejob", NEW w \in Refs(Closes)'
               PROVE  w \in todo'[u] \/ w = mine'[u] \/ unfinished'[w] = 0
    BY DEF Draining
  <2>1. pc[u] = "closejob" BY <1>1
  <2>2. u = t BY <1>1, <2>1 DEF ClosingBooks, Closing
  <2>3. ref' = ref /\ unfinished' = unfinished /\ (NextWriter(t) \/ JoinWriter(t))
    BY <1>1, <2>1, <2>2
       DEF Continues, ReadStart, CreateWriter, AssignWriter, PutItem, NextWriter, JoinWriter,
           LoopEnds, JoinThread, SlotDeleted, PopCount, DeleteRaises, Goto, Return, TypeOK, writerVars
  <2>4. w \in Refs(Closes) /\ w # 0 BY <2>3 DEF Refs
  <2>5. w \in todo[u] \/ w = mine[u] \/ unfinished[w] = 0 BY <2>1, <2>4 DEF ClosingBooks, Draining
  <2>6. CASE NextWriter(t)
    <3>1. PICK v \in todo[t] : mine'[t] = v /\ todo'[t] = todo[t] \ {v}
      BY <2>6 DEF NextWriter, TypeOK
    <3>2. mine[t] = 0 BY <2>6 DEF NextWriter
    <3> QED BY <2>2, <2>3, <2>4, <2>5, <3>1, <3>2
  <2>7. CASE JoinWriter(t)
    <3>1. todo' = todo /\ unfinished[mine[t]] = 0 BY <2>7 DEF JoinWriter, Joined
    <3> QED BY <2>2, <2>3, <2>4, <2>5, <3>1
  <2> QED BY <2>3, <2>6, <2>7
<1> QED BY <1>2, <1>4, <1>5 DEF ClosingBooks

LEMMA WorkerClosing ==
  ASSUME TypeOK, Books, ClosingBooks, Worker
  PROVE  ClosingBooks'
<1>1. UNCHANGED <<closed, ref, log, callVars>> /\ wpc # "stopped"
  BY DEF Worker, TakeBatch, UploadAnswered, UploadAgain, UploadGivenUp, AfterUpload, CallbackReads,
         CallbackWrites, MarkDone, DequeEmpty, StopOrGoOn, writerVars
<1>2. \A t \in Threads : Closing(t)' BY <1>1 DEF ClosingBooks, Closing, callVars
<1>3. ASSUME NEW w \in Writers, unfinished[w] = 0 PROVE unfinished'[w] = 0
  <2>1. CASE MarkDone
    <3>1. Queued(w) + Held(w) = 0 /\ head[w] <= Len(log[w]) /\ head[w] \in Nat /\ Len(log[w]) \in Nat
      BY <1>3 DEF Books, WriterBooks, WriterBook, TypeOK
    <3>2. taken \in Nat /\ taken > 0 BY <2>1, CurMade DEF MarkDone, Busy
    <3>3. w # cur BY <3>1, <3>2 DEF Queued, Held
    <3> QED BY <1>3, <2>1, <3>3 DEF MarkDone, TypeOK
  <2>2. CASE ~MarkDone
    <3>1. unfinished' = unfinished \/ unfinished' = [unfinished EXCEPT ![cur] = @ - 0]
      BY <2>2 DEF Worker, TakeBatch, UploadAnswered, UploadAgain, UploadGivenUp, CallbackReads,
                  CallbackWrites, DequeEmpty, StopOrGoOn, writerVars, DoneBeforeCallback
    <3> QED BY <1>3, <3>1 DEF TypeOK
  <2> QED BY <2>1, <2>2
<1>4. \A t \in Threads : Draining(t)'
  <2> SUFFICES ASSUME NEW t \in Threads, pc'[t] = "closejob", NEW w \in Refs(Closes)'
               PROVE  w \in todo'[t] \/ w = mine'[t] \/ unfinished'[w] = 0
    BY DEF Draining
  <2>1. w \in Refs(Closes) BY <1>1 DEF Refs
  <2>2. w \in Writers BY <2>1, RefsCounted, ResourceAssumption
  <2> QED BY <1>1, <1>3, <2>1, <2>2 DEF ClosingBooks, Draining, callVars
<1>5. ClosedBooks'
  <2>1. (closed => NoneWriting) /\ closed' = closed /\ NoneWriting' = NoneWriting
    BY <1>1 DEF ClosingBooks, ClosedBooks, NoneWriting, callVars
  <2>2. CASE DequeEmpty
    <3>1. /\ head' = head /\ log' = log /\ seen' = Made /\ wpc' = "look"
          /\ wclosed' = [w \in Writers |-> wclosed[w] \/ w \in Made]
          /\ \A w \in Made : Queued(w) = 0
      BY <2>2 DEF DequeEmpty, InDeque
    <3>2. \A w \in seen' : wclosed'[w] /\ Queued(w)' = 0 BY <3>1 DEF Made, Queued
    <3> QED BY <2>1, <3>1, <3>2 DEF ClosedBooks
  <2>3. CASE StopOrGoOn
    <3>1. /\ wpc = "look" /\ UNCHANGED <<head, log, wclosed>>
          /\ IF closed THEN wpc' = "stopped" /\ seen' = seen ELSE wpc' = "pick"
      BY <2>3 DEF StopOrGoOn, writerVars
    <3> QED BY <2>1, <3>1 DEF ClosingBooks, ClosedBooks, Queued
  <2>4. CASE ~DequeEmpty /\ ~StopOrGoOn
    <3>1. wpc' \notin {"look", "stopped"}
      BY <1>1, <2>4 DEF Worker, TakeBatch, UploadAnswered, UploadAgain, UploadGivenUp, AfterUpload,
                        CallbackReads, CallbackWrites, MarkDone
    <3> QED BY <2>1, <3>1 DEF ClosedBooks
  <2> QED BY <2>2, <2>3, <2>4
<1> QED BY <1>2, <1>4, <1>5 DEF ClosingBooks

LEMMA StepClosing ==
  ASSUME TypeOK, Books, ClosingBooks, [Next]_vars
  PROVE  ClosingBooks'
<1>1. CASE UNCHANGED vars
  BY <1>1 DEF ClosingBooks, Closing, Draining, ClosedBooks, NoneWriting, Queued, Refs, vars, writerVars,
              uploadVars, callVars, serverVars
<1>2. CASE Next BY <1>2, StartsClosing, ContinuesClosing, WorkerClosing DEF Next
<1> QED BY <1>1, <1>2

LEMMA ClosingAlways == Spec => [](TypeOK /\ Books /\ ClosingBooks)
<1>1. Init => ClosingBooks
  BY DEF Init, ClosingBooks, Closing, Draining, ClosedBooks
<1>2. TypeOK /\ Books /\ ClosingBooks /\ [Next]_vars => ClosingBooks' BY StepClosing
<1> QED BY <1>1, <1>2, WriterTypesCorrect, PTL DEF Spec

(***************************************************************************)
(* What flush, close and close_writers have waited for.                    *)
(***************************************************************************)
LEMMA NothingUnfinished ==
  ASSUME TypeOK, Books, NEW w \in Writers, unfinished[w] = 0
  PROVE  Queued(w) = 0 /\ (cur = w => wpc \in {"pick", "look", "stopped"})
<1>1. Queued(w) + Held(w) = 0 /\ head[w] <= Len(log[w]) /\ head[w] \in Nat /\ Len(log[w]) \in Nat
  BY DEF Books, WriterBooks, WriterBook, TypeOK
<1>2. taken \in Nat BY ResourceAssumption DEF TypeOK
<1>3. Queued(w) = 0 /\ Held(w) = 0 BY <1>1, <1>2 DEF Queued, Held
<1>4. cur = w => ~Busy BY <1>2, <1>3 DEF Held, Books, WorkerBooks
<1> QED BY <1>3, <1>4 DEF Busy, TypeOK

LEMMA LoopReturns ==
  ASSUME TypeOK, NEW t \in Threads, InLoop(t), [Next]_vars
  PROVE  /\ mine[t] # 0 /\ mine'[t] = 0 => unfinished[mine[t]] = 0
         /\ pc'[t] = "idle" => mine[t] = 0 /\ (todo[t] = {} \/ Changed(t))
<1>1. CASE UNCHANGED vars BY <1>1 DEF vars, callVars, InLoop
<1>2. CASE Worker
  <2>1. UNCHANGED callVars
    BY <1>2 DEF Worker, TakeBatch, UploadAnswered, UploadAgain, UploadGivenUp, AfterUpload,
                CallbackReads, CallbackWrites, MarkDone, DequeEmpty, StopOrGoOn
  <2> QED BY <2>1 DEF callVars, InLoop
<1>3. ASSUME NEW u \in Threads \ {t}, Starts(u) \/ Continues(u) PROVE mine'[t] = mine[t] /\ pc'[t] = pc[t]
  <2>1. CASE Starts(u)
    <3>1. mine' = mine \/ \E w : mine' = [mine EXCEPT ![u] = w]
      BY <2>1, StartsCases DEF Write, Loop, CloseJobWriters, CloseClient, DeleteSlot
    <3>2. \E p : pc' = [pc EXCEPT ![u] = p]
      BY <2>1, StartsCases DEF Write, Loop, CloseJobWriters, CloseClient, DeleteSlot, Goto
    <3> QED BY <3>1, <3>2 DEF TypeOK
  <2>2. CASE Continues(u)
    BY <2>2 DEF Continues, ReadStart, CreateWriter, AssignWriter, PutItem, NextWriter, JoinWriter,
                LoopEnds, JoinThread, SlotDeleted, PopCount, DeleteRaises, Goto, Return, TypeOK
  <2> QED BY <1>3, <2>1, <2>2
<1>4. CASE Starts(t)
  <2>1. pc[t] = "idle"
    BY <1>4, StartsCases DEF Write, Loop, CloseJobWriters, CloseClient, DeleteSlot, Goto
  <2> QED BY <2>1 DEF InLoop
<1>5. CASE Continues(t)
  <2>1. NextWriter(t) \/ JoinWriter(t) \/ LoopEnds(t)
    BY <1>5 DEF Continues, ReadStart, CreateWriter, AssignWriter, PutItem, JoinThread, SlotDeleted,
                PopCount, DeleteRaises, Goto, Return, InLoop
  <2>2. CASE NextWriter(t) BY <2>2 DEF NextWriter, InLoop
  <2>3. CASE JoinWriter(t) BY <2>3 DEF JoinWriter, Joined, InLoop
  <2>4. CASE LoopEnds(t) BY <2>4 DEF LoopEnds
  <2> QED BY <2>1, <2>2, <2>3, <2>4
<1> QED BY <1>1, <1>2, <1>3, <1>4, <1>5 DEF Next, InLoop

\* Flushing or closing a slot's writer ends after the callbacks of all that was
\* put on it (_checkpoint calls back before task_done).
THEOREM FlushCountsHolds == Spec => FlushCounts
<1>1. ASSUME TypeOK, Books, ClosingBooks, [Next]_vars
      PROVE  \A t \in Threads, s \in Slots :
               (InLoop(t) /\ mine[t] # 0 /\ mine'[t] = 0 /\ owner[mine[t]] = s) =>
                 (cur = mine[t] => wpc = "pick") /\ Queued(mine[t]) = 0
  <2> SUFFICES ASSUME NEW t \in Threads, InLoop(t), mine[t] # 0, mine'[t] = 0
               PROVE  (cur = mine[t] => wpc = "pick") /\ Queued(mine[t]) = 0
    OBVIOUS
  <2>1. mine[t] \in Writers BY <1>1 DEF TypeOK
  <2>2. unfinished[mine[t]] = 0 BY <1>1, LoopReturns
  <2>3. wpc \in {"look", "stopped"} => cur # mine[t]
    BY <1>1, <2>1, ResourceAssumption DEF Books, WorkerBooks, Busy
  <2> QED BY <1>1, <2>1, <2>2, <2>3, NothingUnfinished
<1>2. TypeOK /\ Books /\ ClosingBooks /\ [Next]_vars =>
        [\A t \in Threads, s \in Slots :
           (InLoop(t) /\ mine[t] # 0 /\ mine'[t] = 0 /\ owner[mine[t]] = s) =>
             (cur = mine[t] => wpc = "pick") /\ Queued(mine[t]) = 0]_vars
  BY <1>1
<1> QED BY <1>2, ClosingAlways, PTL DEF Spec, FlushCounts

\* When the client is closed every writer is drained, referred to or not, that was
\* made when the worker found its deque empty for the last time (batchuploader.py
\* close and worker).
THEOREM ClientCloseDrainsHolds == Spec => ClientCloseDrains
<1>1. ASSUME TypeOK, Books, ClosingBooks, [Next]_vars
      PROVE  \A t \in Threads : (pc[t] = "shut" /\ pc'[t] = "idle") =>
               \A w \in Made : w \in seen => unfinished[w] = 0 /\ Queued(w) = 0
  <2> SUFFICES ASSUME NEW t \in Threads, pc[t] = "shut", pc'[t] = "idle", NEW w \in Made, w \in seen
               PROVE  unfinished[w] = 0 /\ Queued(w) = 0
    OBVIOUS
  <2>1. wpc = "stopped"
    <3>1. ~UNCHANGED pc OBVIOUS
    <3>2. ~Worker /\ ~UNCHANGED vars
      BY <3>1 DEF vars, callVars, Worker, TakeBatch, UploadAnswered, UploadAgain, UploadGivenUp,
                  AfterUpload, CallbackReads, CallbackWrites, MarkDone, DequeEmpty,
                  StopOrGoOn
    <3>3. PICK u \in Threads : Starts(u) \/ Continues(u) BY <1>1, <3>2 DEF Next
    <3>4. CASE Starts(u)
      BY <1>1, <3>4, StartsCases
         DEF Write, Loop, CloseJobWriters, CloseClient, DeleteSlot, Goto, TypeOK
    <3>5. CASE Continues(u)
      BY <1>1, <3>5
         DEF Continues, ReadStart, CreateWriter, AssignWriter, PutItem, NextWriter, JoinWriter,
             LoopEnds, JoinThread, SlotDeleted, PopCount, DeleteRaises, Goto, Return, InLoop, TypeOK
    <3> QED BY <3>3, <3>4, <3>5
  <2>2. w \in Writers /\ Queued(w) = 0 BY <1>1, <2>1 DEF Made, ClosingBooks, ClosedBooks
  <2>3. Held(w) = 0 BY <1>1, <2>1 DEF Held, Books, WorkerBooks, Busy
  <2>4. unfinished[w] = Queued(w) + Held(w) BY <1>1, <2>2 DEF Books, WriterBooks, WriterBook
  <2> QED BY <2>2, <2>3, <2>4
<1>2. TypeOK /\ Books /\ ClosingBooks /\ [Next]_vars =>
        [\A t \in Threads : (pc[t] = "shut" /\ pc'[t] = "idle") =>
           \A w \in Made : w \in seen => unfinished[w] = 0 /\ Queued(w) = 0]_vars
  BY <1>1
<1> QED BY <1>2, ClosingAlways, PTL DEF Spec, ClientCloseDrains

\* close_writers waits for everything put through the resources of the job, as
\* long as it closes the resources through which that was written (job.py).
THEOREM CloseWritersDrainsHolds ==
  ASSUME JobWriters \subseteq Closes
  PROVE  Spec => CloseWritersDrains
<1>1. ASSUME TypeOK, Books, ClosingBooks, [Next]_vars
      PROVE  \A t \in Threads : (pc[t] = "closejob" /\ pc'[t] = "idle") =>
               \A r \in JobWriters : ref[r] # 0 => unfinished[ref[r]] = 0
  <2> SUFFICES ASSUME NEW t \in Threads, pc[t] = "closejob", pc'[t] = "idle",
                      NEW r \in JobWriters, ref[r] # 0
               PROVE  unfinished[ref[r]] = 0
    OBVIOUS
  <2>1. mine[t] = 0 /\ todo[t] = {} BY <1>1, LoopReturns DEF InLoop, Changed
  <2>2. ref[r] \in Refs(Closes) BY DEF Refs
  <2> QED BY <1>1, <2>1, <2>2 DEF ClosingBooks, Draining
<1>2. TypeOK /\ Books /\ ClosingBooks /\ [Next]_vars =>
        [\A t \in Threads : (pc[t] = "closejob" /\ pc'[t] = "idle") =>
           \A r \in JobWriters : ref[r] # 0 => unfinished[ref[r]] = 0]_vars
  BY <1>1
<1> QED BY <1>2, ClosingAlways, PTL DEF Spec, CloseWritersDrains

(***************************************************************************)
(* The counts.  A slot's count and what the callback under way has still   *)
(* to add are what was reported, unless a pop came between its read and    *)
(* its write and will be undone; and they are no more than the server      *)
(* holds, also if the callback goes on from the count as it read it,       *)
(* unless they may hold what was answered before a delete.                 *)
(***************************************************************************)
Counting(s) == wpc = "count" /\ owner[cur] = s
Bounded(s) ==
  s \in torn \/ (/\ newcount[s] + Uncounted(s) <= Cardinality(slot[s])
                 /\ Counting(s) => base + answer <= Cardinality(slot[s]))
BaseRead(s) == s \in raced \/ (Counting(s) => base = newcount[s])
CountBooks ==
  /\ CountIsReported
  /\ \A s \in Slots : Bounded(s) /\ BaseRead(s)

LEMMA CountNumbers ==
  ASSUME TypeOK, Books, NEW s \in Slots
  PROVE  /\ Uncounted(s) \in Nat /\ newcount[s] \in Nat /\ reported[s] \in Nat /\ base \in Nat
         /\ Cardinality(slot[s]) \in Nat
         /\ Counting(s) => answer \in Nat /\ Uncounted(s) = answer
<1>1. IsFiniteSet(slot[s]) BY DEF Books, WorkerBooks
<1>2. Cardinality(slot[s]) \in Nat BY <1>1, FS_CardinalityType
<1>3. Counting(s) => answer \in Nat /\ Uncounted(s) = answer
  BY ResourceAssumption DEF TypeOK, Counting, Uncounted, CallbackDue, Books, WorkerBooks
<1> QED BY <1>2, <1>3, ResourceAssumption DEF TypeOK, Uncounted

LEMMA CountFrame ==
  ASSUME CountBooks, UNCHANGED <<newcount, uploadVars, reported, slot, torn, raced>>,
         wpc \in {"callback", "count"} => owner'[cur] = owner[cur]
  PROVE  CountBooks'
<1>1. \A s : Uncounted(s)' = Uncounted(s) BY DEF Uncounted, CallbackDue, uploadVars
<1>2. \A s : Counting(s)' = Counting(s) BY DEF Counting, uploadVars
<1>3. \A s \in Slots : Bounded(s)' /\ BaseRead(s)'
  BY <1>1, <1>2 DEF CountBooks, Bounded, BaseRead, uploadVars
<1>4. CountIsReported' BY <1>1 DEF CountBooks, CountIsReported
<1> QED BY <1>3, <1>4 DEF CountBooks

LEMMA StartsCount ==
  ASSUME CountBooks, NEW t \in Threads, Starts(t)
  PROVE  CountBooks'
<1>1. UNCHANGED <<newcount, uploadVars, reported, slot, torn, raced, owner>>
  BY StartsCases
     DEF Write, Loop, CloseJobWriters, CloseClient, DeleteSlot, writerVars, serverVars
<1> QED BY <1>1, CountFrame

\* A delete that the server serves.
LEMMA DeleteCount ==
  ASSUME TypeOK, Books, CountBooks, NEW d \in Slots, ServerDeletes(d),
         UNCHANGED <<newcount, uploadVars, reported, raced, owner>>
  PROVE  CountBooks'
<1>1. \A s : Uncounted(s)' = Uncounted(s) /\ Counting(s)' = Counting(s)
  BY DEF Uncounted, CallbackDue, Counting, uploadVars
<1>2. CountIsReported' BY <1>1 DEF CountBooks, CountIsReported
<1>3. \A s \in Slots : BaseRead(s)' BY <1>1 DEF CountBooks, BaseRead, uploadVars
<1>4. ASSUME NEW s \in Slots PROVE Bounded(s)'
  <2>1. CASE s = d
    <3> SUFFICES ASSUME d \notin torn' PROVE Bounded(s)' BY <2>1 DEF Bounded
    <3>1. ~(newcount[d] > 0) /\ ~CallbackDue(d) BY DEF ServerDeletes
    <3>2. newcount[d] = 0 /\ Uncounted(d) = 0 /\ ~Counting(d)
      BY <3>1, CountNumbers DEF Uncounted, CallbackDue, Counting
    <3>3. slot'[d] = {} BY DEF ServerDeletes, TypeOK
    <3>4. Cardinality(slot'[d]) = 0 BY <3>3, FS_EmptySet
    <3> QED BY <1>1, <2>1, <3>2, <3>4 DEF Bounded
  <2>2. CASE s # d
    <3>1. slot'[s] = slot[s] /\ (s \in torn => s \in torn') BY <2>2 DEF ServerDeletes, TypeOK
    <3> QED BY <1>1, <3>1 DEF CountBooks, Bounded, uploadVars
  <2> QED BY <2>1, <2>2
<1> QED BY <1>2, <1>3, <1>4 DEF CountBooks

\* The pop, wherever the callback stands.
LEMMA PopCounts ==
  ASSUME TypeOK, Books, CountBooks, NEW t \in Threads, PopCount(t)
  PROVE  CountBooks'
<1> DEFINE d == on[t]
<1>1. d \in Slots BY DEF PopCount, Return, Goto, Books, CallBooks, CallBook
<1>2. /\ newcount' = [newcount EXCEPT ![d] = 0]
      /\ reported' = [reported EXCEPT ![d] = Uncounted(d)]
      /\ torn' = (IF CallbackDue(d) THEN torn ELSE torn \ {d})
      /\ raced' = (IF CallbackDue(d) /\ wpc = "count" /\ base > 0 THEN raced \cup {d}
                                                                ELSE raced \ {d})
      /\ UNCHANGED <<slot, owner, uploadVars>>
  BY DEF PopCount, CountPopped, writerVars
<1> HIDE DEF d
<1>3. \A s : Uncounted(s)' = Uncounted(s) /\ Counting(s)' = Counting(s)
  BY <1>2 DEF Uncounted, CallbackDue, Counting, uploadVars
<1>4. newcount'[d] = 0 /\ reported'[d] = Uncounted(d)
      /\ \A s \in Slots \ {d} : newcount'[s] = newcount[s] /\ reported'[s] = reported[s]
  BY <1>1, <1>2 DEF TypeOK
<1>5. base' = base /\ answer' = answer /\ slot' = slot BY <1>2 DEF uploadVars
<1>6. CountIsReported'
  <2> SUFFICES ASSUME NEW s \in Slots, s \notin raced'
               PROVE  newcount'[s] + Uncounted(s)' = reported'[s]
    BY DEF CountIsReported
  <2>1. CASE s = d BY <1>1, <1>3, <1>4, <2>1, CountNumbers
  <2>2. CASE s # d BY <1>2, <1>3, <1>4, <2>2 DEF CountBooks, CountIsReported
  <2> QED BY <2>1, <2>2
<1>7. ASSUME NEW s \in Slots PROVE BaseRead(s)'
  <2>1. CASE s = d
    <3> SUFFICES ASSUME Counting(d), d \notin raced' PROVE base = 0
      BY <1>3, <1>4, <1>5, <2>1 DEF BaseRead
    <3>1. ~(base > 0) BY <1>2 DEF Counting, CallbackDue
    <3> QED BY <3>1 DEF TypeOK
  <2>2. CASE s # d BY <1>2, <1>3, <1>4, <1>5, <2>2 DEF CountBooks, BaseRead
  <2> QED BY <2>1, <2>2
<1>8. ASSUME NEW s \in Slots PROVE Bounded(s)'
  <2> SUFFICES ASSUME s \notin torn'
               PROVE  /\ newcount'[s] + Uncounted(s) <= Cardinality(slot[s])
                      /\ Counting(s) => base + answer <= Cardinality(slot[s])
    BY <1>3, <1>5 DEF Bounded
  <2>1. CASE s = d /\ ~CallbackDue(d)
    <3>1. Uncounted(s) = 0 /\ ~Counting(s) BY <2>1 DEF Uncounted, Counting, CallbackDue
    <3> QED BY <1>4, <2>1, <3>1, CountNumbers
  <2>2. CASE s = d /\ CallbackDue(d)
    <3>1. /\ newcount[s] + Uncounted(s) <= Cardinality(slot[s])
          /\ Counting(s) => base + answer <= Cardinality(slot[s])
      BY <1>2, <2>2 DEF CountBooks, Bounded
    <3> QED BY <1>4, <2>2, <3>1, CountNumbers
  <2>3. CASE s # d BY <1>2, <1>4, <2>3 DEF CountBooks, Bounded
  <2> QED BY <2>1, <2>2, <2>3
<1> QED BY <1>6, <1>7, <1>8 DEF CountBooks

LEMMA ContinuesCount ==
  ASSUME TypeOK, Books, CountBooks, NEW t \in Threads, Continues(t)
  PROVE  CountBooks'
<1>1. UNCHANGED uploadVars
  BY DEF Continues, ReadStart, CreateWriter, AssignWriter, PutItem, NextWriter, JoinWriter, LoopEnds,
         JoinThread, SlotDeleted, PopCount, DeleteRaises
<1>2. CASE CreateWriter(t)
  <2>1. wpc \in {"callback", "count"} => cur \in Made BY DEF Books, WorkerBooks, Busy
  <2>2. \A w \in Made : owner'[w] = owner[w] BY <1>2 DEF CreateWriter, Made, TypeOK
  <2>3. UNCHANGED <<newcount, reported, slot, torn, raced>> BY <1>2 DEF CreateWriter
  <2> QED BY <1>1, <2>1, <2>2, <2>3, CountFrame
<1>3. CASE SlotDeleted(t)
  <2>1. on[t] \in Slots BY <1>3 DEF SlotDeleted, Goto, Books, CallBooks, CallBook
  <2> QED BY <1>1, <1>3, <2>1, DeleteCount DEF SlotDeleted, writerVars
<1>4. ASSUME NEW served \in BOOLEAN, DeleteRaises(t, served) PROVE CountBooks'
  <2>1. on[t] \in Slots BY <1>4 DEF DeleteRaises, Return, Goto, Books, CallBooks, CallBook
  <2>2. CASE served BY <1>1, <1>4, <2>1, <2>2, DeleteCount DEF DeleteRaises, writerVars
  <2>3. CASE ~served BY <1>1, <1>4, <2>3, CountFrame DEF DeleteRaises, writerVars
  <2> QED BY <2>2, <2>3
<1>5. CASE PopCount(t) BY <1>5, PopCounts
<1>6. CASE \/ ReadStart(t) \/ AssignWriter(t) \/ PutItem(t) \/ NextWriter(t)
           \/ JoinWriter(t) \/ LoopEnds(t) \/ JoinThread(t)
  <2>1. UNCHANGED <<newcount, reported, slot, torn, raced, owner>>
    BY <1>6 DEF ReadStart, AssignWriter, PutItem, NextWriter, JoinWriter, LoopEnds, JoinThread,
                writerVars, serverVars
  <2> QED BY <1>1, <2>1, CountFrame
<1> QED BY <1>2, <1>3, <1>4, <1>5, <1>6 DEF Continues

\* A request adds to the slot what is new in it, and takes nothing away.
LEMMA SlotGrows ==
  ASSUME TypeOK, Books, wpc = "upload", ServerApplies, owner[cur] \in Slots
  PROVE  LET s == owner[cur]
             n == Cardinality(BatchItems \ slot[s]) IN
         /\ n \in Nat /\ Cardinality(slot[s]) \in Nat /\ Cardinality(slot'[s]) = Cardinality(slot[s]) + n
         /\ \A r \in Slots \ {s} : slot'[r] = slot[r]
<1> DEFINE s == owner[cur]
           N == BatchItems \ slot[s]
           S == slot[s]
<1>1. cur \in Writers BY CurMade DEF Busy
<1>2. IsFiniteSet(BatchItems) /\ IsFiniteSet(S) BY <1>1, FiniteBatch DEF Books, WorkerBooks
<1>3. IsFiniteSet(N) BY <1>2, FS_Subset
<1>4. slot'[s] = S \cup N BY DEF ServerApplies, TypeOK
<1>5. S \cap N = {} OBVIOUS
<1>6. \A r \in Slots \ {s} : slot'[r] = slot[r] BY DEF ServerApplies, TypeOK
<1>7. Cardinality(N) \in Nat /\ Cardinality(S) \in Nat BY <1>2, <1>3, FS_CardinalityType
<1>8. Cardinality(S \cup N) = Cardinality(S) + Cardinality(N)
  <2> HIDE DEF S, N
  <2>1. Cardinality(S \cup N) = Cardinality(S) + Cardinality(N) - Cardinality(S \cap N)
    BY <1>2, <1>3, FS_Union
  <2>2. Cardinality(S \cap N) = 0 BY <1>5, FS_EmptySet
  <2> QED BY <1>7, <2>1, <2>2
<1> QED BY <1>4, <1>6, <1>7, <1>8

LEMMA WorkerCount ==
  ASSUME TypeOK, Books, CountBooks, Worker
  PROVE  CountBooks'
<1>1. UNCHANGED <<owner, torn, raced>>
  BY DEF Worker, TakeBatch, UploadAnswered, UploadAgain, UploadGivenUp, AfterUpload, CallbackReads,
         CallbackWrites, MarkDone, DequeEmpty, StopOrGoOn, writerVars, serverVars
<1>2. wpc \notin {"callback", "count"} => \A s : Uncounted(s) = 0 /\ ~Counting(s)
  BY DEF Uncounted, CallbackDue, Counting
<1>3. wpc' \notin {"callback", "count"} => \A s : Uncounted(s)' = 0 /\ ~Counting(s)'
  BY DEF Uncounted, CallbackDue, Counting
\* Between batches, and where an attempt got no answer.
<1>4. ASSUME UNCHANGED <<newcount, reported>>, \A s \in Slots : Uncounted(s)' = 0 /\ ~Counting(s)',
             \A s \in Slots : Uncounted(s) = 0,
             \A s \in Slots : Cardinality(slot[s]) <= Cardinality(slot'[s])
                            /\ Cardinality(slot'[s]) \in Nat
      PROVE  CountBooks'
  <2>1. CountIsReported' BY <1>1, <1>4 DEF CountBooks, CountIsReported
  <2>2. ASSUME NEW s \in Slots PROVE Bounded(s)' /\ BaseRead(s)'
    <3>1. BaseRead(s)' BY <1>4 DEF BaseRead
    <3>2. newcount[s] + Uncounted(s) <= Cardinality(slot[s]) =>
            newcount'[s] + Uncounted(s)' <= Cardinality(slot'[s])
      BY <1>4, CountNumbers
    <3> QED BY <1>1, <1>4, <3>1, <3>2 DEF CountBooks, Bounded
  <2> QED BY <2>1, <2>2 DEF CountBooks
<1>5. \A s \in Slots : Cardinality(slot[s]) \in Nat BY CountNumbers
<1>6. ASSUME NEW w \in Writers, TakeBatch(w) PROVE CountBooks'
  <2>1. wpc = "pick" /\ wpc' = "upload" /\ UNCHANGED <<newcount, reported, slot>>
    BY <1>6 DEF TakeBatch, serverVars
  <2> QED BY <1>2, <1>3, <1>4, <1>5, <2>1
<1>7. ASSUME wpc = "upload", ServerApplies \/ UNCHANGED slot
      PROVE  \A s \in Slots : Cardinality(slot[s]) <= Cardinality(slot'[s])
                            /\ Cardinality(slot'[s]) \in Nat
  <2>1. CASE slot' = slot BY <1>5, <2>1
  <2>2. CASE ServerApplies /\ owner[cur] \in Slots
    <3> DEFINE n == Cardinality(BatchItems \ slot[owner[cur]])
    <3>1. /\ Cardinality(slot[owner[cur]]) \in Nat /\ n \in Nat
          /\ Cardinality(slot'[owner[cur]]) = Cardinality(slot[owner[cur]]) + n
          /\ \A r \in Slots \ {owner[cur]} : slot'[r] = slot[r]
      BY <1>7, <2>2, SlotGrows
    <3> HIDE DEF n
    <3> SUFFICES ASSUME NEW s \in Slots
                 PROVE  /\ Cardinality(slot[s]) <= Cardinality(slot'[s])
                        /\ Cardinality(slot'[s]) \in Nat
      OBVIOUS
    <3>2. CASE s = owner[cur] BY <3>1, <3>2
    <3>3. CASE s # owner[cur] BY <1>5, <3>1, <3>3
    <3> QED BY <3>2, <3>3
  <2> QED BY <1>7, <2>1, <2>2 DEF ServerApplies
<1>8. CASE UploadAnswered
  <2>1. /\ wpc = "upload" /\ ServerApplies /\ newcount' = newcount /\ cur' = cur
        /\ wpc' = IF owner[cur] \in Slots THEN "callback" ELSE "done"
    BY <1>8 DEF UploadAnswered, AfterUpload
  <2>2. CASE owner[cur] \notin Slots
    <3>1. reported' = reported /\ wpc' = "done" BY <1>8, <2>1, <2>2 DEF UploadAnswered
    <3> QED BY <1>2, <1>3, <1>4, <1>7, <2>1, <3>1
  <2>3. CASE owner[cur] \in Slots
    <3> DEFINE r == owner[cur]
               n == Cardinality(BatchItems \ slot[r])
    <3>1. /\ n \in Nat /\ Cardinality(slot[r]) \in Nat
          /\ Cardinality(slot'[r]) = Cardinality(slot[r]) + n
          /\ \A s \in Slots \ {r} : slot'[s] = slot[s]
      BY <2>1, <2>3, SlotGrows
    <3>2. answer' = n /\ reported' = [reported EXCEPT ![r] = @ + n] /\ wpc' = "callback"
          /\ owner' = owner
      BY <1>1, <1>8, <2>1, <2>3 DEF UploadAnswered
    <3> HIDE DEF n
    <3>3. n # None BY <3>1, ResourceAssumption
    <3>4. \A s \in Slots : /\ Uncounted(s)' = IF s = r THEN n ELSE 0
                           /\ reported'[s] = IF s = r THEN reported[s] + n ELSE reported[s]
                           /\ ~Counting(s)'
      BY <2>1, <3>2, <3>3 DEF Uncounted, CallbackDue, Counting, TypeOK
    <3>5. \A s \in Slots : newcount[s] \in Nat /\ reported[s] \in Nat /\ Uncounted(s) = 0
      BY <1>2, <2>1 DEF TypeOK
    <3>6. CountIsReported'
      BY <1>1, <2>1, <3>1, <3>4, <3>5 DEF CountIsReported, CountBooks
    <3>7. ASSUME NEW s \in Slots PROVE Bounded(s)'
      <4>1. newcount[s] + Uncounted(s) <= Cardinality(slot[s]) =>
              newcount'[s] + Uncounted(s)' <= Cardinality(slot'[s])
        <5>1. CASE s = r BY <2>1, <3>1, <3>4, <3>5, <5>1
        <5>2. CASE s # r BY <2>1, <3>1, <3>4, <3>5, <5>2
        <5> QED BY <5>1, <5>2
      <4> QED BY <1>1, <3>4, <4>1 DEF Bounded, CountBooks
    <3>8. \A s \in Slots : BaseRead(s)' BY <3>4 DEF BaseRead
    <3> QED BY <3>6, <3>7, <3>8 DEF CountBooks
  <2> QED BY <2>2, <2>3
<1>9. ASSUME NEW served \in BOOLEAN, UploadAgain(served) PROVE CountBooks'
  <2>1. wpc = "upload" /\ wpc' = "upload" /\ (ServerApplies \/ UNCHANGED slot)
        /\ UNCHANGED <<newcount, reported>>
    BY <1>9 DEF UploadAgain
  <2> QED BY <1>2, <1>3, <1>4, <1>7, <2>1
<1>10. ASSUME NEW served \in BOOLEAN, UploadGivenUp(served) PROVE CountBooks'
  <2>1. /\ wpc = "upload" /\ wpc' # "count" /\ (ServerApplies \/ UNCHANGED slot)
        /\ UNCHANGED <<newcount, reported>>
    BY <1>10 DEF UploadGivenUp, AfterUpload
  <2>2. answer' = None BY <1>10 DEF UploadGivenUp, Books, WorkerBooks
  <2>3. \A s \in Slots : Uncounted(s)' = 0 /\ ~Counting(s)'
    BY <2>1, <2>2 DEF Uncounted, Counting
  <2> QED BY <1>2, <1>4, <1>7, <2>1, <2>3
<1>11. CASE CallbackReads
  <2>1. wpc = "callback" /\ wpc' = (IF answer = None THEN "done" ELSE "count") /\ cur' = cur
        /\ base' = newcount[owner[cur]] /\ owner[cur] \in Slots
        /\ UNCHANGED <<newcount, owner, answer, reported, slot>>
    BY <1>11 DEF CallbackReads, writerVars, serverVars, Books, WorkerBooks
  <2>2. \A s \in Slots : Uncounted(s)' = Uncounted(s) BY <2>1 DEF Uncounted, CallbackDue
  <2>3. CountIsReported' BY <1>1, <2>1, <2>2 DEF CountBooks, CountIsReported
  <2>4. ASSUME NEW s \in Slots PROVE Bounded(s)' /\ BaseRead(s)'
    <3>1. Counting(s)' => base' = newcount[s] /\ Uncounted(s) = answer'
      BY <2>1 DEF Counting, Uncounted, CallbackDue
    <3> QED BY <1>1, <2>1, <2>2, <3>1 DEF CountBooks, Bounded, BaseRead
  <2> QED BY <2>3, <2>4 DEF CountBooks
<1>12. CASE CallbackWrites
  <2>1. /\ wpc = "count" /\ wpc' = "done" /\ owner[cur] \in Slots
        /\ newcount' = [newcount EXCEPT ![owner[cur]] = base + answer]
        /\ UNCHANGED <<reported, slot>>
    BY <1>12 DEF CallbackWrites, Counted, Books, WorkerBooks, serverVars
  <2>2. ASSUME NEW s \in Slots
        PROVE  newcount'[s] = IF Counting(s) THEN base + answer ELSE newcount[s]
    BY <2>1 DEF Counting, TypeOK
  <2>3. \A s \in Slots : Uncounted(s)' = 0 /\ ~Counting(s)' BY <1>3, <2>1
  <2>4. \A s \in Slots : ~Counting(s) => Uncounted(s) = 0
    BY <2>1 DEF Counting, Uncounted, CallbackDue
  <2>5. ASSUME NEW s \in Slots, s \notin raced'
        PROVE  newcount'[s] + Uncounted(s)' = reported'[s]
    <3>1. newcount[s] + Uncounted(s) = reported[s] /\ (Counting(s) => base = newcount[s])
      BY <1>1, <2>5 DEF CountBooks, CountIsReported, BaseRead
    <3> QED BY <2>1, <2>2, <2>3, <2>4, <3>1, CountNumbers
  <2>6. ASSUME NEW s \in Slots PROVE Bounded(s)' /\ BaseRead(s)'
    <3>1. BaseRead(s)' BY <2>3 DEF BaseRead
    <3>2. CASE s \in torn BY <1>1, <3>1, <3>2 DEF Bounded
    <3>3. CASE s \notin torn
      <4>1. /\ newcount[s] + Uncounted(s) <= Cardinality(slot[s])
            /\ Counting(s) => base + answer <= Cardinality(slot[s])
        BY <3>3 DEF CountBooks, Bounded
      <4>2. newcount'[s] + Uncounted(s)' <= Cardinality(slot'[s])
        BY <2>1, <2>2, <2>3, <2>4, <4>1, CountNumbers
      <4> QED BY <2>3, <3>1, <4>2 DEF Bounded
    <3> QED BY <3>2, <3>3
  <2> QED BY <2>5, <2>6 DEF CountBooks, CountIsReported
<1>13. CASE MarkDone \/ DequeEmpty \/ StopOrGoOn
  <2>1. wpc \notin {"callback", "count"} /\ wpc' \notin {"callback", "count"}
        /\ UNCHANGED <<newcount, reported, slot>>
    BY <1>13 DEF MarkDone, DequeEmpty, StopOrGoOn, serverVars
  <2> QED BY <1>2, <1>3, <1>4, <1>5, <2>1
<1> QED BY <1>6, <1>8, <1>9, <1>10, <1>11, <1>12, <1>13 DEF Worker

LEMMA CountsAlways == Spec => [](TypeOK /\ Books /\ CountBooks)
<1>1. ASSUME Init PROVE CountBooks
  <2>1. \A s \in Slots : newcount[s] = 0 /\ reported[s] = 0 /\ Uncounted(s) = 0 /\ slot[s] = {}
                         /\ ~Counting(s)
    BY <1>1 DEF Init, Uncounted, CallbackDue, Counting
  <2>2. \A s \in Slots : Cardinality(slot[s]) = 0 BY <2>1, FS_EmptySet
  <2> QED BY <2>1, <2>2 DEF CountBooks, CountIsReported, Bounded, BaseRead
<1>2. ASSUME TypeOK, Books, CountBooks, [Next]_vars PROVE CountBooks'
  <2>1. CASE UNCHANGED vars
    BY <1>2, <2>1, CountFrame DEF vars, writerVars, uploadVars, callVars, serverVars
  <2> QED BY <1>2, <2>1, StartsCount, ContinuesCount, WorkerCount DEF Next
<1>3. TypeOK /\ Books /\ CountBooks /\ [Next]_vars => CountBooks' BY <1>2
<1> QED BY <1>1, <1>3, WriterTypesCorrect, PTL DEF Spec

\* newcount of a slot is what the server reported since the slot was last deleted,
\* unless the callback undid that pop (client/frontiers.py _writer_callback, delete).
THEOREM CountIsReportedHolds == Spec => []CountIsReported
<1>1. CountBooks => CountIsReported BY DEF CountBooks
<1> QED BY <1>1, CountsAlways, PTL

\* A slot counts no more than the server holds in it, unless the count has kept, or
\* got after the pop, answers from before the server last deleted the slot.
THEOREM CountBoundedHolds == Spec => []CountBounded
<1>1. CountBooks => CountBounded BY DEF CountBooks, Bounded, CountBounded
<1> QED BY <1>1, CountsAlways, PTL

(***************************************************************************)
(* What goes on after what was stored.  On a stream none of whose batches  *)
(* was given up, the positions the server has items at are an initial      *)
(* segment, so their number is the first free one: the start that a Logs   *)
(* in append mode reads.  A writer made when all others of its stream were *)
(* closed and drained has that stream to itself, and begins past all that  *)
(* was stored before.                                                      *)
(***************************************************************************)
\* The positions of a stream that the server has items at.
Positions(T) == {x[2] : x \in {y \in stored : y[1] = T}}

MadeInOrder == \A v, w \in Writers : w \in Made /\ v < w => v \in Made
ClosedDrained ==
  \A w \in Writers : wclosed[w] /\ unfinished[w] # 0 =>
    \E t \in Threads : pc[t] \in {"close", "closejob"} /\ (w \in todo[t] \/ w = mine[t])
StoredBook(x) ==
  /\ x[3] \in Made /\ owner[x[3]] \in Resources \ Slots /\ x[1] = Target[owner[x[3]]]
  /\ x[2] \in Nat /\ x[2] >= Begins(x[3])
  /\ x[1] \notin lost => \A p \in 0..x[2] - 1 : p \in Positions(x[1])
OffsetBook(w) ==
  owner[w] \in Resources \ Slots /\ Target[owner[w]] \notin lost =>
    \A p \in 0..offset[w] - 1 : p \in Positions(Target[owner[w]])
StartBook(t) ==
  /\ pc[t] \notin {"create", "assign", "put"} => start[t] = 0
  /\ pc[t] = "create" /\ on[t] \notin Slots /\ Target[on[t]] \notin lost =>
       /\ \A p \in 0..start[t] - 1 : p \in Positions(Target[on[t]])
       /\ on[t] \in Appending /\ OpenOn(on[t]) = {} =>
            \A p \in Positions(Target[on[t]]) : p < start[t]
FreshBook(w) ==
  w \in fresh =>
    /\ w \in Made
    /\ \A v \in Made : v < w /\ Target[owner[v]] = Target[owner[w]] =>
         wclosed[v] /\ unfinished[v] = 0
    /\ owner[w] \in Appending /\ Target[owner[w]] \notin lost =>
         \A y \in stored : y[1] = Target[owner[w]] /\ y[3] < w => y[2] < Begins(w)
AppendBooks ==
  /\ MadeInOrder /\ ClosedDrained
  /\ \A x \in stored : StoredBook(x)
  /\ \A w \in Writers : OffsetBook(w) /\ FreshBook(w)
  /\ \A t \in Threads : StartBook(t)

\* An initial segment of the naturals holds the numbers below its size.
LEMMA InitialSegment ==
  ASSUME NEW P \in SUBSET Nat, IsFiniteSet(P), \A p \in P : \A q \in 0..p - 1 : q \in P,
         NEW p \in Nat
  PROVE  p \in P <=> p < Cardinality(P)
<1>1. Cardinality(P) \in Nat BY FS_CardinalityType
<1>2. ASSUME p \in P PROVE p < Cardinality(P)
  <2>1. 0..p \subseteq P BY <1>2
  <2>2. Cardinality(0..p) = p + 1 BY FS_Interval
  <2>3. Cardinality(0..p) <= Cardinality(P) BY <2>1, FS_Subset
  <2> QED BY <1>1, <2>2, <2>3
<1>3. ASSUME p \notin P PROVE ~(p < Cardinality(P))
  <2>1. P \subseteq 0..p - 1 BY <1>3
  <2>2. IsFiniteSet(0..p - 1) /\ Cardinality(0..p - 1) = p
    <3>1. 0 \in Int /\ p - 1 \in Int OBVIOUS
    <3> QED BY <3>1, FS_Interval
  <2>3. Cardinality(P) <= Cardinality(0..p - 1) BY <2>1, <2>2, FS_Subset
  <2> QED BY <1>1, <2>2, <2>3
<1> QED BY <1>2, <1>3

LEMMA PositionsCounted ==
  ASSUME IsFiniteSet(stored), NEW r
  PROVE  /\ IsFiniteSet(Positions(Target[r]))
         /\ InputValues(r) = Cardinality(Positions(Target[r]))
<1> DEFINE S == {y \in stored : y[1] = Target[r]}
           P == Positions(Target[r])
           f == [x \in S |-> x[2]]
<1>1. IsFiniteSet(S) BY FS_Subset
<1>2. f \in Surjection(S, P) BY DEF Surjection, Positions
<1>3. IsFiniteSet(P)
  <2> HIDE DEF S, P, f
  <2> QED BY <1>1, <1>2, FS_Surjection
<1> QED BY <1>3 DEF InputValues, Positions

\* The start that a Logs reads: what is stored on its stream lies below, and if
\* nothing was given up, all that is below is stored.
LEMMA StartIsNext ==
  ASSUME TypeOK, Books, AppendBooks, NEW r \in Resources, Target[r] \notin lost
  PROVE  \A p \in Nat : p \in Positions(Target[r]) <=> p < InputValues(r)
<1> DEFINE P == Positions(Target[r])
<1>1. IsFiniteSet(P) /\ InputValues(r) = Cardinality(P)
  BY PositionsCounted DEF Books, WorkerBooks
<1>2. P \in SUBSET Nat BY DEF Positions, AppendBooks, StoredBook
<1>3. \A p \in P : \A q \in 0..p - 1 : q \in P
  BY DEF Positions, AppendBooks, StoredBook
<1>4. \A p \in Nat : p \in P <=> p < Cardinality(P)
  <2> HIDE DEF P
  <2> QED BY <1>1, <1>2, <1>3, InitialSegment
<1> QED BY <1>1, <1>4

(***************************************************************************)
(* The callers' steps.                                                     *)
(***************************************************************************)
\* While a writer is being made nobody closes, and what is closed is drained.
LEMMA OpenKept ==
  ASSUME TypeOK, ClosingBooks, AppendBooks, NEW u \in Threads, pc[u] = "create",
         wclosed' = wclosed, \A w \in Made : owner'[w] = owner[w],
         NEW r, OpenOn(r)' = {}
  PROVE  OpenOn(r) = {}
<1> SUFFICES ASSUME NEW v \in OpenOn(r) PROVE FALSE OBVIOUS
<1>1. v \in Made /\ v \in Writers /\ Target[owner[v]] = Target[r] /\ ~(wclosed[v] /\ unfinished[v] = 0)
  BY DEF OpenOn, Made
<1>2. ~wclosed[v]
  <2> SUFFICES ASSUME wclosed[v] PROVE FALSE BY DEF TypeOK
  <2>1. PICK t \in Threads : pc[t] \in {"close", "closejob"} BY <1>1 DEF AppendBooks, ClosedDrained
  <2>2. Closing(t) /\ u # t BY <2>1 DEF ClosingBooks
  <2> QED BY <2>1, <2>2 DEF Closing
<1>3. v \in Made' BY <1>1 DEF Made
<1>4. v \in OpenOn(r)' BY <1>1, <1>2, <1>3 DEF OpenOn
<1> QED BY <1>4

LEMMA ClosedWhileCreating ==
  ASSUME TypeOK, ClosingBooks, NEW u \in Threads, pc[u] = "create", Next
  PROVE  wclosed' = wclosed
<1>1. ASSUME NEW t \in Threads, Starts(t) PROVE wclosed' = wclosed
  <2>1. ~CloseJobWriters(t) BY DEF CloseJobWriters, Alone, Goto
  <2> QED BY <1>1, <2>1, StartsCases DEF Write, Loop, CloseClient, DeleteSlot, writerVars
<1>2. ASSUME NEW t \in Threads, Continues(t) PROVE wclosed' = wclosed
  <2>1. CASE NextWriter(t)
    <3>1. pc[t] # "close" BY DEF ClosingBooks, Closing
    <3> QED BY <2>1, <3>1 DEF NextWriter
  <2> QED BY <1>2, <2>1 DEF Continues, ReadStart, CreateWriter, AssignWriter, PutItem, JoinWriter,
            LoopEnds, JoinThread, SlotDeleted, PopCount, DeleteRaises, writerVars
<1>3. ASSUME Worker PROVE wclosed' = wclosed
  <2>1. ~closed BY DEF ClosingBooks, ClosedBooks, NoneWriting
  <2>2. CASE DequeEmpty
    <3>1. /\ wclosed' = [w \in Writers |-> wclosed[w] \/ w \in Made]
          /\ \A w \in Made : wclosed[w]
      BY <2>1, <2>2 DEF DequeEmpty, InDeque
    <3>2. \A w \in Writers : wclosed'[w] = wclosed[w]
      <4> SUFFICES ASSUME NEW w \in Writers PROVE wclosed'[w] = wclosed[w] OBVIOUS
      <4>1. wclosed[w] \in BOOLEAN /\ wclosed'[w] = (wclosed[w] \/ w \in Made) BY <3>1 DEF TypeOK
      <4> QED BY <3>1, <4>1
    <3>3. wclosed \in [Writers -> BOOLEAN] BY DEF TypeOK
    <3> QED BY <3>1, <3>2, <3>3
  <2>3. CASE ~DequeEmpty
    BY <1>3, <2>3 DEF Worker, TakeBatch, UploadAnswered, UploadAgain, UploadGivenUp, AfterUpload,
                      CallbackReads, CallbackWrites, MarkDone, StopOrGoOn, writerVars
  <2> QED BY <2>2, <2>3
<1> QED BY <1>1, <1>2, <1>3 DEF Next

LEMMA StartBookKept ==
  ASSUME TypeOK, Books, ClosingBooks, AppendBooks, NEW u \in Threads, Next,
         pc'[u] = pc[u], on'[u] = on[u], start'[u] = start[u], UNCHANGED <<stored, lost>>,
         \A w \in Made : owner'[w] = owner[w]
  PROVE  StartBook(u)'
<1>1. StartBook(u) BY DEF AppendBooks
<1>2. \A T : Positions(T)' = Positions(T) BY DEF Positions
<1>3. pc[u] = "create" /\ OpenOn(on[u])' = {} => OpenOn(on[u]) = {}
  BY OpenKept, ClosedWhileCreating
<1> QED BY <1>1, <1>2, <1>3 DEF StartBook

\* A step of a caller that makes no writer.
LEMMA CallerAppend ==
  ASSUME AppendBooks, ClosedDrained', \A u \in Threads : StartBook(u)',
         UNCHANGED <<stored, owner, head, offset, lost, fresh, wpc, cur, taken>>,
         \A w \in Writers : wclosed[w] => wclosed'[w] /\ (unfinished[w] = 0 => unfinished'[w] = 0)
  PROVE  AppendBooks'
<1>1. \A T : Positions(T)' = Positions(T) BY DEF Positions
<1>2. \A w : Begins(w)' = Begins(w) BY DEF Begins, Sent
<1>3. Made' = Made BY DEF Made
<1>4. MadeInOrder' BY <1>3 DEF MadeInOrder, AppendBooks
<1>5. \A x \in stored' : StoredBook(x)' BY <1>1, <1>2, <1>3 DEF AppendBooks, StoredBook
<1>6. \A w \in Writers : OffsetBook(w)' BY <1>1 DEF AppendBooks, OffsetBook
<1>7. \A w \in Writers : FreshBook(w)'
  <2> SUFFICES ASSUME NEW w \in Writers PROVE FreshBook(w)' OBVIOUS
  <2>1. FreshBook(w) /\ Made \subseteq Writers BY DEF AppendBooks, Made
  <2> QED BY <1>2, <1>3, <2>1 DEF FreshBook
<1> QED BY <1>4, <1>5, <1>6, <1>7 DEF AppendBooks

LEMMA StartsAppend ==
  ASSUME TypeOK, Books, ClosingBooks, AppendBooks, NEW t \in Threads, Starts(t)
  PROVE  AppendBooks'
<1>0. Next BY DEF Next
<1>1. /\ pc[t] = "idle" /\ start[t] = 0 /\ start' = start
      /\ UNCHANGED <<stored, owner, head, offset, unfinished, lost, fresh, wpc, cur, taken>>
  <2>1. pc[t] = "idle" => start[t] = 0 BY DEF AppendBooks, StartBook
  <2> QED BY <2>1, StartsCases DEF Write, Loop, CloseJobWriters, CloseClient, DeleteSlot, Goto,
                                   writerVars, uploadVars, serverVars
<1>2. \A u \in Threads \ {t} : pc'[u] = pc[u] /\ on'[u] = on[u] /\ todo'[u] = todo[u] /\ mine'[u] = mine[u]
  <2>1. /\ \E p : pc' = [pc EXCEPT ![t] = p]
        /\ mine' = mine \/ \E w : mine' = [mine EXCEPT ![t] = w]
        /\ on' = on \/ \E r : on' = [on EXCEPT ![t] = r]
        /\ todo' = todo \/ \E W : todo' = [todo EXCEPT ![t] = W]
    BY StartsCases DEF Write, Loop, CloseJobWriters, CloseClient, DeleteSlot, Goto
  <2> QED BY <2>1 DEF TypeOK
<1>3. \A w \in Writers : \/ wclosed'[w] = wclosed[w]
                         \/ pc'[t] = "closejob" /\ w \in todo'[t] /\ wclosed'[w]
  <2>1. CASE CloseJobWriters(t)
    BY <2>1 DEF CloseJobWriters, Goto, TypeOK
  <2>2. CASE ~CloseJobWriters(t)
    BY <2>2, StartsCases DEF Write, Loop, CloseClient, DeleteSlot, writerVars
  <2> QED BY <2>1, <2>2
<1>4. ClosedDrained'
  <2> SUFFICES ASSUME NEW w \in Writers, wclosed'[w], unfinished'[w] # 0
               PROVE  \E u \in Threads :
                        pc'[u] \in {"close", "closejob"} /\ (w \in todo'[u] \/ w = mine'[u])
    BY DEF ClosedDrained
  <2>1. CASE wclosed[w]
    <3>1. PICK u \in Threads : pc[u] \in {"close", "closejob"} /\ (w \in todo[u] \/ w = mine[u])
      BY <1>1, <2>1 DEF AppendBooks, ClosedDrained
    <3> QED BY <1>1, <1>2, <3>1
  <2>2. CASE ~wclosed[w] BY <1>3, <2>2
  <2> QED BY <2>1, <2>2
<1>5. StartBook(t)'
  <2>1. start'[t] = 0 BY <1>1
  <2>2. pc'[t] = "create" => on'[t] \notin Appending
    <3>1. ASSUME NEW r \in Resources, NEW d, Write(t, r, d), pc'[t] = "create"
          PROVE  on'[t] \notin Appending
      BY <3>1 DEF Write, Goto, TypeOK
    <3>2. ASSUME \/ \E to \in {"flush", "flushall", "close"} : \E R : Loop(t, to, R)
                 \/ CloseJobWriters(t) \/ CloseClient(t) \/ \E s \in Slots : DeleteSlot(t, s)
          PROVE  pc'[t] # "create"
      BY <3>2 DEF Loop, CloseJobWriters, CloseClient, DeleteSlot, Goto, TypeOK
    <3> QED BY <3>1, <3>2, StartsCases
  <2> QED BY <2>1, <2>2 DEF StartBook
<1>6. \A u \in Threads \ {t} : StartBook(u)' BY <1>0, <1>1, <1>2, StartBookKept
<1>7. \A w \in Writers : wclosed[w] => wclosed'[w] BY <1>3
<1> QED BY <1>1, <1>4, <1>5, <1>6, <1>7, CallerAppend

LEMMA CreateAppend ==
  ASSUME TypeOK, Books, ClosingBooks, AppendBooks, NEW t \in Threads, CreateWriter(t)
  PROVE  AppendBooks'
<1>0. Next BY DEF Next, Continues
<1>1. PICK w \in Writers \ Made :
        /\ Goto(t, "create", "assign") /\ \A v \in Writers \ Made : w <= v
        /\ owner' = [owner EXCEPT ![w] = on[t]] /\ offset' = [offset EXCEPT ![w] = start[t]]
        /\ mine' = [mine EXCEPT ![t] = w]
        /\ fresh' = IF on[t] \notin Slots /\ OpenOn(on[t]) = {} THEN fresh \cup {w} ELSE fresh
        /\ UNCHANGED <<closed, ref, newcount, log, head, unfinished, wclosed, on, item, start,
                       todo, size, uploadVars, stored, slot, reported, lost, torn, raced, seen>>
  BY DEF CreateWriter
<1>2. /\ pc[t] = "create" /\ pc'[t] = "assign" /\ \A u \in Threads \ {t} : pc'[u] = pc[u]
      /\ \A u \in Threads \ {t} : mine'[u] = mine[u]
      /\ UNCHANGED <<stored, lost, head, cur, wpc, taken, wclosed, unfinished, todo, on, start>>
  BY <1>1 DEF Goto, TypeOK, uploadVars
<1>3. /\ owner'[w] = on[t] /\ offset'[w] = start[t]
      /\ \A v \in Writers \ {w} : owner'[v] = owner[v] /\ offset'[v] = offset[v]
  BY <1>1 DEF TypeOK
<1>4. on[t] \in Resources /\ on[t] # None
  BY <1>2, ResourceAssumption DEF Books, CallBooks, CallBook
<1>5. Made' = Made \cup {w} BY <1>3, <1>4 DEF Made
<1>6. \A v \in Made : v \in Writers /\ v # w /\ owner'[v] = owner[v] /\ Begins(v)' = Begins(v)
  BY <1>2, <1>3 DEF Made, Begins, Sent
<1>7. Writers \subseteq Nat BY ResourceAssumption
<1>8. \A v \in Made : v < w
  <2> SUFFICES ASSUME NEW v \in Made, ~(v < w) PROVE FALSE OBVIOUS
  <2>1. v \in Nat /\ w \in Nat /\ v \in Writers /\ v # w BY <1>6, <1>7
  <2>2. w < v BY <2>1
  <2>3. w \in Made BY <2>1, <2>2 DEF AppendBooks, MadeInOrder
  <2> QED BY <2>3
<1>9. MadeInOrder'
  <2> SUFFICES ASSUME NEW v \in Writers, NEW x \in Writers, x \in Made', v < x PROVE v \in Made'
    BY DEF MadeInOrder
  <2>1. CASE x \in Made BY <1>5, <2>1 DEF AppendBooks, MadeInOrder
  <2>2. CASE x = w
    <3>1. v \in Nat /\ w \in Nat BY <1>7
    <3> QED BY <1>1, <1>5, <2>2, <3>1
  <2> QED BY <1>5, <2>1, <2>2
<1>10. \A T : Positions(T)' = Positions(T) BY <1>2 DEF Positions
<1>11. ClosedDrained'
  <2> SUFFICES ASSUME NEW v \in Writers, wclosed[v], unfinished[v] # 0
               PROVE  \E u \in Threads :
                        pc'[u] \in {"close", "closejob"} /\ (v \in todo[u] \/ v = mine'[u])
    BY <1>2 DEF ClosedDrained
  <2>1. PICK u \in Threads : pc[u] \in {"close", "closejob"} /\ (v \in todo[u] \/ v = mine[u])
    BY DEF AppendBooks, ClosedDrained
  <2> QED BY <1>2, <2>1
<1>12. ASSUME NEW x \in stored PROVE StoredBook(x)'
  <2>1. StoredBook(x) BY DEF AppendBooks
  <2>2. x[3] \in Made BY <2>1 DEF StoredBook
  <2>3. Begins(x[3])' = Begins(x[3]) /\ owner'[x[3]] = owner[x[3]] /\ x[3] \in Made'
    BY <1>5, <1>6, <2>2
  <2> QED BY <1>2, <1>10, <2>1, <2>3 DEF StoredBook
<1>13. StartBook(t) BY DEF AppendBooks
<1>14. \A v \in Writers : OffsetBook(v)'
  <2>1. OffsetBook(w)' BY <1>2, <1>3, <1>10, <1>13 DEF OffsetBook, StartBook
  <2>2. \A v \in Writers \ {w} : OffsetBook(v)'
    BY <1>2, <1>3, <1>10 DEF AppendBooks, OffsetBook
  <2> QED BY <2>1, <2>2
<1>15. ASSUME NEW v \in Writers, v \in fresh, v # w PROVE FreshBook(v)'
  <2>1. FreshBook(v) /\ v \in Made BY <1>15 DEF AppendBooks, FreshBook
  <2>2. ~(w < v)
    <3>1. v < w /\ v \in Nat /\ w \in Nat BY <1>7, <1>8, <2>1
    <3> QED BY <3>1
  <2>3. \A u \in Made' : u < v /\ Target[owner'[u]] = Target[owner'[v]] =>
                           wclosed'[u] /\ unfinished'[u] = 0
    <3>1. \A u \in Made : u < v /\ Target[owner[u]] = Target[owner[v]] =>
                            wclosed[u] /\ unfinished[u] = 0
      BY <1>15, <2>1 DEF FreshBook
    <3> QED BY <1>2, <1>5, <1>6, <2>1, <2>2, <3>1
  <2>4. owner'[v] \in Appending /\ Target[owner'[v]] \notin lost' =>
          \A y \in stored' : y[1] = Target[owner'[v]] /\ y[3] < v => y[2] < Begins(v)'
    <3>1. owner[v] \in Appending /\ Target[owner[v]] \notin lost =>
            \A y \in stored : y[1] = Target[owner[v]] /\ y[3] < v => y[2] < Begins(v)
      BY <1>15, <2>1 DEF FreshBook
    <3> QED BY <1>2, <1>6, <2>1, <3>1
  <2> QED BY <1>5, <2>1, <2>3, <2>4 DEF FreshBook
<1>16. ASSUME w \in fresh' PROVE FreshBook(w)'
  <2>1. w \notin fresh BY DEF AppendBooks, FreshBook
  <2>2. on[t] \notin Slots /\ OpenOn(on[t]) = {} BY <1>1, <1>16, <2>1
  <2>3. \A v \in Made : Target[owner[v]] = Target[on[t]] => wclosed[v] /\ unfinished[v] = 0
    BY <2>2 DEF OpenOn
  <2>4. ~(w < w) BY <1>7
  <2>5. Begins(w)' = start[t]
    <3>1. head[w] <= Len(log[w]) /\ head[w] \in Nat /\ log[w] = <<>>
      BY <1>1 DEF Books, WriterBooks, WriterBook, Made, TypeOK
    <3>2. head[w] = 0 BY <3>1
    <3>3. wpc = "upload" => cur # w BY DEF Books, WorkerBooks, Busy
    <3>4. start[t] \in Nat BY DEF TypeOK
    <3> QED BY <1>2, <1>3, <3>2, <3>3, <3>4 DEF Begins, Sent
  <2>6. ASSUME on[t] \in Appending, Target[on[t]] \notin lost, NEW y \in stored, y[1] = Target[on[t]]
        PROVE  y[2] < start[t]
    <3>1. y[2] \in Positions(Target[on[t]]) BY <2>6 DEF Positions
    <3> QED BY <1>2, <1>13, <2>2, <2>6, <3>1 DEF StartBook
  <2>7. w \in Made' BY <1>5
  <2>8. \A v \in Made' : v < w /\ Target[owner'[v]] = Target[owner'[w]] =>
                           wclosed'[v] /\ unfinished'[v] = 0
    BY <1>2, <1>3, <1>5, <1>6, <2>3, <2>4
  <2>9. owner'[w] \in Appending /\ Target[owner'[w]] \notin lost' =>
          \A y \in stored' : y[1] = Target[owner'[w]] /\ y[3] < w => y[2] < Begins(w)'
    BY <1>2, <1>3, <2>5, <2>6
  <2> QED BY <2>7, <2>8, <2>9 DEF FreshBook
<1>17. \A v \in Writers : FreshBook(v)'
  BY <1>1, <1>15, <1>16 DEF FreshBook
<1>18. StartBook(t)' BY <1>2 DEF StartBook
<1>19. \A u \in Threads \ {t} : StartBook(u)' BY <1>0, <1>2, <1>6, StartBookKept
<1> QED BY <1>2, <1>9, <1>11, <1>12, <1>14, <1>17, <1>18, <1>19 DEF AppendBooks

LEMMA ContinuesAppend ==
  ASSUME TypeOK, Books, ClosingBooks, AppendBooks, NEW t \in Threads, Continues(t)
  PROVE  AppendBooks'
<1>0. Next BY DEF Next
<1> SUFFICES ASSUME ~CreateWriter(t) PROVE AppendBooks' BY CreateAppend
<1>1. /\ UNCHANGED <<stored, owner, head, offset, lost, fresh, wpc, cur, taken>>
      /\ \A u \in Threads \ {t} : /\ pc'[u] = pc[u] /\ on'[u] = on[u] /\ start'[u] = start[u]
                                  /\ todo'[u] = todo[u] /\ mine'[u] = mine[u]
  BY DEF Continues, ReadStart, AssignWriter, PutItem, NextWriter, JoinWriter, LoopEnds, JoinThread,
         SlotDeleted, PopCount, DeleteRaises, Goto, Return, TypeOK, writerVars, uploadVars, serverVars
<1>2. \A w \in Writers : wclosed[w] => wclosed'[w] /\ unfinished'[w] = unfinished[w]
  <2>1. CASE PutItem(t)
    <3>1. wclosed' = wclosed BY <2>1 DEF PutItem
    <3>2. \A w \in Writers : wclosed[w] => unfinished'[w] = unfinished[w]
      BY <2>1 DEF PutItem, TypeOK
    <3> QED BY <3>1, <3>2
  <2>2. CASE ~PutItem(t)
    <3>1. unfinished' = unfinished
      BY <2>2 DEF Continues, ReadStart, AssignWriter, NextWriter, JoinWriter, LoopEnds, JoinThread,
                  SlotDeleted, PopCount, DeleteRaises, writerVars
    <3>2. wclosed' = wclosed \/ \E v : wclosed' = [wclosed EXCEPT ![v] = TRUE]
      BY <2>2 DEF Continues, ReadStart, AssignWriter, NextWriter, JoinWriter, LoopEnds, JoinThread,
                  SlotDeleted, PopCount, DeleteRaises, writerVars
    <3> QED BY <3>1, <3>2 DEF TypeOK
  <2> QED BY <2>1, <2>2
<1>3. ASSUME NEW w \in Writers, wclosed'[w], ~wclosed[w]
      PROVE  pc'[t] = "close" /\ w = mine'[t]
  <2>1. NextWriter(t)
    BY <1>3 DEF Continues, ReadStart, AssignWriter, PutItem, JoinWriter, LoopEnds, JoinThread,
                SlotDeleted, PopCount, DeleteRaises, writerVars
  <2> QED BY <1>3, <2>1 DEF NextWriter, TypeOK
<1>4. ASSUME NEW w \in Writers, unfinished[w] # 0, pc[t] \in {"close", "closejob"},
             w \in todo[t] \/ w = mine[t]
      PROVE  pc'[t] = pc[t] /\ (w \in todo'[t] \/ w = mine'[t])
  <2>1. NextWriter(t) \/ JoinWriter(t) \/ LoopEnds(t)
    BY <1>4 DEF Continues, ReadStart, AssignWriter, PutItem, JoinThread, SlotDeleted, PopCount,
                DeleteRaises, Goto, Return
  <2>2. w # 0 BY ResourceAssumption
  <2>3. CASE NextWriter(t) BY <1>4, <2>2, <2>3 DEF NextWriter, TypeOK
  <2>4. CASE JoinWriter(t) BY <1>4, <2>4 DEF JoinWriter, Joined, TypeOK
  <2>5. CASE LoopEnds(t) BY <1>4, <2>2, <2>5 DEF LoopEnds, Changed
  <2> QED BY <2>1, <2>3, <2>4, <2>5
<1>5. ClosedDrained'
  <2> SUFFICES ASSUME NEW w \in Writers, wclosed'[w], unfinished'[w] # 0
               PROVE  \E u \in Threads :
                        pc'[u] \in {"close", "closejob"} /\ (w \in todo'[u] \/ w = mine'[u])
    BY DEF ClosedDrained
  <2>1. CASE ~wclosed[w] BY <1>3, <2>1
  <2>2. CASE wclosed[w]
    <3>1. unfinished[w] # 0 BY <1>2, <2>2
    <3>2. PICK u \in Threads : pc[u] \in {"close", "closejob"} /\ (w \in todo[u] \/ w = mine[u])
      BY <2>2, <3>1 DEF AppendBooks, ClosedDrained
    <3> QED BY <1>1, <1>4, <3>1, <3>2
  <2> QED BY <2>1, <2>2
<1>6. \A T : Positions(T)' = Positions(T) BY <1>1 DEF Positions
<1>7. StartBook(t)'
  <2>1. CASE ReadStart(t)
    <3>1. pc[t] = "start" /\ pc'[t] = "create" /\ on' = on /\ start'[t] = BatchWriteStart(on[t])
      BY <2>1 DEF ReadStart, Goto, TypeOK
    <3>2. on[t] \in Resources BY <3>1 DEF Books, CallBooks, CallBook
    <3>3. CASE on[t] \in Appending
      <4>1. start'[t] = InputValues(on[t]) BY <3>1, <3>3 DEF BatchWriteStart
      <4>2. InputValues(on[t]) \in Nat BY InputValuesIsNat DEF Books, WorkerBooks
      <4>3. \A p \in Positions(Target[on[t]]) : p \in Nat
        BY DEF Positions, AppendBooks, StoredBook
      <4>4. Target[on[t]] \notin lost =>
              /\ \A p \in 0..start'[t] - 1 : p \in Positions(Target[on[t]])
              /\ \A p \in Positions(Target[on[t]]) : p < start'[t]
        BY <3>2, <4>1, <4>2, <4>3, StartIsNext
      <4> QED BY <1>1, <1>6, <3>1, <4>4 DEF StartBook
    <3>4. CASE on[t] \notin Appending
      <4>1. start'[t] = 0 BY <3>1, <3>4 DEF BatchWriteStart
      <4> QED BY <3>1, <3>4, <4>1 DEF StartBook
    <3> QED BY <3>3, <3>4
  <2>2. CASE ~ReadStart(t)
    <3>1. pc'[t] # "create"
      BY <2>2 DEF Continues, AssignWriter, PutItem, NextWriter, JoinWriter, LoopEnds, JoinThread,
                  SlotDeleted, PopCount, DeleteRaises, Goto, Return, InLoop, TypeOK
    <3>2. start'[t] = 0 \/ (start' = start /\ (pc'[t] \in {"assign", "put"} \/ pc[t] \notin {"create", "assign", "put"}))
      BY <2>2 DEF Continues, AssignWriter, PutItem, NextWriter, JoinWriter, LoopEnds, JoinThread,
                  SlotDeleted, PopCount, DeleteRaises, Goto, Return, InLoop, TypeOK
    <3>3. pc[t] \notin {"create", "assign", "put"} => start[t] = 0 BY DEF AppendBooks, StartBook
    <3> QED BY <3>1, <3>2, <3>3 DEF StartBook
  <2> QED BY <2>1, <2>2
<1>8. \A u \in Threads \ {t} : StartBook(u)' BY <1>0, <1>1, StartBookKept
<1>9. \A w \in Writers : wclosed[w] => wclosed'[w] /\ (unfinished[w] = 0 => unfinished'[w] = 0)
  BY <1>2
<1> QED BY <1>1, <1>5, <1>7, <1>8, <1>9, CallerAppend

(***************************************************************************)
(* The worker's steps.                                                     *)
(***************************************************************************)
\* A batch that the server applies goes where its writer stands.
LEMMA PlacedPositions ==
  ASSUME TypeOK, Books, wpc = "upload", ServerApplies, owner[cur] \notin Slots,
         NEW T, T = Target[owner[cur]]
  PROVE  /\ stored' = stored \cup Placed
         /\ \A x \in Placed : /\ x[1] = T /\ x[3] = cur
                              /\ x[2] \in offset[cur]..offset[cur] + taken - 1
         /\ \A p \in offset[cur]..offset[cur] + taken - 1 : p \in Positions(T)'
<1>1. stored' = stored \cup Placed BY DEF ServerApplies
<1>2. taken \in Nat /\ offset[cur] \in Nat /\ head[cur] \in Nat BY CurMade DEF Busy
<1>3. ASSUME NEW x \in Placed
      PROVE  /\ x[1] = T /\ x[3] = cur
             /\ x[2] \in offset[cur]..offset[cur] + taken - 1
  <2>1. PICK i \in 1..taken : x = <<Target[owner[cur]], offset[cur] + i - 1, cur, head[cur] - taken + i>>
    BY DEF Placed
  <2> QED BY <1>2, <2>1
<1>4. ASSUME NEW p \in offset[cur]..offset[cur] + taken - 1
      PROVE  p \in Positions(T)'
  <2> DEFINE i == p - offset[cur] + 1
             x == <<Target[owner[cur]], offset[cur] + i - 1, cur, head[cur] - taken + i>>
  <2>1. i \in 1..taken /\ offset[cur] + i - 1 = p BY <1>2
  <2>2. x \in Placed BY <2>1 DEF Placed
  <2>3. x \in stored' /\ x[1] = T /\ x[2] = p BY <1>1, <2>1, <2>2
  <2> HIDE DEF x, i
  <2> QED BY <2>3 DEF Positions
<1> QED BY <1>1, <1>3, <1>4

LEMMA BeginsKept ==
  ASSUME TypeOK, Books, Worker, NEW w \in Writers
  PROVE  Begins(w)' = Begins(w)
<1>1. head[w] \in Nat /\ offset[w] \in Nat /\ Len(log[w]) \in Nat /\ Size \in Nat /\ taken \in Nat
  BY ResourceAssumption DEF TypeOK
<1>2. ASSUME NEW v \in Writers, TakeBatch(v) PROVE Begins(w)' = Begins(w)
  <2>1. /\ wpc = "pick" /\ wpc' = "upload" /\ cur' = v /\ taken' = BatchLength(v)
        /\ head' = [head EXCEPT ![v] = @ + BatchLength(v)] /\ offset' = offset
    BY <1>2 DEF TakeBatch
  <2>2. CASE w = v
    <3>1. BatchLength(w) \in Int BY <1>1 DEF BatchLength, Queued
    <3>2. head'[w] = head[w] + BatchLength(w) BY <2>1, <2>2 DEF TypeOK
    <3> QED BY <1>1, <2>1, <2>2, <3>1, <3>2 DEF Begins, Sent
  <2>3. CASE w # v BY <1>1, <2>1, <2>3 DEF Begins, Sent, TypeOK
  <2> QED BY <2>2, <2>3
<1>3. ASSUME wpc = "upload", AfterUpload PROVE Begins(w)' = Begins(w)
  <2>1. wpc' # "upload" /\ head' = head /\ offset' = [offset EXCEPT ![cur] = @ + taken]
    BY <1>3 DEF AfterUpload
  <2>2. CASE w = cur
    <3>1. offset'[w] = offset[w] + taken BY <2>1, <2>2 DEF TypeOK
    <3> QED BY <1>1, <1>3, <2>1, <2>2, <3>1 DEF Begins, Sent
  <2>3. CASE w # cur BY <1>1, <2>1, <2>3 DEF Begins, Sent, TypeOK
  <2> QED BY <2>2, <2>3
<1>4. ASSUME UNCHANGED <<head, offset>>, \/ wpc # "upload" /\ wpc' # "upload"
                                         \/ UNCHANGED <<wpc, cur, taken>>
      PROVE  Begins(w)' = Begins(w)
  BY <1>4 DEF Begins, Sent
<1> QED BY <1>2, <1>3, <1>4 DEF Worker, UploadAnswered, UploadAgain, UploadGivenUp, CallbackReads,
           CallbackWrites, MarkDone, DequeEmpty, StopOrGoOn, writerVars

\* The worker drains writers, and closes what is drained.
LEMMA WorkerDrains ==
  ASSUME TypeOK, Books, Worker, NEW w \in Writers
  PROVE  /\ wclosed[w] => wclosed'[w]
         /\ unfinished[w] = 0 => unfinished'[w] = 0
         /\ wclosed'[w] => wclosed[w] \/ unfinished'[w] = 0
<1>1. unfinished'[w] = unfinished[w] \/ (wpc = "done" /\ w = cur)
  <2>1. CASE UploadAnswered \/ \E served \in BOOLEAN : UploadGivenUp(served)
    <3>1. unfinished' = [unfinished EXCEPT ![cur] = @ - DoneBeforeCallback]
      BY <2>1 DEF UploadAnswered, UploadGivenUp
    <3> QED BY <3>1 DEF TypeOK, DoneBeforeCallback
  <2>2. CASE MarkDone BY <2>2 DEF MarkDone, TypeOK
  <2> QED BY <2>1, <2>2 DEF Worker, TakeBatch, UploadAgain, CallbackReads, CallbackWrites,
                            DequeEmpty, StopOrGoOn, writerVars
<1>2. unfinished[w] = 0 => unfinished'[w] = 0
  <2>1. wpc = "done" => unfinished[cur] # 0 BY NothingUnfinished, CurMade DEF Busy
  <2> QED BY <1>1, <2>1
<1>3. wclosed' = wclosed \/ DequeEmpty
  BY DEF Worker, TakeBatch, UploadAnswered, UploadAgain, UploadGivenUp, AfterUpload, CallbackReads,
         CallbackWrites, MarkDone, StopOrGoOn, writerVars
<1>4. ASSUME DequeEmpty
      PROVE  (wclosed[w] => wclosed'[w]) /\ (wclosed'[w] => wclosed[w] \/ unfinished'[w] = 0)
  <2>1. /\ wclosed' = [v \in Writers |-> wclosed[v] \/ v \in Made] /\ unfinished' = unfinished
        /\ \A v \in Made : Queued(v) = 0 /\ cur = 0
    BY <1>4 DEF DequeEmpty, InDeque, Books, WorkerBooks, Busy
  <2>2. w \in Made => unfinished[w] = 0
    BY <2>1, ResourceAssumption DEF Books, WriterBooks, WriterBook, Held
  <2> QED BY <2>1, <2>2
<1> QED BY <1>2, <1>3, <1>4

LEMMA WorkerAppend ==
  ASSUME TypeOK, Books, ClosingBooks, AppendBooks, Worker
  PROVE  AppendBooks'
<1>0. Next BY DEF Next
<1>1. UNCHANGED <<owner, fresh, callVars>> /\ lost \subseteq lost'
  BY DEF Worker, TakeBatch, UploadAnswered, UploadAgain, UploadGivenUp, AfterUpload, CallbackReads,
         CallbackWrites, MarkDone, DequeEmpty, StopOrGoOn, writerVars, serverVars
<1>2. stored' = stored \/ (wpc = "upload" /\ ServerApplies /\ owner[cur] \notin Slots)
  BY DEF Worker, TakeBatch, UploadAnswered, UploadAgain, UploadGivenUp, CallbackReads,
         CallbackWrites, MarkDone, DequeEmpty, StopOrGoOn, ServerApplies, serverVars
<1>3. \/ offset' = offset
      \/ /\ wpc = "upload" /\ offset' = [offset EXCEPT ![cur] = @ + taken]
         /\ ServerApplies \/ Target[owner[cur]] \in lost' \/ owner[cur] \in Slots
  BY DEF Worker, TakeBatch, UploadAnswered, UploadAgain, UploadGivenUp, AfterUpload, CallbackReads,
         CallbackWrites, MarkDone, DequeEmpty, StopOrGoOn, writerVars
<1>4. Made' = Made /\ Made \subseteq Writers BY <1>1 DEF Made
<1>5. \A w \in Writers : Begins(w)' = Begins(w) BY BeginsKept
<1>6. stored \subseteq stored' /\ \A T : Positions(T) \subseteq Positions(T)'
  <2>1. stored \subseteq stored' BY <1>2, PlacedPositions
  <2> QED BY <2>1 DEF Positions
<1>7. wpc = "upload" => /\ cur \in Made /\ cur \in Writers /\ owner[cur] \in Resources /\ unfinished[cur] # 0
                        /\ taken \in Nat /\ taken > 0 /\ taken <= head[cur]
                        /\ head[cur] \in Nat /\ offset[cur] \in Nat
  BY CurMade, NothingUnfinished DEF Busy, Books, WorkerBooks
<1>8. \A x \in stored' \ stored : /\ wpc = "upload" /\ owner[cur] \notin Slots
                                  /\ x[1] = Target[owner[cur]] /\ x[3] = cur
                                  /\ x[2] \in offset[cur]..offset[cur] + taken - 1
  BY <1>2, PlacedPositions
<1>9. ASSUME wpc = "upload", ServerApplies, owner[cur] \notin Slots,
             NEW T, T = Target[owner[cur]], T \notin lost,
             NEW p \in 0..offset[cur] + taken - 1
      PROVE  p \in Positions(T)'
  <2>1. CASE p < offset[cur]
    <3>1. OffsetBook(cur) BY <1>7, <1>9 DEF AppendBooks
    <3>2. p \in Positions(T) BY <1>7, <1>9, <2>1, <3>1 DEF OffsetBook
    <3> QED BY <1>6, <3>2
  <2>2. CASE ~(p < offset[cur])
    <3>1. p \in offset[cur]..offset[cur] + taken - 1 BY <1>7, <1>9, <2>2
    <3> QED BY <1>9, <3>1, PlacedPositions
  <2> QED BY <2>1, <2>2
<1>10. MadeInOrder' BY <1>4 DEF MadeInOrder, AppendBooks
<1>11. ClosedDrained'
  <2> SUFFICES ASSUME NEW w \in Writers, wclosed'[w], unfinished'[w] # 0
               PROVE  \E t \in Threads :
                        pc[t] \in {"close", "closejob"} /\ (w \in todo[t] \/ w = mine[t])
    BY <1>1 DEF ClosedDrained, callVars
  <2>1. wclosed[w] /\ unfinished[w] # 0 BY WorkerDrains
  <2> QED BY <2>1 DEF AppendBooks, ClosedDrained
<1>12. ASSUME NEW x \in stored' PROVE StoredBook(x)'
  <2>1. CASE x \in stored
    <3>1. StoredBook(x) /\ x[3] \in Writers BY <1>4, <2>1 DEF AppendBooks, StoredBook
    <3> QED BY <1>1, <1>4, <1>5, <1>6, <3>1 DEF StoredBook
  <2>2. CASE x \notin stored
    <3>1. /\ wpc = "upload" /\ owner[cur] \notin Slots /\ ServerApplies
          /\ x[1] = Target[owner[cur]] /\ x[3] = cur
          /\ x[2] \in offset[cur]..offset[cur] + taken - 1
      BY <1>2, <1>8, <1>12, <2>2
    <3>2. x[2] \in Nat /\ x[2] >= offset[cur] /\ x[2] <= offset[cur] + taken - 1 BY <1>7, <3>1
    <3>3. x[2] >= Begins(x[3])'
      <4>1. x[2] >= Begins(x[3]) BY <1>7, <3>1, <3>2 DEF Begins, Sent
      <4>2. Begins(x[3])' = Begins(x[3]) BY <1>5, <1>7, <3>1
      <4> QED BY <4>1, <4>2
    <3>4. x[1] \notin lost' => \A p \in 0..x[2] - 1 : p \in Positions(x[1])'
      <4> SUFFICES ASSUME x[1] \notin lost', NEW p \in 0..x[2] - 1 PROVE p \in Positions(x[1])'
        OBVIOUS
      <4>0. offset[cur] \in Nat /\ taken \in Nat BY <1>7, <3>1
      <4>1. p \in 0..offset[cur] + taken - 1 BY <3>2, <4>0
      <4> QED BY <1>1, <1>9, <3>1, <4>1
    <3> QED BY <1>1, <1>4, <1>7, <3>1, <3>2, <3>3, <3>4 DEF StoredBook
  <2> QED BY <2>1, <2>2
<1>13. ASSUME NEW w \in Writers PROVE OffsetBook(w)'
  <2> SUFFICES ASSUME owner[w] \in Resources \ Slots, Target[owner[w]] \notin lost',
                      NEW T, T = Target[owner[w]], NEW p \in 0..offset'[w] - 1
               PROVE  p \in Positions(T)'
    BY <1>1 DEF OffsetBook
  <2>1. CASE offset'[w] = offset[w]
    <3>1. OffsetBook(w) BY DEF AppendBooks
    <3>2. p \in Positions(T) BY <1>1, <2>1, <3>1 DEF OffsetBook
    <3> QED BY <1>6, <3>2
  <2>2. CASE offset'[w] # offset[w]
    <3>1. wpc = "upload" /\ w = cur /\ offset'[w] = offset[cur] + taken /\ ServerApplies
      BY <1>3, <2>2 DEF TypeOK
    <3>2. T \notin lost BY <1>1
    <3>3. offset[cur] \in Nat /\ taken \in Nat BY <1>7, <3>1
    <3>4. p \in 0..offset[cur] + taken - 1 BY <3>1, <3>3
    <3> QED BY <1>9, <3>1, <3>2, <3>4
  <2> QED BY <2>1, <2>2
<1>14. ASSUME NEW w \in Writers PROVE FreshBook(w)'
  <2> SUFFICES ASSUME w \in fresh PROVE FreshBook(w)' BY <1>1 DEF FreshBook
  <2>1. FreshBook(w) /\ w \in Made BY DEF AppendBooks, FreshBook
  <2>2. \A v \in Made : v < w /\ Target[owner[v]] = Target[owner[w]] =>
                          wclosed'[v] /\ unfinished'[v] = 0
    BY <1>4, <2>1, WorkerDrains DEF FreshBook
  <2>3. ASSUME owner[w] \in Appending, Target[owner[w]] \notin lost, NEW y \in stored',
               y[1] = Target[owner[w]], y[3] < w
        PROVE  y[2] < Begins(w)
    <3>1. CASE y \in stored BY <2>1, <2>3, <3>1 DEF FreshBook
    <3>2. CASE y \notin stored
      <4>1. wpc = "upload" /\ y[1] = Target[owner[cur]] /\ y[3] = cur BY <1>8, <2>3, <3>2
      <4>2. cur \in Made /\ unfinished[cur] # 0 BY <1>7, <4>1
      <4> QED BY <2>1, <2>3, <4>1, <4>2 DEF FreshBook
    <3> QED BY <3>1, <3>2
  <2> QED BY <1>1, <1>4, <1>5, <2>1, <2>2, <2>3 DEF FreshBook
<1>15. ASSUME NEW u \in Threads PROVE StartBook(u)'
  <2>1. StartBook(u) BY DEF AppendBooks
  <2>2. CASE pc[u] # "create" BY <1>1, <2>1, <2>2 DEF StartBook, callVars
  <2>3. ASSUME pc[u] = "create", on[u] \notin Slots, NEW T, T = Target[on[u]], T \notin lost'
        PROVE  /\ \A p \in 0..start[u] - 1 : p \in Positions(T)'
               /\ on[u] \in Appending /\ OpenOn(on[u])' = {} =>
                    \A p \in Positions(T)' : p < start[u]
    <3>1. T \notin lost BY <1>1, <2>3
    <3>2. \A p \in 0..start[u] - 1 : p \in Positions(T)'
      BY <1>6, <2>1, <2>3, <3>1 DEF StartBook
    <3>3. ASSUME on[u] \in Appending, OpenOn(on[u])' = {}, NEW p \in Positions(T)'
          PROVE  p < start[u]
      <4>1. wclosed' = wclosed BY <1>0, <2>3, ClosedWhileCreating
      <4>2. on' = on /\ owner' = owner BY <1>1 DEF callVars
      <4>3. OpenOn(on[u]) = {} BY <2>3, <3>3, <4>1, <4>2, OpenKept
      <4>4. PICK x \in stored' : x[1] = T /\ x[2] = p BY <3>3 DEF Positions
      <4>5. x \in stored
        <5> SUFFICES ASSUME x \notin stored PROVE FALSE OBVIOUS
        <5>1. wpc = "upload" /\ x[1] = Target[owner[cur]] BY <1>8
        <5>2. cur \in OpenOn(on[u]) BY <1>7, <2>3, <4>4, <5>1 DEF OpenOn
        <5> QED BY <4>3, <5>2
      <4>6. p \in Positions(T) BY <4>4, <4>5 DEF Positions
      <4> QED BY <2>1, <2>3, <3>1, <3>3, <4>3, <4>6 DEF StartBook
    <3> QED BY <3>2, <3>3
  <2>4. on' = on /\ start' = start /\ pc' = pc BY <1>1 DEF callVars
  <2> QED BY <2>1, <2>2, <2>3, <2>4 DEF StartBook
<1> QED BY <1>10, <1>11, <1>12, <1>13, <1>14, <1>15 DEF AppendBooks

LEMMA AppendAlways == Spec => [](TypeOK /\ Books /\ ClosingBooks /\ AppendBooks)
<1>1. ASSUME Init PROVE AppendBooks
  <2>1. /\ stored = {} /\ fresh = {} /\ \A t \in Threads : pc[t] = "idle" /\ start[t] = 0
        /\ \A w \in Writers : owner[w] = None /\ unfinished[w] = 0
    BY <1>1 DEF Init
  <2>2. Made = {} BY <2>1 DEF Made
  <2>3. MadeInOrder /\ ClosedDrained BY <2>1, <2>2 DEF MadeInOrder, ClosedDrained
  <2>4. \A w \in Writers : OffsetBook(w) /\ FreshBook(w)
    BY <2>1, ResourceAssumption DEF OffsetBook, FreshBook
  <2>5. \A t \in Threads : StartBook(t) BY <2>1 DEF StartBook
  <2> QED BY <2>1, <2>3, <2>4, <2>5 DEF AppendBooks
<1>2. ASSUME TypeOK, Books, ClosingBooks, AppendBooks, [Next]_vars PROVE AppendBooks'
  <2>1. CASE UNCHANGED vars
    <3>1. UNCHANGED <<stored, owner, head, offset, lost, fresh, wpc, cur, taken, wclosed, unfinished,
                      pc, on, start, todo, mine>>
      BY <2>1 DEF vars, writerVars, uploadVars, callVars, serverVars
    <3>2. ClosedDrained' BY <1>2, <3>1 DEF AppendBooks, ClosedDrained
    <3>3. \A u \in Threads : StartBook(u)'
      <4>1. \A T : Positions(T)' = Positions(T) BY <3>1 DEF Positions
      <4>2. \A r : OpenOn(r)' = OpenOn(r) BY <3>1 DEF OpenOn, Made
      <4> QED BY <1>2, <3>1, <4>1, <4>2 DEF AppendBooks, StartBook
    <3> QED BY <1>2, <3>1, <3>2, <3>3, CallerAppend
  <2> QED BY <1>2, <2>1, StartsAppend, ContinuesAppend, WorkerAppend DEF Next
<1>3. TypeOK /\ Books /\ ClosingBooks /\ AppendBooks /\ [Next]_vars => AppendBooks' BY <1>2
<1> QED BY <1>1, <1>3, ClosingAlways, PTL DEF Spec

\* A Logs in append mode goes on after what earlier writers of its stream have
\* stored, if those were closed and drained and none of their batches was given up
\* (hubstorage/job.py batch_write_start).
THEOREM AppendContinuesHolds == Spec => []AppendContinues
<1>1. ASSUME TypeOK, AppendBooks PROVE AppendContinues
  <2> SUFFICES ASSUME NEW x \in stored, NEW y \in stored, x[1] = y[1], x[3] \in fresh, y[3] < x[3],
                      x[1] \notin lost, owner[x[3]] \in Appending
               PROVE  y[2] < x[2]
    BY DEF AppendContinues
  <2> DEFINE w == x[3]
  <2>1. StoredBook(x) /\ StoredBook(y) BY <1>1 DEF AppendBooks
  <2>2. w \in Made /\ x[1] = Target[owner[w]] /\ x[2] >= Begins(w) /\ x[2] \in Nat /\ y[2] \in Nat
    BY <2>1 DEF StoredBook
  <2>3. w \in Writers BY <2>2 DEF Made
  <2>4. y[2] < Begins(w) BY <1>1, <2>2, <2>3 DEF AppendBooks, FreshBook
  <2>5. Begins(w) \in Int
    <3>1. taken \in Nat BY <1>1, ResourceAssumption DEF TypeOK
    <3> QED BY <1>1, <2>3, <3>1 DEF TypeOK, Begins, Sent
  <2> QED BY <2>2, <2>4, <2>5
<1> QED BY <1>1, AppendAlways, PTL
=============================================================================
