------------------------- MODULE ReliableReadProofs -------------------------
(***************************************************************************)
(* Proofs about the readers, for every number of items, attempts, requests *)
(* and every count: they end with the caller holding the items in order,   *)
(* and but for the json reader they keep to the caller's count.            *)
(***************************************************************************)
EXTENDS ReliableReadProperties, SequenceTheorems, TLAPS

----------------------------------------------------------------------------
\* Runs of consecutive numbers.
LEMMA NaturalsAreIntegers ==
  ASSUME NEW s \in Seq(Nat)
  PROVE  s \in Seq(Int)
OBVIOUS

LEMMA ConsecutiveAppend ==
  ASSUME NEW s \in Seq(Int), NEW a \in Int, Consecutive(s, a)
  PROVE  Consecutive(Append(s, a + Len(s)), a)
BY DEF Consecutive

LEMMA ConsecutiveConcat ==
  ASSUME NEW s \in Seq(Int), NEW t \in Seq(Int), NEW a \in Int,
         Consecutive(s, a), Consecutive(t, a + Len(s))
  PROVE  Consecutive(s \o t, a)
BY DEF Consecutive

LEMMA ConsecutiveSplit ==
  ASSUME NEW s \in Seq(Nat), NEW t \in Seq(Nat), NEW a \in Int, Consecutive(s \o t, a)
  PROVE  Consecutive(s, a) /\ Consecutive(t, a + Len(s))
<1>1. ASSUME NEW i \in 1..Len(s) PROVE s[i] = a + i - 1
  <2>1. i \in 1..Len(s \o t) /\ (s \o t)[i] = s[i]
    BY ConcatProperties
  <2> QED
    BY <2>1 DEF Consecutive
<1>2. ASSUME NEW i \in 1..Len(t) PROVE t[i] = a + Len(s) + i - 1
  <2>1. Len(s) + i \in 1..Len(s \o t) /\ (s \o t)[Len(s) + i] = t[i]
    BY ConcatProperties
  <2> QED
    BY <2>1 DEF Consecutive
<1> QED
  BY <1>1, <1>2 DEF Consecutive

LEMMA ConsecutiveTail ==
  ASSUME NEW t \in Seq(Int), NEW a \in Int, t # <<>>, Consecutive(t, a)
  PROVE  Head(t) = a /\ Consecutive(Tail(t), a + 1)
BY DEF Consecutive

\* The server's answer: consecutive items, no more than asked for.
LEMMA ServedItems ==
  ASSUME NEW p \in Params, size \in Nat
  PROVE  /\ From(p) \in Nat /\ Served(p) \in Seq(Nat)
         /\ Len(Served(p)) <= p.count
         /\ Consecutive(Served(p), From(p))
<1>1. p.start \in Nat /\ p.after \in Int /\ p.count \in Nat
  BY DEF Params, NoLine
<1>2. From(p) \in Nat
  BY <1>1 DEF From, Greater
<1> DEFINE n == Greater(0, Lesser(p.count, size - From(p)))
<1>3. n \in Nat /\ n <= p.count
  BY <1>1, <1>2 DEF Greater, Lesser
<1> HIDE DEF n
<1>4. Served(p) = [i \in 1..n |-> From(p) + i - 1]
  BY DEF Served, n
<1> QED
  BY <1>2, <1>3, <1>4 DEF Consecutive

\* The bytes of consecutive items are consecutive, and decode to these items.
LEMMA PackedBytes ==
  ASSUME NEW s \in Seq(Nat), NEW a \in Nat, Consecutive(s, a)
  PROVE  /\ Packed(s) \in Seq(Nat) /\ Len(Packed(s)) = 2 * Len(s)
         /\ Consecutive(Packed(s), 2 * a)
<1> DEFINE n == 2 * Len(s)
<1>1. n \in Nat
  OBVIOUS
<1>2. ASSUME NEW k \in 1..n
      PROVE  2 * s[(k + 1) \div 2] + (IF k % 2 = 1 THEN 0 ELSE 1) = 2 * a + k - 1
  <2>1. (k + 1) \div 2 \in 1..Len(s)
    OBVIOUS
  <2>2. s[(k + 1) \div 2] = a + ((k + 1) \div 2) - 1
    BY <2>1 DEF Consecutive
  <2>3. 2 * ((k + 1) \div 2) = IF k % 2 = 1 THEN k + 1 ELSE k
    OBVIOUS
  <2> QED
    BY <2>1, <2>2, <2>3
<1> HIDE DEF n
<1>3. Packed(s) = [k \in 1..n |-> 2 * a + k - 1]
  BY <1>2 DEF Packed, n
<1>4. Packed(s) \in Seq(Nat) /\ Len(Packed(s)) = n
  BY <1>1, <1>3
<1>5. \A k \in 1..n : Packed(s)[k] = 2 * a + k - 1
  BY <1>3
<1> QED
  BY <1>4, <1>5 DEF Consecutive, n

LEMMA SubSeqTypes ==
  ASSUME NEW b \in Seq(Nat), NEW n \in Nat, n <= Len(b)
  PROVE  /\ SubSeq(b, 1, n) \in Seq(Nat) /\ Len(SubSeq(b, 1, n)) = n
         /\ SubSeq(b, n + 1, Len(b)) \in Seq(Nat)
         /\ Len(SubSeq(b, n + 1, Len(b))) = Len(b) - n
         /\ SubSeq(b, 1, n) \o SubSeq(b, n + 1, Len(b)) = b
<1>1. \A i \in 1..Len(b) : b[i] \in Nat
  OBVIOUS
<1>2. /\ SubSeq(b, 1, n) \in Seq(Nat) /\ Len(SubSeq(b, 1, n)) = n
      /\ \A i \in 1..n : SubSeq(b, 1, n)[i] = b[i]
  BY <1>1, SubSeqProperties
<1>3. /\ SubSeq(b, n + 1, Len(b)) \in Seq(Nat)
      /\ Len(SubSeq(b, n + 1, Len(b))) = Len(b) - n
      /\ \A i \in 1..(Len(b) - n) : SubSeq(b, n + 1, Len(b))[i] = b[n + i]
  BY <1>1, SubSeqProperties
<1>4. SubSeq(b, 1, n) \o SubSeq(b, n + 1, Len(b)) = b
  <2>1. SubSeq(b, 1, Len(b)) = b
    BY SubSeqFull
  <2>2. 1 \in 1..Len(b) + 1 /\ n \in 1 - 1..Len(b) /\ Len(b) \in n..Len(b)
    OBVIOUS
  <2> QED
    BY <2>1, <2>2, ConcatAdjacentSubSeq
<1> QED
  BY <1>2, <1>3, <1>4

LEMMA UnpackedTypes ==
  ASSUME NEW b \in Seq(Nat)
  PROVE  Unpacked(b) \in Seq(Int) /\ Incomplete(b) \in Seq(Nat)
<1> DEFINE n == Len(b) \div 2
<1>1. n \in Nat /\ 2 * n <= Len(b)
  OBVIOUS
<1>2. Unpacked(b) \in Seq(Int)
  <2>1. ASSUME NEW j \in 1..n
        PROVE  (IF Whole(b, j) THEN b[2 * j] \div 2 ELSE Torn) \in Int
    BY <1>1 DEF Torn
  <2> QED
    BY <1>1, <2>1 DEF Unpacked
<1>3. \A i \in (2 * n + 1)..Len(b) : b[i] \in Nat
  BY <1>1
<1>4. Incomplete(b) \in Seq(Nat)
  BY <1>1, <1>3, SubSeqProperties DEF Incomplete
<1> QED
  BY <1>2, <1>4

LEMMA UnpackedItems ==
  ASSUME NEW b \in Seq(Nat), NEW a \in Nat, Consecutive(b, 2 * a)
  PROVE  /\ Unpacked(b) \in Seq(Int) /\ Len(Unpacked(b)) = Len(b) \div 2
         /\ Consecutive(Unpacked(b), a)
         /\ Incomplete(b) \in Seq(Nat)
         /\ Len(Incomplete(b)) = Len(b) - 2 * (Len(b) \div 2)
         /\ Consecutive(Incomplete(b), 2 * (a + Len(b) \div 2))
<1> DEFINE n == Len(b) \div 2
<1>1. n \in Nat /\ 2 * n <= Len(b) /\ Len(b) <= 2 * n + 1
  OBVIOUS
<1>2. ASSUME NEW j \in 1..n
      PROVE  (IF Whole(b, j) THEN b[2 * j] \div 2 ELSE Torn) = a + j - 1
  <2>1. 2 * j - 1 \in 1..Len(b) /\ 2 * j \in 1..Len(b)
    BY <1>1
  <2>2. b[2 * j - 1] = 2 * (a + j - 1) /\ b[2 * j] = 2 * (a + j - 1) + 1
    BY <2>1 DEF Consecutive
  <2>3. (2 * (a + j - 1)) % 2 = 0 /\ (2 * (a + j - 1) + 1) \div 2 = a + j - 1
    OBVIOUS
  <2> QED
    BY <2>2, <2>3 DEF Whole
<1> HIDE DEF n
<1>3. Unpacked(b) = [j \in 1..n |-> a + j - 1]
  BY <1>2 DEF Unpacked, n
<1>4. Unpacked(b) \in Seq(Int) /\ Len(Unpacked(b)) = n /\ Consecutive(Unpacked(b), a)
  BY <1>1, <1>3 DEF Consecutive
<1>5. Incomplete(b) = SubSeq(b, 2 * n + 1, Len(b))
  BY DEF Incomplete, n
<1>6. Incomplete(b) \in Seq(Nat) /\ Len(Incomplete(b)) = Len(b) - 2 * n
  <2>1. 2 * n \in Nat
    BY <1>1
  <2> QED
    BY <1>1, <1>5, <2>1, SubSeqTypes
<1>7. ASSUME NEW i \in 1..Len(Incomplete(b))
      PROVE  Incomplete(b)[i] = 2 * (a + n) + i - 1
  <2>1. 2 * n + i \in 1..Len(b) /\ Incomplete(b)[i] = b[2 * n + i]
    <3>1. \A k \in (2 * n + 1)..Len(b) : b[k] \in Nat
      BY <1>1
    <3>2. i \in 1..(Len(b) - (2 * n + 1) + 1)
      BY <1>1, <1>6
    <3> QED
      BY <1>1, <1>5, <3>1, <3>2, SubSeqProperties
  <2> QED
    BY <1>1, <2>1 DEF Consecutive
<1>8. Consecutive(Incomplete(b), 2 * (a + n))
  BY <1>7 DEF Consecutive
<1> QED
  BY <1>4, <1>6, <1>8 DEF n
----------------------------------------------------------------------------
\* Types and counters.
LEMMA ConstantTypes ==
  /\ MaxItems \in Nat /\ MaxAttempts \in Nat /\ 0 \in 0..MaxAttempts
  /\ MaxRequests \in Nat /\ 0 \in 0..(MaxRequests - 1)
  /\ Unlimited \in Nat \ {0}
  /\ Firsts \subseteq Nat /\ Limits \subseteq Nat \ {0} /\ Widths \subseteq Nat \ {0}
BY ReaderAssumption

LEMMA InitCounters == Init => CountersInv
<1> SUFFICES ASSUME Init PROVE CountersInv
  OBVIOUS
<1> USE ConstantTypes DEF Init, NoLine, NoParams
<1>1. ParamTypes
  BY DEF ParamTypes, Params
<1>2. CallTypes
  BY DEF CallTypes
<1>2a. ReadTypes
  <2>1. <<>> \in Seq(Int) /\ <<>> \in Seq(Nat)
    OBVIOUS
  <2> QED
    BY <2>1 DEF ReadTypes
<1>3. AttemptsLeft /\ ListsLeft /\ LegacyCounts
  BY DEF AttemptsLeft, ListsLeft, LegacyCounts, Reading
<1> QED
  BY <1>1, <1>2, <1>2a, <1>3 DEF CountersInv, TypeOK

\* A request that failed for good ends the attempt, or the call.
RequestEnds ==
  /\ pc = "request"
  /\ Retry \/ (pc' \in {"raised", "astray"} /\ UNCHANGED <<attempt, params>>)
  /\ UNCHANGED <<size, callVars, chunkVars, got, gaveup, last, retrieved, tries, body, buffer>>

LEMMA FailuresEnd ==
  ErrorDecoded \/ (\E why \in {"busy", "status", "connection", "other"} : RequestFails(why))
    => RequestEnds
BY DEF ErrorDecoded, RequestFails, RequestEnds

LEMMA NextCounters ==
  ASSUME CountersInv, [Next]_vars
  PROVE  CountersInv'
<1> USE ConstantTypes DEF CountersInv, TypeOK, callVars, chunkVars, retryVars
<1>1. CASE ItemArrives
  <2>1. ParamTypes'
    BY <1>1 DEF ItemArrives, ParamTypes, Params, CallTypes, ReadTypes, ListsLeft, LegacyCounts, Reading
  <2>2. CallTypes'
    BY <1>1 DEF ItemArrives, CallTypes, ReadTypes, ListsLeft
  <2>3. ReadTypes'
    BY <1>1 DEF ItemArrives, CallTypes, ReadTypes, AttemptsLeft, ParamTypes, Params, NoLine
  <2>4. AttemptsLeft'
    BY <1>1 DEF ItemArrives, AttemptsLeft
  <2>5. ListsLeft'
    BY <1>1 DEF ItemArrives, ListsLeft, CallTypes, ReadTypes, Reading
  <2>6. LegacyCounts'
    BY <1>1 DEF ItemArrives, LegacyCounts, ListsLeft, CallTypes, ReadTypes, ParamTypes, Params, Reading
  <2> QED
    BY <2>1, <2>2, <2>3, <2>4, <2>5, <2>6
<1>2. ASSUME NEW a \in Firsts, NEW n \in Limits \cup {Unlimited}, Iter(a, n)
      PROVE  CountersInv'
  <2>1. ParamTypes'
    BY <1>2 DEF Iter, Calls, Begin, ParamTypes, Params, CallTypes, ReadTypes, ListsLeft, LegacyCounts, Reading
  <2>2. CallTypes'
    BY <1>2 DEF Iter, Calls, Begin, CallTypes, ReadTypes, ListsLeft
  <2>3. ReadTypes'
    BY <1>2 DEF Iter, Calls, Begin, CallTypes, ReadTypes, AttemptsLeft, ParamTypes, Params, NoLine
  <2>4. AttemptsLeft'
    BY <1>2 DEF Iter, Calls, Begin, AttemptsLeft
  <2>5. ListsLeft'
    BY <1>2 DEF Iter, Calls, Begin, ListsLeft, CallTypes, ReadTypes, Reading
  <2>6. LegacyCounts'
    BY <1>2 DEF Iter, Calls, Begin, LegacyCounts, ListsLeft, CallTypes, ReadTypes, ParamTypes, Params, Reading
  <2> QED
    BY <2>1, <2>2, <2>3, <2>4, <2>5, <2>6
<1>3. ASSUME NEW a \in Firsts, NEW n \in Limits \cup {Unlimited}, NEW c \in Widths,
             ListIter(a, n, c)
      PROVE  CountersInv'
  <2>1. ParamTypes'
    BY <1>3 DEF ListIter, Calls, ParamTypes, Params, CallTypes, ReadTypes, ListsLeft, LegacyCounts, Reading
  <2>2. CallTypes'
    BY <1>3 DEF ListIter, Calls, CallTypes, ReadTypes, ListsLeft
  <2>3. ReadTypes'
    BY <1>3 DEF ListIter, Calls, CallTypes, ReadTypes, AttemptsLeft, ParamTypes, Params, NoLine
  <2>4. AttemptsLeft'
    BY <1>3 DEF ListIter, Calls, AttemptsLeft
  <2>5. ListsLeft'
    BY <1>3 DEF ListIter, Calls, ListsLeft, CallTypes, ReadTypes, Reading
  <2>6. LegacyCounts'
    BY <1>3 DEF ListIter, Calls, LegacyCounts, ListsLeft, CallTypes, ReadTypes, ParamTypes, Params, Reading
  <2> QED
    BY <2>1, <2>2, <2>3, <2>4, <2>5, <2>6
<1>4. CASE Attempt
  <2>1. ParamTypes'
    <3>1. Resumed(params) \in Params
      BY DEF Resumed, ParamTypes, Params, ReadTypes
    <3> QED
      BY <1>4, <3>1 DEF Attempt, ParamTypes
  <2>2. CallTypes'
    BY <1>4 DEF Attempt, Resumed, CallTypes, ReadTypes, ListsLeft
  <2>3. ReadTypes'
    <3>1. gaveup' \in BOOLEAN
      BY <1>4, Zenon DEF Attempt, ReadTypes
    <3>2. retrieved' \in Nat /\ tries' \in 0..(MaxRequests - 1)
      BY <1>4 DEF Attempt, ReadTypes
    <3> QED
      BY <1>4, <3>1, <3>2, Zenon DEF Attempt, ReadTypes
  <2>4. AttemptsLeft'
    BY <1>4 DEF Attempt, Resumed, AttemptsLeft
  <2>5. ListsLeft'
    BY <1>4 DEF Attempt, Resumed, ListsLeft, CallTypes, ReadTypes, Reading
  <2>6. LegacyCounts'
    BY <1>4 DEF Attempt, Resumed, LegacyCounts, ListsLeft, CallTypes, ReadTypes, ParamTypes, Params, Reading
  <2> QED
    BY <2>1, <2>2, <2>3, <2>4, <2>5, <2>6
<1>5. CASE StreamFails
  <2>1. ParamTypes'
    <3>1. fmt = "legacy" /\ params' # params => CountLeft(params) \in Nat
      BY <1>5 DEF StreamFails, Retry, CountLeft, LegacyCounts, Reading, ParamTypes, Params, ReadTypes
    <3>2. fmt = "legacy" /\ params' # params =>
            params' = [start |-> params.start + retrieved, after |-> NoLine,
                       count |-> CountLeft(params)]
      BY <1>5 DEF StreamFails, Retry
    <3>3. fmt # "legacy" => params' = params
      BY <1>5 DEF StreamFails, Retry
    <3> QED
      BY <3>1, <3>2, <3>3 DEF ParamTypes, Params, ReadTypes
  <2>2. CallTypes'
    BY <1>5 DEF StreamFails, Retry, NextAttempt, CountLeft, CallTypes, ReadTypes, ListsLeft
  <2>3. ReadTypes'
    <3>1. attempt' \in 0..MaxAttempts
      BY <1>5 DEF StreamFails, Retry, NextAttempt, ReadTypes, AttemptsLeft
    <3> QED
      BY <1>5, <3>1 DEF StreamFails, ReadTypes
  <2>4. AttemptsLeft'
    BY <1>5 DEF StreamFails, Retry, NextAttempt, CountLeft, AttemptsLeft
  <2>5. ListsLeft'
    BY <1>5 DEF StreamFails, Retry, NextAttempt, CountLeft, ListsLeft, CallTypes, ReadTypes, Reading
  <2>6. LegacyCounts'
    BY <1>5 DEF StreamFails, Retry, NextAttempt, CountLeft, LegacyCounts, ListsLeft, CallTypes, ReadTypes, ParamTypes, Params, Reading
  <2> QED
    BY <2>1, <2>2, <2>3, <2>4, <2>5, <2>6
<1>6. CASE RequestServed
  <2>a. body' \in Seq(Nat) /\ (fmt # "msgpack" => Len(body') <= params.count)
    <3>1. size \in Nat
      BY DEF CallTypes
    <3>2. Served(params) \in Seq(Nat) /\ Len(Served(params)) <= params.count
          /\ Packed(Served(params)) \in Seq(Nat)
      BY <3>1, ServedItems, PackedBytes DEF ParamTypes
    <3> QED
      BY <1>6, <3>2 DEF RequestServed
  <2>1. ParamTypes'
    BY <1>6 DEF RequestServed, ParamTypes, Params, CallTypes, ReadTypes, ListsLeft, LegacyCounts, Reading
  <2>2. CallTypes'
    BY <1>6 DEF RequestServed, CallTypes, ReadTypes, ListsLeft
  <2>3. ReadTypes'
    BY <2>a, <1>6 DEF RequestServed, CallTypes, ReadTypes, AttemptsLeft, ParamTypes, Params, NoLine
  <2>4. AttemptsLeft'
    BY <1>6 DEF RequestServed, AttemptsLeft
  <2>5. ListsLeft'
    BY <1>6 DEF RequestServed, ListsLeft, CallTypes, ReadTypes, Reading
  <2>6. LegacyCounts'
    BY <2>a, <1>6 DEF RequestServed, LegacyCounts, ListsLeft, CallTypes, ReadTypes, ParamTypes, Params, Reading
  <2> QED
    BY <2>1, <2>2, <2>3, <2>4, <2>5, <2>6
<1>7. ASSUME NEW why \in {"busy", "status", "connection", "other"}, RequestAgain(why)
      PROVE  CountersInv'
  <2>1. ParamTypes'
    BY <1>7 DEF RequestAgain, ParamTypes, Params, CallTypes, ReadTypes, ListsLeft, LegacyCounts, Reading
  <2>2. CallTypes'
    BY <1>7 DEF RequestAgain, CallTypes, ReadTypes, ListsLeft
  <2>3. ReadTypes'
    BY <1>7 DEF RequestAgain, CallTypes, ReadTypes, AttemptsLeft, ParamTypes, Params, NoLine
  <2>4. AttemptsLeft'
    BY <1>7 DEF RequestAgain, AttemptsLeft
  <2>5. ListsLeft'
    BY <1>7 DEF RequestAgain, ListsLeft, CallTypes, ReadTypes, Reading
  <2>6. LegacyCounts'
    BY <1>7 DEF RequestAgain, LegacyCounts, ListsLeft, CallTypes, ReadTypes, ParamTypes, Params, Reading
  <2> QED
    BY <2>1, <2>2, <2>3, <2>4, <2>5, <2>6
<1>8. ASSUME RequestEnds
      PROVE  CountersInv'
  <2>1. ParamTypes'
    <3>1. fmt = "legacy" /\ params' # params => CountLeft(params) \in Nat
      BY <1>8 DEF RequestEnds, Retry, CountLeft, LegacyCounts, Reading, ParamTypes, Params, ReadTypes
    <3>2. fmt = "legacy" /\ params' # params =>
            params' = [start |-> params.start + retrieved, after |-> NoLine,
                       count |-> CountLeft(params)]
      BY <1>8 DEF RequestEnds, Retry
    <3>3. fmt # "legacy" => params' = params
      BY <1>8 DEF RequestEnds, Retry
    <3> QED
      BY <3>1, <3>2, <3>3 DEF ParamTypes, Params, ReadTypes
  <2>2. CallTypes'
    BY <1>8 DEF RequestEnds, Retry, NextAttempt, CountLeft, CallTypes, ReadTypes, ListsLeft
  <2>3. ReadTypes'
    <3>1. attempt' \in 0..MaxAttempts
      BY <1>8 DEF RequestEnds, Retry, NextAttempt, ReadTypes, AttemptsLeft
    <3> QED
      BY <1>8, <3>1 DEF RequestEnds, ReadTypes
  <2>4. AttemptsLeft'
    BY <1>8 DEF RequestEnds, Retry, NextAttempt, CountLeft, AttemptsLeft
  <2>5. ListsLeft'
    BY <1>8 DEF RequestEnds, Retry, NextAttempt, CountLeft, ListsLeft, CallTypes, ReadTypes, Reading
  <2>6. LegacyCounts'
    <3>1. fmt = "legacy" => retrieved = 0 /\ Len(got) + params.count = limit
      BY <1>8 DEF RequestEnds, LegacyCounts, Reading, CallTypes, ReadTypes, ParamTypes, Params
    <3>2. CASE pc' \in {"raised", "astray"}
      BY <1>8, <3>2 DEF RequestEnds, LegacyCounts, Reading
    <3>3. CASE Retry /\ fmt = "legacy"
      <4>1. params'.count = params.count - retrieved
        BY <1>8, <3>3 DEF RequestEnds, Retry, CountLeft, ParamTypes, Params
      <4> QED
        BY <1>8, <3>1, <3>3, <4>1 DEF RequestEnds, Retry, LegacyCounts, Reading, ReadTypes,
           ParamTypes, Params
    <3>4. CASE fmt # "legacy"
      BY <1>8, <3>4 DEF RequestEnds, LegacyCounts
    <3> QED
      BY <1>8, <3>2, <3>3, <3>4 DEF RequestEnds
  <2> QED
    BY <2>1, <2>2, <2>3, <2>4, <2>5, <2>6
<1>9. CASE ReceiveLine
  <2>1. ParamTypes'
    BY <1>9 DEF ReceiveLine, ParamTypes, Params, CallTypes, ReadTypes, ListsLeft, LegacyCounts, Reading
  <2>2. CallTypes'
    BY <1>9 DEF ReceiveLine, CallTypes, ReadTypes, ListsLeft
  <2>3. ReadTypes'
    BY <1>9 DEF ReceiveLine, CallTypes, ReadTypes, AttemptsLeft, ParamTypes, Params, NoLine
  <2>4. AttemptsLeft'
    BY <1>9 DEF ReceiveLine, AttemptsLeft
  <2>5. ListsLeft'
    BY <1>9 DEF ReceiveLine, ListsLeft, CallTypes, ReadTypes, Reading
  <2>6. LegacyCounts'
    BY <1>9 DEF ReceiveLine, LegacyCounts, ListsLeft, CallTypes, ReadTypes, ParamTypes, Params, Reading
  <2> QED
    BY <2>1, <2>2, <2>3, <2>4, <2>5, <2>6
<1>10. ASSUME NEW n \in 1..MaxChunk, ReceiveBytes(n)
       PROVE  CountersInv'
  <2>a. /\ got' \in Seq(Int) /\ buffer' \in Seq(Nat) /\ body' \in Seq(Nat)
        /\ fmt = "msgpack"
    <3> DEFINE fed == buffer \o SubSeq(body, 1, n)
    <3>1. SubSeq(body, 1, n) \in Seq(Nat) /\ SubSeq(body, n + 1, Len(body)) \in Seq(Nat)
      BY <1>10, SubSeqTypes DEF ReceiveBytes, ReadTypes
    <3>2. fed \in Seq(Nat)
      BY <3>1 DEF ReadTypes
    <3>3. Unpacked(fed) \in Seq(Int) /\ Incomplete(fed) \in Seq(Nat)
      BY <3>2, UnpackedTypes
    <3>4. /\ got' = got \o Unpacked(fed) /\ buffer' = Incomplete(fed)
          /\ body' = SubSeq(body, n + 1, Len(body)) /\ fmt = "msgpack"
      BY <1>10 DEF ReceiveBytes
    <3> HIDE DEF fed
    <3> QED
      BY <3>1, <3>3, <3>4 DEF ReadTypes
  <2>1. ParamTypes'
    BY <1>10 DEF ReceiveBytes, ParamTypes, Params, CallTypes, ReadTypes, ListsLeft, LegacyCounts, Reading
  <2>2. CallTypes'
    BY <1>10 DEF ReceiveBytes, CallTypes, ReadTypes, ListsLeft
  <2>3. ReadTypes'
    BY <2>a, <1>10 DEF ReceiveBytes, CallTypes, ReadTypes, AttemptsLeft, ParamTypes, Params, NoLine
  <2>4. AttemptsLeft'
    BY <1>10 DEF ReceiveBytes, AttemptsLeft
  <2>5. ListsLeft'
    BY <1>10 DEF ReceiveBytes, ListsLeft, CallTypes, ReadTypes, Reading
  <2>6. LegacyCounts'
    BY <2>a, <1>10 DEF ReceiveBytes, LegacyCounts, ListsLeft, CallTypes, ReadTypes, ParamTypes, Params, Reading
  <2> QED
    BY <2>1, <2>2, <2>3, <2>4, <2>5, <2>6
<1>11. CASE StreamEnds
  <2>1. ParamTypes'
    BY <1>11 DEF StreamEnds, ParamTypes, Params, CallTypes, ReadTypes, ListsLeft, LegacyCounts, Reading
  <2>2. CallTypes'
    BY <1>11 DEF StreamEnds, CallTypes, ReadTypes, ListsLeft
  <2>3. ReadTypes'
    BY <1>11 DEF StreamEnds, CallTypes, ReadTypes, AttemptsLeft, ParamTypes, Params, NoLine
  <2>4. AttemptsLeft'
    BY <1>11 DEF StreamEnds, AttemptsLeft
  <2>5. ListsLeft'
    BY <1>11 DEF StreamEnds, ListsLeft, CallTypes, ReadTypes, Reading
  <2>6. LegacyCounts'
    BY <1>11 DEF StreamEnds, LegacyCounts, ListsLeft, CallTypes, ReadTypes, ParamTypes, Params, Reading
  <2> QED
    BY <2>1, <2>2, <2>3, <2>4, <2>5, <2>6
<1>12. CASE EndIter
  <2>1. ParamTypes'
    BY <1>12 DEF EndIter, ParamTypes, Params, CallTypes, ReadTypes, ListsLeft, LegacyCounts, Reading
  <2>2. CallTypes'
    BY <1>12 DEF EndIter, CallTypes, ReadTypes, ListsLeft
  <2>3. ReadTypes'
    BY <1>12 DEF EndIter, CallTypes, ReadTypes, AttemptsLeft, ParamTypes, Params, NoLine
  <2>4. AttemptsLeft'
    BY <1>12 DEF EndIter, AttemptsLeft
  <2>5. ListsLeft'
    BY <1>12 DEF EndIter, ListsLeft, CallTypes, ReadTypes, Reading
  <2>6. LegacyCounts'
    BY <1>12 DEF EndIter, LegacyCounts, ListsLeft, CallTypes, ReadTypes, ParamTypes, Params, Reading
  <2> QED
    BY <2>1, <2>2, <2>3, <2>4, <2>5, <2>6
<1>13. CASE EndChunk
  <2>1. ParamTypes'
    BY <1>13 DEF EndChunk, Enough, Advance, ParamTypes, Params, CallTypes, ReadTypes, ListsLeft, LegacyCounts, Reading
  <2>2. CallTypes'
    BY <1>13 DEF EndChunk, Enough, Advance, CallTypes, ReadTypes, ListsLeft
  <2>3. ReadTypes'
    BY <1>13 DEF EndChunk, Enough, Advance, CallTypes, ReadTypes, AttemptsLeft, ParamTypes, Params, NoLine
  <2>4. AttemptsLeft'
    BY <1>13 DEF EndChunk, Enough, Advance, AttemptsLeft
  <2>5. ListsLeft'
    <3>1. processed' = Len(out') /\ processed' \in Nat
      <4>1. out \in Seq(Int) /\ got \in Seq(Int) /\ processed = Len(out)
        BY <1>13 DEF EndChunk, ListsLeft, CallTypes, ReadTypes
      <4>2. Len(out \o got) = Len(out) + Len(got)
        BY <4>1, ConcatProperties
      <4> QED
        BY <1>13, <4>1, <4>2 DEF EndChunk
    <3>2. pc' \in {"done", "chunk"} /\ (pc' = "chunk" => processed' < limit)
      BY <1>13, <3>1 DEF EndChunk, Enough, CallTypes
    <3> QED
      BY <1>13, <3>1, <3>2 DEF EndChunk, ListsLeft, CallTypes, Reading
  <2>6. LegacyCounts'
    BY <1>13 DEF EndChunk, Enough, Advance, LegacyCounts, ListsLeft, CallTypes, ReadTypes, ParamTypes, Params, Reading
  <2> QED
    BY <2>1, <2>2, <2>3, <2>4, <2>5, <2>6
<1>14. CASE NextChunk
  <2>1. ParamTypes'
    BY <1>14 DEF NextChunk, Begin, Lesser, ParamTypes, Params, CallTypes, ReadTypes, ListsLeft, LegacyCounts, Reading
  <2>2. CallTypes'
    BY <1>14 DEF NextChunk, Begin, Lesser, CallTypes, ReadTypes, ListsLeft
  <2>3. ReadTypes'
    BY <1>14 DEF NextChunk, Begin, Lesser, CallTypes, ReadTypes, AttemptsLeft, ParamTypes, Params, NoLine
  <2>4. AttemptsLeft'
    BY <1>14 DEF NextChunk, Begin, Lesser, AttemptsLeft
  <2>5. ListsLeft'
    BY <1>14 DEF NextChunk, Begin, Lesser, ListsLeft, CallTypes, ReadTypes, Reading
  <2>6. LegacyCounts'
    BY <1>14 DEF NextChunk, Begin, Lesser, LegacyCounts, ListsLeft, CallTypes, ReadTypes, ParamTypes, Params, Reading
  <2> QED
    BY <2>1, <2>2, <2>3, <2>4, <2>5, <2>6
<1>15. CASE UNCHANGED vars
  <2>1. ParamTypes'
    BY <1>15 DEF vars, ParamTypes, Params, CallTypes, ReadTypes, ListsLeft, LegacyCounts, Reading
  <2>2. CallTypes'
    BY <1>15 DEF vars, CallTypes, ReadTypes, ListsLeft
  <2>3. ReadTypes'
    BY <1>15 DEF vars, CallTypes, ReadTypes, AttemptsLeft, ParamTypes, Params, NoLine
  <2>4. AttemptsLeft'
    BY <1>15 DEF vars, AttemptsLeft
  <2>5. ListsLeft'
    BY <1>15 DEF vars, ListsLeft, CallTypes, ReadTypes, Reading
  <2>6. LegacyCounts'
    BY <1>15 DEF vars, LegacyCounts, ListsLeft, CallTypes, ReadTypes, ParamTypes, Params, Reading
  <2> QED
    BY <2>1, <2>2, <2>3, <2>4, <2>5, <2>6
<1> QED
  BY <1>1, <1>2, <1>3, <1>4, <1>5, <1>6, <1>7, <1>8, <1>9, <1>10, <1>11, <1>12, <1>13,
     <1>14, <1>15, FailuresEnd DEF Next, Reader
----------------------------------------------------------------------------
\* The order of the items.
LEMMA InitOrder == Init => OrderInv
<1> SUFFICES ASSUME Init PROVE OrderInv
  OBVIOUS
<1>1. Consecutive(got, Base)
  BY DEF Init, Consecutive
<1> QED
  BY <1>1 DEF Init, OrderInv, ListsInOrder, CurrentInOrder, JsonResumes, LegacyResumes,
     MsgpackOnce, Reading

LEMMA NextOrder ==
  ASSUME Recovers, CountersInv, OrderInv, [Next]_vars
  PROVE  OrderInv'
<1> USE ConstantTypes DEF CountersInv, TypeOK, OrderInv, callVars, chunkVars, retryVars
<1>1. CASE ItemArrives
  <2>1. ListsInOrder'
    BY <1>1 DEF ItemArrives, ListsInOrder, Consecutive, ListsLeft, CallTypes, ReadTypes, ParamTypes, Params
  <2>2. CurrentInOrder'
    BY <1>1 DEF ItemArrives, CurrentInOrder, Consecutive, Base, Reading, ListsLeft, CallTypes, ReadTypes, ParamTypes, Params
  <2>3. JsonResumes'
    BY <1>1 DEF ItemArrives, JsonResumes, Due, Base, Reading, From, Greater, NoLine, ListsLeft, CallTypes, ReadTypes, ParamTypes, Params
  <2>4. LegacyResumes'
    BY <1>1 DEF ItemArrives, LegacyResumes, Due, Base, Reading, ListsLeft, CallTypes, ReadTypes, ParamTypes, Params
  <2>5. MsgpackOnce'
    BY <1>1 DEF ItemArrives, MsgpackOnce, Due, Base, Reading, ListsLeft, CallTypes, ReadTypes, ParamTypes, Params
  <2> QED
    BY <2>1, <2>2, <2>3, <2>4, <2>5
<1>2. ASSUME NEW a \in Firsts, NEW n \in Limits \cup {Unlimited}, Iter(a, n)
      PROVE  OrderInv'
  <2>1. ListsInOrder'
    BY <1>2 DEF Iter, Calls, Begin, ListsInOrder, Consecutive, ListsLeft, CallTypes, ReadTypes, ParamTypes, Params
  <2>2. CurrentInOrder'
    BY <1>2 DEF Iter, Calls, Begin, CurrentInOrder, Consecutive, Base, Reading, ListsLeft, CallTypes, ReadTypes, ParamTypes, Params
  <2>3. JsonResumes'
    BY <1>2 DEF Iter, Calls, Begin, JsonResumes, Due, Base, Reading, From, Greater, NoLine, ListsLeft, CallTypes, ReadTypes, ParamTypes, Params
  <2>4. LegacyResumes'
    BY <1>2 DEF Iter, Calls, Begin, LegacyResumes, Due, Base, Reading, ListsLeft, CallTypes, ReadTypes, ParamTypes, Params
  <2>5. MsgpackOnce'
    BY <1>2 DEF Iter, Calls, Begin, MsgpackOnce, Due, Base, Reading, ListsLeft, CallTypes, ReadTypes, ParamTypes, Params
  <2> QED
    BY <2>1, <2>2, <2>3, <2>4, <2>5
<1>3. ASSUME NEW a \in Firsts, NEW n \in Limits \cup {Unlimited}, NEW c \in Widths,
             ListIter(a, n, c)
      PROVE  OrderInv'
  <2>1. ListsInOrder'
    BY <1>3 DEF ListIter, Calls, ListsInOrder, Consecutive, ListsLeft, CallTypes, ReadTypes, ParamTypes, Params
  <2>2. CurrentInOrder'
    BY <1>3 DEF ListIter, Calls, CurrentInOrder, Consecutive, Base, Reading, ListsLeft, CallTypes, ReadTypes, ParamTypes, Params
  <2>3. JsonResumes'
    BY <1>3 DEF ListIter, Calls, JsonResumes, Due, Base, Reading, From, Greater, NoLine, ListsLeft, CallTypes, ReadTypes, ParamTypes, Params
  <2>4. LegacyResumes'
    BY <1>3 DEF ListIter, Calls, LegacyResumes, Due, Base, Reading, ListsLeft, CallTypes, ReadTypes, ParamTypes, Params
  <2>5. MsgpackOnce'
    BY <1>3 DEF ListIter, Calls, MsgpackOnce, Due, Base, Reading, ListsLeft, CallTypes, ReadTypes, ParamTypes, Params
  <2> QED
    BY <2>1, <2>2, <2>3, <2>4, <2>5
<1>4. CASE Attempt
  <2>1. ListsInOrder'
    BY <1>4 DEF Attempt, Resumed, ListsInOrder, Consecutive, ListsLeft, CallTypes, ReadTypes, ParamTypes, Params
  <2>2. CurrentInOrder'
    BY <1>4 DEF Attempt, Resumed, CurrentInOrder, Consecutive, Base, Reading, ListsLeft, CallTypes, ReadTypes, ParamTypes, Params
  <2>3. JsonResumes'
    <3>1. CASE fmt # "json"
      BY <1>4, <3>1 DEF Attempt, JsonResumes
    <3>2. CASE fmt = "json" /\ attempt < MaxAttempts
      <4>1. /\ UNCHANGED <<fmt, got, last, first, start, width>> /\ pc' = "request"
            /\ params' = Resumed(params) /\ pc = "attempt"
        BY <1>4, <3>2 DEF Attempt
      <4>2. Base' = Base /\ Due' = Due /\ Base \in Nat /\ Due = Base + Len(got) /\ Due \in Nat
        BY <4>1 DEF Base, Due, CallTypes, ReadTypes
      <4>3. last = IF got = <<>> THEN NoLine ELSE Due - 1
        BY <3>2, <4>1 DEF JsonResumes, Reading
      <4>4. CASE got = <<>>
        <5>1. params' = params /\ params.start = Base /\ params.after = NoLine /\ Due = Base
          BY <3>2, <4>1, <4>2, <4>3, <4>4 DEF Resumed, JsonResumes, Reading
        <5>2. From(params) = Base
          BY <4>2, <5>1 DEF From, Greater, NoLine
        <5> QED
          BY <4>1, <4>2, <4>3, <4>4, <5>1, <5>2 DEF JsonResumes
      <4>5. CASE got # <<>>
        <5>1. Len(got) > 0 /\ last = Due - 1 /\ last # NoLine
          BY <4>2, <4>3, <4>5 DEF NoLine, ReadTypes
        <5>2. params'.after = last /\ params'.start = 0
          BY <4>1, <5>1 DEF Resumed, ParamTypes, Params
        <5>3. From(params') = Due
          BY <4>2, <5>1, <5>2 DEF From, Greater
        <5> QED
          BY <4>1, <4>2, <4>3, <4>5, <5>3 DEF JsonResumes, From, Greater
      <4> QED
        BY <4>4, <4>5
    <3>3. CASE fmt = "json" /\ ~(attempt < MaxAttempts)
      BY <1>4, <3>3 DEF Attempt, JsonResumes, Reading
    <3> QED
      BY <3>1, <3>2, <3>3
  <2>4. LegacyResumes'
    BY <1>4 DEF Attempt, Resumed, LegacyResumes, Due, Base, Reading, ListsLeft, CallTypes, ReadTypes, ParamTypes, Params
  <2>5. MsgpackOnce'
    BY <1>4 DEF Attempt, Resumed, MsgpackOnce, Due, Base, Reading, ListsLeft, CallTypes, ReadTypes, ParamTypes, Params
  <2> QED
    BY <2>1, <2>2, <2>3, <2>4, <2>5
<1>5. CASE StreamFails
  <2>1. ListsInOrder'
    BY <1>5 DEF StreamFails, Retry, ListsInOrder, Consecutive, ListsLeft, CallTypes, ReadTypes, ParamTypes, Params
  <2>2. CurrentInOrder'
    BY <1>5 DEF StreamFails, Retry, CurrentInOrder, Consecutive, Base, Reading, ListsLeft, CallTypes, ReadTypes, ParamTypes, Params
  <2>3. JsonResumes'
    BY <1>5 DEF StreamFails, Retry, JsonResumes, Due, Base, Reading, From, Greater, NoLine, ListsLeft, CallTypes, ReadTypes, ParamTypes, Params
  <2>4. LegacyResumes'
    BY <1>5 DEF StreamFails, Retry, LegacyResumes, Due, Base, Reading, ListsLeft, CallTypes, ReadTypes, ParamTypes, Params
  <2>5. MsgpackOnce'
    BY <1>5 DEF Recovers, StreamFails, Retry, MsgpackOnce, Due, Base, Reading, ListsLeft, CallTypes, ReadTypes, ParamTypes, Params
  <2> QED
    BY <2>1, <2>2, <2>3, <2>4, <2>5
<1>6. CASE RequestServed
  <2>a. /\ From(params) \in Nat /\ Served(params) \in Seq(Nat)
        /\ Consecutive(Served(params), From(params))
    <3>1. size \in Nat /\ params \in Params
      BY DEF CallTypes, ParamTypes
    <3> QED
      BY <3>1, ServedItems
  <2>b. fmt = "msgpack" => Consecutive(Packed(Served(params)), 2 * From(params))
    BY <2>a, PackedBytes
  <2>1. ListsInOrder'
    BY <1>6 DEF RequestServed, ListsInOrder, Consecutive, ListsLeft, CallTypes, ReadTypes, ParamTypes, Params
  <2>2. CurrentInOrder'
    BY <1>6 DEF RequestServed, CurrentInOrder, Consecutive, Base, Reading, ListsLeft, CallTypes, ReadTypes, ParamTypes, Params
  <2>3. JsonResumes'
    BY <1>6, <2>a DEF RequestServed, JsonResumes, Due, Base, Reading
  <2>4. LegacyResumes'
    <3>1. fmt = "legacy" => From(params) = Due
      BY <1>6, <2>a DEF RequestServed, LegacyResumes, From, Greater, NoLine, Reading, Due, Base,
         CallTypes, ReadTypes, ParamTypes, Params
    <3> QED
      BY <1>6, <2>a, <3>1 DEF RequestServed, LegacyResumes, Due, Base, Reading
  <2>5. MsgpackOnce'
    <3>1. fmt = "msgpack" => From(params) = Due /\ got = <<>> /\ buffer = <<>>
      BY <1>6, <2>a DEF RequestServed, MsgpackOnce, From, Greater, NoLine, Reading, Due, Base,
         CallTypes, ReadTypes, ParamTypes, Params
    <3>2. fmt = "msgpack" => Consecutive((buffer \o body)', 2 * Due')
      <4>1. ASSUME fmt = "msgpack"
            PROVE  /\ Due' = Due /\ buffer' = <<>> /\ body' = Packed(Served(params))
                   /\ body' \in Seq(Nat)
        BY <1>6, <2>a, <3>1, <4>1, PackedBytes DEF RequestServed, Due, Base
      <4>2. ASSUME fmt = "msgpack" PROVE buffer' \o body' = body'
        BY <4>1, <4>2, ConcatEmptySeq
      <4> QED
        BY <2>b, <3>1, <4>1, <4>2
    <3> QED
      BY <1>6, <3>2 DEF RequestServed, MsgpackOnce, Base, Reading
  <2> QED
    BY <2>1, <2>2, <2>3, <2>4, <2>5
<1>7. ASSUME NEW why \in {"busy", "status", "connection", "other"}, RequestAgain(why)
      PROVE  OrderInv'
  <2>1. ListsInOrder'
    BY <1>7 DEF RequestAgain, ListsInOrder, Consecutive, ListsLeft, CallTypes, ReadTypes, ParamTypes, Params
  <2>2. CurrentInOrder'
    BY <1>7 DEF RequestAgain, CurrentInOrder, Consecutive, Base, Reading, ListsLeft, CallTypes, ReadTypes, ParamTypes, Params
  <2>3. JsonResumes'
    BY <1>7 DEF RequestAgain, JsonResumes, Due, Base, Reading, From, Greater, NoLine, ListsLeft, CallTypes, ReadTypes, ParamTypes, Params
  <2>4. LegacyResumes'
    BY <1>7 DEF RequestAgain, LegacyResumes, Due, Base, Reading, ListsLeft, CallTypes, ReadTypes, ParamTypes, Params
  <2>5. MsgpackOnce'
    BY <1>7 DEF RequestAgain, MsgpackOnce, Due, Base, Reading, ListsLeft, CallTypes, ReadTypes, ParamTypes, Params
  <2> QED
    BY <2>1, <2>2, <2>3, <2>4, <2>5
<1>8. ASSUME RequestEnds
      PROVE  OrderInv'
  <2>1. ListsInOrder'
    BY <1>8 DEF RequestEnds, Retry, ListsInOrder, Consecutive, ListsLeft, CallTypes, ReadTypes, ParamTypes, Params
  <2>2. CurrentInOrder'
    BY <1>8 DEF RequestEnds, Retry, CurrentInOrder, Consecutive, Base, Reading, ListsLeft, CallTypes, ReadTypes, ParamTypes, Params
  <2>3. JsonResumes'
    BY <1>8 DEF RequestEnds, Retry, JsonResumes, Due, Base, Reading, From, Greater, NoLine, ListsLeft, CallTypes, ReadTypes, ParamTypes, Params
  <2>4. LegacyResumes'
    BY <1>8 DEF RequestEnds, Retry, LegacyResumes, Due, Base, Reading, ListsLeft, CallTypes, ReadTypes, ParamTypes, Params
  <2>5. MsgpackOnce'
    BY <1>8 DEF RequestEnds, Retry, MsgpackOnce, Due, Base, Reading, ListsLeft, CallTypes, ReadTypes, ParamTypes, Params
  <2> QED
    BY <2>1, <2>2, <2>3, <2>4, <2>5
<1>9. CASE ReceiveLine
  <2>a. /\ body \in Seq(Int) /\ Due \in Int /\ Due = Base + Len(got) /\ Base \in Int
        /\ Consecutive(body, Due) /\ got \in Seq(Int) /\ Consecutive(got, Base)
        /\ fmt \in {"json", "legacy"} /\ pc = "stream"
    BY <1>9, ReaderAssumption DEF ReceiveLine, JsonResumes, LegacyResumes, CurrentInOrder, Due,
       Base, Reading, CallTypes, ReadTypes
  <2>b. Head(body) = Due /\ Consecutive(Tail(body), Due + 1)
    BY <1>9, <2>a, ConsecutiveTail DEF ReceiveLine
  <2>c. /\ Consecutive(got', Base') /\ Base' = Base /\ got' = Append(got, Due) /\ got' # <<>>
        /\ Due' = Due + 1
    <3>1. Base' = Base /\ got' = Append(got, Due)
      BY <1>9, <2>b DEF ReceiveLine, Base
    <3>2. Consecutive(Append(got, Due), Base)
      BY <2>a, ConsecutiveAppend
    <3>3. Append(got, Due) # <<>> /\ Len(Append(got, Due)) = Len(got) + 1
      BY <2>a, AppendProperties
    <3>4. Due' = Base + Len(got) + 1
      BY <3>1, <3>3, <2>a DEF Due
    <3> QED
      BY <2>a, <3>1, <3>2, <3>3, <3>4
  <2>1. ListsInOrder'
    BY <1>9 DEF ReceiveLine, ListsInOrder, Consecutive, ListsLeft, CallTypes, ReadTypes, ParamTypes, Params
  <2>2. CurrentInOrder'
    BY <2>c DEF CurrentInOrder
  <2>3. JsonResumes'
    BY <1>9, <2>a, <2>b, <2>c DEF ReceiveLine, JsonResumes, Reading
  <2>4. LegacyResumes'
    <3>1. fmt = "legacy" => params.start + retrieved' = Due'
      <4>1. retrieved \in Nat /\ params.start \in Nat
        BY DEF ReadTypes, ParamTypes, Params
      <4>2. fmt = "legacy" => params.start + retrieved = Due
        BY <1>9 DEF ReceiveLine, LegacyResumes, Reading
      <4>3. params' = params /\ retrieved' = retrieved + 1
        BY <1>9 DEF ReceiveLine
      <4> QED
        <5>1. Due' = Due + 1 /\ Due \in Int
          BY <2>a, <2>c
        <5> HIDE <1>9, <2>a, <2>b, <2>c
        <5> QED
          BY ONLY <4>1, <4>2, <4>3, <5>1
    <3> QED
      BY <1>9, <2>b, <2>c, <3>1 DEF ReceiveLine, LegacyResumes, Reading
  <2>5. MsgpackOnce'
    BY <1>9, <2>a DEF ReceiveLine, MsgpackOnce
  <2> QED
    BY <2>1, <2>2, <2>3, <2>4, <2>5
<1>10. ASSUME NEW n \in 1..MaxChunk, ReceiveBytes(n)
       PROVE  OrderInv'
  <2> DEFINE fed == buffer \o SubSeq(body, 1, n)
             rest == SubSeq(body, n + 1, Len(body))
  <2>a. /\ fmt = "msgpack" /\ pc = "stream" /\ n \in Nat /\ n <= Len(body)
        /\ got' = got \o Unpacked(fed) /\ buffer' = Incomplete(fed) /\ body' = rest
        /\ Base' = Base /\ pc' = pc /\ UNCHANGED <<fmt, params, last, width, start, first, out>>
    BY <1>10 DEF ReceiveBytes, Base
  <2>b. /\ Base \in Nat /\ got \in Seq(Int) /\ Due = Base + Len(got) /\ Due \in Nat
        /\ Consecutive(got, Base) /\ Consecutive(buffer \o body, 2 * Due)
        /\ buffer \in Seq(Nat) /\ body \in Seq(Nat)
    BY <2>a DEF Base, Due, CurrentInOrder, MsgpackOnce, Reading, CallTypes, ReadTypes
  <2>c. /\ fed \in Seq(Nat) /\ rest \in Seq(Nat) /\ fed \o rest = buffer \o body
    <3>1. /\ SubSeq(body, 1, n) \in Seq(Nat) /\ rest \in Seq(Nat)
          /\ SubSeq(body, 1, n) \o rest = body
      BY <2>a, <2>b, SubSeqTypes
    <3> HIDE DEF rest
    <3>2. fed \in Seq(Nat)
      BY <2>b, <3>1, ConcatProperties
    <3>3. (buffer \o SubSeq(body, 1, n)) \o rest = buffer \o (SubSeq(body, 1, n) \o rest)
      <4>1. buffer \in Seq(Nat) /\ SubSeq(body, 1, n) \in Seq(Nat) /\ rest \in Seq(Nat)
        BY <2>b, <3>1
      <4> QED
        BY <4>1, ConcatAssociative
    <3> QED
      BY <3>1, <3>2, <3>3
  <2> HIDE DEF fed, rest
  <2>d. Consecutive(fed, 2 * Due) /\ Consecutive(rest, 2 * Due + Len(fed))
    <3>1. Consecutive(fed \o rest, 2 * Due) /\ 2 * Due \in Int
      BY <2>b, <2>c
    <3> QED
      BY <2>c, <3>1, ConsecutiveSplit
  <2> DEFINE m == Len(fed) \div 2
  <2>e. /\ Unpacked(fed) \in Seq(Int) /\ Len(Unpacked(fed)) = m
        /\ Consecutive(Unpacked(fed), Due)
        /\ Incomplete(fed) \in Seq(Nat) /\ Len(Incomplete(fed)) = Len(fed) - 2 * m
        /\ Consecutive(Incomplete(fed), 2 * (Due + m))
        /\ m \in Nat /\ Len(fed) \in Nat
    BY <2>b, <2>c, <2>d, UnpackedItems
  <2> HIDE DEF m
  <2>f. Consecutive(got', Base') /\ Due' = Due + m
    <3>1. Len(got \o Unpacked(fed)) = Len(got) + m
      BY <2>b, <2>e, ConcatProperties
    <3> QED
      BY <2>a, <2>b, <2>e, <3>1, ConsecutiveConcat DEF Due
  <2>g. Consecutive((buffer \o body)', 2 * Due')
    <3>1. 2 * Due + Len(fed) = 2 * (Due + m) + Len(Incomplete(fed))
      BY <2>b, <2>e
    <3>2. Consecutive(Incomplete(fed) \o rest, 2 * (Due + m))
      <4>1. Incomplete(fed) \in Seq(Int) /\ rest \in Seq(Int) /\ 2 * (Due + m) \in Int
        BY <2>b, <2>c, <2>e, NaturalsAreIntegers
      <4>2. Consecutive(rest, 2 * (Due + m) + Len(Incomplete(fed)))
        BY <2>d, <3>1
      <4> QED
        BY <2>e, <4>1, <4>2, ConsecutiveConcat
    <3> QED
      BY <2>a, <2>f, <3>2
  <2>1. ListsInOrder'
    BY <2>a DEF ListsInOrder
  <2>2. CurrentInOrder'
    BY <2>f DEF CurrentInOrder
  <2>3. JsonResumes'
    BY <2>a DEF JsonResumes
  <2>4. LegacyResumes'
    BY <2>a DEF LegacyResumes
  <2>5. MsgpackOnce'
    BY <2>a, <2>g DEF MsgpackOnce, Reading
  <2> QED
    BY <2>1, <2>2, <2>3, <2>4, <2>5
<1>11. CASE StreamEnds
  <2>1. ListsInOrder'
    BY <1>11 DEF StreamEnds, ListsInOrder, Consecutive, ListsLeft, CallTypes, ReadTypes, ParamTypes, Params
  <2>2. CurrentInOrder'
    BY <1>11 DEF StreamEnds, CurrentInOrder, Consecutive, Base, Reading, ListsLeft, CallTypes, ReadTypes, ParamTypes, Params
  <2>3. JsonResumes'
    BY <1>11 DEF StreamEnds, JsonResumes, Due, Base, Reading, From, Greater, NoLine, ListsLeft, CallTypes, ReadTypes, ParamTypes, Params
  <2>4. LegacyResumes'
    BY <1>11 DEF StreamEnds, LegacyResumes, Due, Base, Reading, ListsLeft, CallTypes, ReadTypes, ParamTypes, Params
  <2>5. MsgpackOnce'
    BY <1>11 DEF StreamEnds, MsgpackOnce, Due, Base, Reading, ListsLeft, CallTypes, ReadTypes, ParamTypes, Params
  <2> QED
    BY <2>1, <2>2, <2>3, <2>4, <2>5
<1>12. CASE EndIter
  <2>1. ListsInOrder'
    BY <1>12 DEF EndIter, ListsInOrder, Consecutive, ListsLeft, CallTypes, ReadTypes, ParamTypes, Params
  <2>2. CurrentInOrder'
    BY <1>12 DEF EndIter, CurrentInOrder, Consecutive, Base, Reading, ListsLeft, CallTypes, ReadTypes, ParamTypes, Params
  <2>3. JsonResumes'
    BY <1>12 DEF EndIter, JsonResumes, Due, Base, Reading, From, Greater, NoLine, ListsLeft, CallTypes, ReadTypes, ParamTypes, Params
  <2>4. LegacyResumes'
    BY <1>12 DEF EndIter, LegacyResumes, Due, Base, Reading, ListsLeft, CallTypes, ReadTypes, ParamTypes, Params
  <2>5. MsgpackOnce'
    BY <1>12 DEF EndIter, MsgpackOnce, Due, Base, Reading, ListsLeft, CallTypes, ReadTypes, ParamTypes, Params
  <2> QED
    BY <2>1, <2>2, <2>3, <2>4, <2>5
<1>13. CASE EndChunk
  <2>a. /\ out \in Seq(Int) /\ got \in Seq(Int) /\ first \in Int /\ width > 0
        /\ Consecutive(out, first) /\ start = first + Len(out) /\ Consecutive(got, start)
        /\ out' = out \o got /\ start' = start + Len(got) /\ UNCHANGED <<first, width>>
    BY <1>13 DEF EndChunk, Advance, ListsInOrder, CurrentInOrder, Base, CallTypes, ReadTypes
  <2>b. Consecutive(out', first) /\ start' = first + Len(out')
    <3>1. Len(out \o got) = Len(out) + Len(got)
      BY <2>a, ConcatProperties
    <3> QED
      BY <2>a, <3>1, ConsecutiveConcat
  <2>1. ListsInOrder'
    BY <2>a, <2>b DEF ListsInOrder
  <2>2. CurrentInOrder'
    BY <1>13 DEF EndChunk, Advance, CurrentInOrder, Consecutive, Base, Reading, ListsLeft, CallTypes, ReadTypes, ParamTypes, Params
  <2>3. JsonResumes'
    BY <1>13 DEF EndChunk, Advance, JsonResumes, Due, Base, Reading, From, Greater, NoLine, ListsLeft, CallTypes, ReadTypes, ParamTypes, Params
  <2>4. LegacyResumes'
    BY <1>13 DEF EndChunk, Advance, LegacyResumes, Due, Base, Reading, ListsLeft, CallTypes, ReadTypes, ParamTypes, Params
  <2>5. MsgpackOnce'
    BY <1>13 DEF EndChunk, Advance, MsgpackOnce, Due, Base, Reading, ListsLeft, CallTypes, ReadTypes, ParamTypes, Params
  <2> QED
    BY <2>1, <2>2, <2>3, <2>4, <2>5
<1>14. CASE NextChunk
  <2>a. /\ width' > 0 /\ Base' = start /\ got' = <<>> /\ Due' = start /\ buffer' = <<>>
        /\ pc' = "attempt" /\ params'.start = start /\ params'.after = NoLine
        /\ last' = NoLine /\ start \in Nat
    BY <1>14 DEF NextChunk, Begin, Lesser, Base, Due, ListsLeft, CallTypes
  <2>1. ListsInOrder'
    BY <1>14 DEF NextChunk, Begin, ListsInOrder, Consecutive, ListsLeft, CallTypes, ReadTypes, ParamTypes, Params
  <2>2. CurrentInOrder'
    BY <1>14 DEF NextChunk, Begin, CurrentInOrder, Consecutive, Base, Reading, ListsLeft, CallTypes, ReadTypes, ParamTypes, Params
  <2>3. JsonResumes'
    BY <2>a DEF JsonResumes
  <2>4. LegacyResumes'
    BY <1>14 DEF NextChunk, LegacyResumes, ListsLeft
  <2>5. MsgpackOnce'
    BY <2>a DEF MsgpackOnce
  <2> QED
    BY <2>1, <2>2, <2>3, <2>4, <2>5
<1>15. CASE UNCHANGED vars
  <2>1. ListsInOrder'
    BY <1>15 DEF vars, ListsInOrder, Consecutive, ListsLeft, CallTypes, ReadTypes, ParamTypes, Params
  <2>2. CurrentInOrder'
    BY <1>15 DEF vars, CurrentInOrder, Consecutive, Base, Reading, ListsLeft, CallTypes, ReadTypes, ParamTypes, Params
  <2>3. JsonResumes'
    BY <1>15 DEF vars, JsonResumes, Due, Base, Reading, From, Greater, NoLine, ListsLeft, CallTypes, ReadTypes, ParamTypes, Params
  <2>4. LegacyResumes'
    BY <1>15 DEF vars, LegacyResumes, Due, Base, Reading, ListsLeft, CallTypes, ReadTypes, ParamTypes, Params
  <2>5. MsgpackOnce'
    BY <1>15 DEF vars, MsgpackOnce, Due, Base, Reading, ListsLeft, CallTypes, ReadTypes, ParamTypes, Params
  <2> QED
    BY <2>1, <2>2, <2>3, <2>4, <2>5
<1> QED
  BY <1>1, <1>2, <1>3, <1>4, <1>5, <1>6, <1>7, <1>8, <1>9, <1>10, <1>11, <1>12, <1>13,
     <1>14, <1>15, FailuresEnd DEF Next, Reader
----------------------------------------------------------------------------
\* The caller's count.
LEMMA InitCount == Init => CountInv
BY ConstantTypes DEF Init, CountInv, MsgpackCounts, GotKept, Asked, Reading

LEMMA NextCount ==
  ASSUME Recovers, CountersInv, OrderInv, CountInv, [Next]_vars
  PROVE  CountInv'
<1> USE ConstantTypes DEF CountersInv, TypeOK, CountInv, callVars, chunkVars, retryVars
<1>1. CASE ItemArrives
  <2>1. MsgpackCounts'
    BY <1>1 DEF ItemArrives, MsgpackCounts, Asked, Reading, OrderInv, MsgpackOnce, ListsLeft, CallTypes, ReadTypes, ParamTypes, Params
  <2>2. GotKept'
    BY <1>1 DEF ItemArrives, GotKept, Asked, Reading, LegacyCounts, ListsLeft, CallTypes, ReadTypes, ParamTypes, Params
  <2> QED
    BY <2>1, <2>2
<1>2. ASSUME NEW a \in Firsts, NEW n \in Limits \cup {Unlimited}, Iter(a, n)
      PROVE  CountInv'
  <2>1. MsgpackCounts'
    BY <1>2 DEF Iter, Calls, Begin, MsgpackCounts, Asked, Reading, OrderInv, MsgpackOnce, ListsLeft, CallTypes, ReadTypes, ParamTypes, Params
  <2>2. GotKept'
    BY <1>2 DEF Iter, Calls, Begin, GotKept, Asked, Reading, LegacyCounts, ListsLeft, CallTypes, ReadTypes, ParamTypes, Params
  <2> QED
    BY <2>1, <2>2
<1>3. ASSUME NEW a \in Firsts, NEW n \in Limits \cup {Unlimited}, NEW c \in Widths,
             ListIter(a, n, c)
      PROVE  CountInv'
  <2>1. MsgpackCounts'
    BY <1>3 DEF ListIter, Calls, MsgpackCounts, Asked, Reading, OrderInv, MsgpackOnce, ListsLeft, CallTypes, ReadTypes, ParamTypes, Params
  <2>2. GotKept'
    BY <1>3 DEF ListIter, Calls, GotKept, Asked, Reading, LegacyCounts, ListsLeft, CallTypes, ReadTypes, ParamTypes, Params
  <2> QED
    BY <2>1, <2>2
<1>4. CASE Attempt
  <2>1. MsgpackCounts'
    BY <1>4 DEF Attempt, Resumed, MsgpackCounts, Asked, Reading, OrderInv, MsgpackOnce, ListsLeft, CallTypes, ReadTypes, ParamTypes, Params
  <2>2. GotKept'
    BY <1>4 DEF Attempt, Resumed, GotKept, Asked, Reading, LegacyCounts, ListsLeft, CallTypes, ReadTypes, ParamTypes, Params
  <2> QED
    BY <2>1, <2>2
<1>5. CASE StreamFails
  <2>1. MsgpackCounts'
    BY <1>5 DEF Recovers, StreamFails, Retry, MsgpackCounts, Asked, Reading, OrderInv, MsgpackOnce, ListsLeft, CallTypes, ReadTypes, ParamTypes, Params
  <2>2. GotKept'
    BY <1>5 DEF StreamFails, Retry, GotKept, Asked, Reading, LegacyCounts, ListsLeft, CallTypes, ReadTypes, ParamTypes, Params
  <2> QED
    BY <2>1, <2>2
<1>6. CASE RequestServed
  <2>a. ASSUME fmt = "msgpack"
        PROVE  /\ got' = <<>> /\ buffer' = <<>> /\ body' \in Seq(Nat)
               /\ Len(body') <= 2 * Asked /\ Asked' = Asked
    <3>1. got = <<>> /\ buffer = <<>> /\ params.count = Asked /\ size \in Nat /\ params \in Params
      BY <1>6, <2>a DEF RequestServed, OrderInv, MsgpackOnce, MsgpackCounts, Reading, CallTypes,
         ParamTypes
    <3>2. /\ Served(params) \in Seq(Nat) /\ Len(Served(params)) <= params.count
          /\ From(params) \in Nat /\ Consecutive(Served(params), From(params))
      BY <3>1, ServedItems
    <3>3. /\ Packed(Served(params)) \in Seq(Nat)
          /\ Len(Packed(Served(params))) = 2 * Len(Served(params))
      BY <3>2, PackedBytes
    <3>4. Asked \in Nat
      BY DEF Asked, CallTypes
    <3> QED
      BY <1>6, <2>a, <3>1, <3>2, <3>3, <3>4 DEF RequestServed, Asked
  <2>1. MsgpackCounts'
    <3>1. CASE fmt = "msgpack"
      <4>1. body' = <<>> \o body'
        BY <2>a, <3>1, ConcatEmptySeq
      <4> QED
        BY <1>6, <2>a, <3>1, <4>1 DEF RequestServed, MsgpackCounts, Reading
    <3>2. CASE fmt # "msgpack"
      BY <1>6, <3>2 DEF RequestServed, MsgpackCounts
    <3> QED
      BY <3>1, <3>2
  <2>2. GotKept'
    BY <1>6 DEF RequestServed, GotKept, Asked, Reading, LegacyCounts, ListsLeft, CallTypes, ReadTypes, ParamTypes, Params
  <2> QED
    BY <2>1, <2>2
<1>7. ASSUME NEW why \in {"busy", "status", "connection", "other"}, RequestAgain(why)
      PROVE  CountInv'
  <2>1. MsgpackCounts'
    BY <1>7 DEF RequestAgain, MsgpackCounts, Asked, Reading, OrderInv, MsgpackOnce, ListsLeft, CallTypes, ReadTypes, ParamTypes, Params
  <2>2. GotKept'
    BY <1>7 DEF RequestAgain, GotKept, Asked, Reading, LegacyCounts, ListsLeft, CallTypes, ReadTypes, ParamTypes, Params
  <2> QED
    BY <2>1, <2>2
<1>8. ASSUME RequestEnds
      PROVE  CountInv'
  <2>1. MsgpackCounts'
    BY <1>8 DEF RequestEnds, Retry, MsgpackCounts, Asked, Reading, OrderInv, MsgpackOnce, ListsLeft, CallTypes, ReadTypes, ParamTypes, Params
  <2>2. GotKept'
    BY <1>8 DEF RequestEnds, Retry, GotKept, Asked, Reading, LegacyCounts, ListsLeft, CallTypes, ReadTypes, ParamTypes, Params
  <2> QED
    BY <2>1, <2>2
<1>9. CASE ReceiveLine
  <2>1. MsgpackCounts'
    BY <1>9 DEF ReceiveLine, MsgpackCounts, Asked, Reading, OrderInv, MsgpackOnce, ListsLeft, CallTypes, ReadTypes, ParamTypes, Params
  <2>2. GotKept'
    <3>1. /\ got \in Seq(Int) /\ body \in Seq(Nat) /\ body # <<>> /\ fmt \in {"json", "legacy"}
          /\ retrieved \in Nat /\ params.count \in Nat
      BY <1>9, ReaderAssumption DEF ReceiveLine, CallTypes, ReadTypes, ParamTypes, Params
    <3>2. fmt = "legacy" => /\ width = 0 /\ retrieved + Len(body) <= params.count
                            /\ Len(got) - retrieved + params.count = limit
      BY <1>9 DEF ReceiveLine, LegacyCounts, ListsLeft, Reading
    <3>3. Len(body) >= 1 /\ got' = Append(got, Head(body)) /\ Len(got') = Len(got) + 1
      BY <1>9, <3>1 DEF ReceiveLine
    <3>4. fmt = "legacy" => Len(got') <= limit
      BY <3>1, <3>2, <3>3 DEF CallTypes
    <3> QED
      BY <1>9, <3>1, <3>2, <3>4 DEF ReceiveLine, GotKept, Asked
  <2> QED
    BY <2>1, <2>2
<1>10. ASSUME NEW n \in 1..MaxChunk, ReceiveBytes(n)
       PROVE  CountInv'
  <2> DEFINE fed == buffer \o SubSeq(body, 1, n)
             rest == SubSeq(body, n + 1, Len(body))
  <2>a. /\ fmt = "msgpack" /\ pc = "stream" /\ n \in Nat /\ n <= Len(body)
        /\ got' = got \o Unpacked(fed) /\ buffer' = Incomplete(fed) /\ body' = rest
        /\ Asked' = Asked /\ pc' = pc /\ UNCHANGED <<fmt, params, width, limit, out>>
    BY <1>10 DEF ReceiveBytes, Asked
  <2>b. /\ got \in Seq(Int) /\ buffer \in Seq(Nat) /\ body \in Seq(Nat) /\ Asked \in Nat
        /\ 2 * Len(got) + Len(buffer \o body) <= 2 * Asked /\ params.count = Asked
        /\ Due \in Nat /\ Consecutive(buffer \o body, 2 * Due)
    BY <2>a DEF MsgpackCounts, OrderInv, MsgpackOnce, Asked, Due, Base, Reading, CallTypes,
       ReadTypes
  <2>c. /\ fed \in Seq(Nat) /\ rest \in Seq(Nat)
        /\ Len(fed) + Len(rest) = Len(buffer \o body)
    <3>1. /\ SubSeq(body, 1, n) \in Seq(Nat) /\ rest \in Seq(Nat)
          /\ Len(SubSeq(body, 1, n)) = n /\ Len(rest) = Len(body) - n
      BY <2>a, <2>b, SubSeqTypes
    <3>2. fed \in Seq(Nat) /\ Len(fed) = Len(buffer) + n
      BY <2>b, <3>1, ConcatProperties
    <3>3. Len(buffer \o body) = Len(buffer) + Len(body)
      BY <2>b, ConcatProperties
    <3>4. Len(buffer) \in Nat /\ Len(body) \in Nat
      BY <2>b
    <3> HIDE DEF fed, rest
    <3>5. Len(fed) + Len(rest) = Len(buffer \o body)
      BY <2>a, <3>1, <3>2, <3>3, <3>4
    <3> QED
      BY <3>1, <3>2, <3>5
  <2> HIDE DEF fed, rest
  <2> DEFINE m == Len(fed) \div 2
  <2>d. /\ Unpacked(fed) \in Seq(Int) /\ Len(Unpacked(fed)) = m
        /\ Incomplete(fed) \in Seq(Nat) /\ Len(Incomplete(fed)) = Len(fed) - 2 * m
        /\ m \in Nat /\ Len(fed) \in Nat
    <3>1. Len(Unpacked(fed)) = m
      BY <2>c DEF Unpacked
    <3>2. 2 * m \in Nat /\ 2 * m <= Len(fed) /\ m \in Nat /\ Len(fed) \in Nat
      BY <2>c
    <3> HIDE DEF m
    <3>3. Incomplete(fed) = SubSeq(fed, 2 * m + 1, Len(fed))
      BY DEF Incomplete, m
    <3>4. Unpacked(fed) \in Seq(Int) /\ Incomplete(fed) \in Seq(Nat)
      BY <2>c, UnpackedTypes
    <3>5. Len(SubSeq(fed, 2 * m + 1, Len(fed))) = Len(fed) - 2 * m
      BY <2>c, <3>2, SubSeqTypes
    <3> QED
      BY <3>1, <3>2, <3>3, <3>4, <3>5
  <2> HIDE DEF m
  <2>e. /\ Len(got') = Len(got) + m
        /\ Len((buffer \o body)') = Len(buffer \o body) - 2 * m
    <3>1. Len(got \o Unpacked(fed)) = Len(got) + m
      BY <2>b, <2>d, ConcatProperties
    <3>2. Len(Incomplete(fed) \o rest) = Len(fed) - 2 * m + Len(rest)
      BY <2>c, <2>d, ConcatProperties
    <3> QED
      BY <2>a, <2>c, <2>d, <3>1, <3>2
  <2>f. 2 * Len(got') + Len((buffer \o body)') <= 2 * Asked /\ Len(got') <= Asked
    <3>1. Len(got) \in Nat /\ Len(buffer \o body) \in Nat /\ Len((buffer \o body)') \in Nat
      BY <2>a, <2>b, <2>c, <2>d, ConcatProperties
    <3> QED
      BY <2>b, <2>d, <2>e, <3>1
  <2>1. MsgpackCounts'
    BY <2>a, <2>b, <2>f DEF MsgpackCounts
  <2>2. GotKept'
    BY <2>a, <2>f DEF GotKept
  <2> QED
    BY <2>1, <2>2
<1>11. CASE StreamEnds
  <2>1. MsgpackCounts'
    BY <1>11 DEF StreamEnds, MsgpackCounts, Asked, Reading, OrderInv, MsgpackOnce, ListsLeft, CallTypes, ReadTypes, ParamTypes, Params
  <2>2. GotKept'
    BY <1>11 DEF StreamEnds, GotKept, Asked, Reading, LegacyCounts, ListsLeft, CallTypes, ReadTypes, ParamTypes, Params
  <2> QED
    BY <2>1, <2>2
<1>12. CASE EndIter
  <2>1. MsgpackCounts'
    BY <1>12 DEF EndIter, MsgpackCounts, Asked, Reading, OrderInv, MsgpackOnce, ListsLeft, CallTypes, ReadTypes, ParamTypes, Params
  <2>2. GotKept'
    BY <1>12 DEF EndIter, GotKept, Asked, Reading, LegacyCounts, ListsLeft, CallTypes, ReadTypes, ParamTypes, Params
  <2> QED
    BY <2>1, <2>2
<1>13. CASE EndChunk
  <2>1. MsgpackCounts'
    BY <1>13 DEF EndChunk, Advance, MsgpackCounts, Asked, Reading, OrderInv, MsgpackOnce, ListsLeft, CallTypes, ReadTypes, ParamTypes, Params
  <2>2. GotKept'
    <3>1. Len(out \o got) = Len(out) + Len(got)
      BY ConcatProperties DEF CallTypes, ReadTypes
    <3>2. fmt # "json" => Len(out) + Len(got) <= limit
      BY <1>13 DEF EndChunk, GotKept, ListsLeft, Asked, Reading, CallTypes, ReadTypes
    <3> QED
      BY <1>13, <3>1, <3>2 DEF EndChunk, GotKept, Reading, CallTypes
  <2> QED
    BY <2>1, <2>2
<1>14. CASE NextChunk
  <2>1. MsgpackCounts'
    BY <1>14 DEF NextChunk, Begin, Lesser, MsgpackCounts, Asked, Reading, OrderInv, MsgpackOnce, ListsLeft, CallTypes, ReadTypes, ParamTypes, Params
  <2>2. GotKept'
    BY <1>14 DEF NextChunk, Begin, Lesser, GotKept, Asked, Reading, LegacyCounts, ListsLeft, CallTypes, ReadTypes, ParamTypes, Params
  <2> QED
    BY <2>1, <2>2
<1>15. CASE UNCHANGED vars
  <2>1. MsgpackCounts'
    BY <1>15 DEF vars, MsgpackCounts, Asked, Reading, OrderInv, MsgpackOnce, ListsLeft, CallTypes, ReadTypes, ParamTypes, Params
  <2>2. GotKept'
    BY <1>15 DEF vars, GotKept, Asked, Reading, LegacyCounts, ListsLeft, CallTypes, ReadTypes, ParamTypes, Params
  <2> QED
    BY <2>1, <2>2
<1> QED
  BY <1>1, <1>2, <1>3, <1>4, <1>5, <1>6, <1>7, <1>8, <1>9, <1>10, <1>11, <1>12, <1>13,
     <1>14, <1>15, FailuresEnd DEF Next, Reader

----------------------------------------------------------------------------
\* Nothing that the job had at the call is forgotten.
LEMMA ServedLength ==
  ASSUME NEW p \in Params, size \in Nat
  PROVE  /\ From(p) \in Nat /\ Served(p) \in Seq(Nat) /\ Packed(Served(p)) \in Seq(Nat)
         /\ Len(Served(p)) = Greater(0, Lesser(p.count, size - From(p)))
         /\ Len(Packed(Served(p))) = 2 * Len(Served(p))
<1>1. From(p) \in Nat /\ Served(p) \in Seq(Nat) /\ Consecutive(Served(p), From(p))
  BY ServedItems
<1>2. Packed(Served(p)) \in Seq(Nat) /\ Len(Packed(Served(p))) = 2 * Len(Served(p))
  BY <1>1, PackedBytes
<1>3. p.count \in Nat
  BY DEF Params
<1> DEFINE n == Greater(0, Lesser(p.count, size - From(p)))
<1>4. n \in Nat
  BY <1>1, <1>3 DEF Greater, Lesser
<1> HIDE DEF n
<1>5. Served(p) = [i \in 1..n |-> From(p) + i - 1]
  BY DEF Served, n
<1>6. Len(Served(p)) = n
  BY <1>4, <1>5
<1> QED
  BY <1>1, <1>2, <1>6 DEF n

\* A chunk of bytes is moved from the response to the items and what is left over.
LEMMA BytesReceived ==
  ASSUME CountersInv, NEW n \in 1..MaxChunk, ReceiveBytes(n)
  PROVE  /\ Coming' = Coming /\ Len(buffer') <= 1 /\ got' \in Seq(Int)
         /\ \E s \in Seq(Int) : got' = got \o s
<1> DEFINE fed == buffer \o SubSeq(body, 1, n)
           rest == SubSeq(body, n + 1, Len(body))
           m == Len(fed) \div 2
<1>0. /\ got \in Seq(Int) /\ body \in Seq(Nat) /\ buffer \in Seq(Nat)
      /\ Len(got) \in Nat /\ Len(body) \in Nat /\ Len(buffer) \in Nat
  BY DEF CountersInv, TypeOK, ReadTypes
<1>1. /\ fmt = "msgpack" /\ n \in Nat /\ n <= Len(body)
      /\ got' = got \o Unpacked(fed) /\ buffer' = Incomplete(fed) /\ body' = rest
      /\ fmt' = fmt
  BY ConstantTypes, ReaderAssumption DEF ReceiveBytes, callVars
<1>2. /\ fed \in Seq(Nat) /\ Len(fed) = Len(buffer) + n /\ Len(rest) = Len(body) - n
  <2>1. /\ SubSeq(body, 1, n) \in Seq(Nat) /\ rest \in Seq(Nat)
        /\ Len(SubSeq(body, 1, n)) = n /\ Len(rest) = Len(body) - n
    BY <1>0, <1>1, SubSeqTypes
  <2> QED
    BY <1>0, <2>1, ConcatProperties
<1> HIDE DEF fed, rest
<1>3. m \in Nat /\ 2 * m <= Len(fed) /\ Len(fed) <= 2 * m + 1 /\ 2 * m \in Nat
  BY <1>2
<1>4. Unpacked(fed) \in Seq(Int) /\ Len(Unpacked(fed)) = m
  <2>1. Len(Unpacked(fed)) = m
    BY <1>2 DEF Unpacked
  <2>2. Unpacked(fed) \in Seq(Int)
    BY <1>2, UnpackedTypes
  <2> QED
    BY <2>1, <2>2
<1>5. Incomplete(fed) = SubSeq(fed, 2 * m + 1, Len(fed))
  BY DEF Incomplete
<1> HIDE DEF m
<1>6. Len(Incomplete(fed)) = Len(fed) - 2 * m
  BY <1>2, <1>3, <1>5, SubSeqTypes
<1>7. got' \in Seq(Int) /\ Len(got') = Len(got) + m
  BY <1>0, <1>1, <1>4, ConcatProperties
<1>8. Len(buffer') = Len(fed) - 2 * m /\ Len(body') = Len(body) - n /\ Len(fed) \in Nat
  BY <1>1, <1>2, <1>6
<1>9. Coming' = Coming /\ Len(buffer') <= 1
  BY <1>0, <1>1, <1>2, <1>3, <1>7, <1>8 DEF Coming
<1> QED
  BY <1>1, <1>4, <1>7, <1>9

\* Steps that leave the call, what it received and where it stands alone.
LEMMA CompleteFrame ==
  ASSUME CompleteInv, CountersInv, UNCHANGED <<callVars, chunkVars, got, buffer>>,
         size' >= size, size' \in Nat, gaveup' = gaveup,
         \/ pc' = pc /\ body' = body /\ params' = params
         \/ pc \in Reading /\ pc' \in {"raised", "astray", "attempt"} /\ AsksAll'
  PROVE  CompleteInv'
<1> USE DEF CompleteInv, CountersInv, TypeOK, CallTypes, callVars, chunkVars
<1>1. AsksAll'
  BY DEF AsksAll, Asked, Base, Reading
<1>2. had' <= size' /\ Len(buffer') <= 1 /\ (width' > 0 => start' = first' + Len(out'))
  BY DEF NothingForgotten
<1>3. Needed' = Needed /\ Delivered' = Delivered
  BY DEF Needed, Asked, Base, Delivered, Lesser
<1>4. (pc' = "stream" => Coming' >= 2 * Needed') /\ (pc' = "ended" /\ ~gaveup' => Len(got') >= Needed')
  BY <1>3 DEF NothingForgotten, Coming
<1>5. CompleteAtEnd'
  BY <1>3 DEF CompleteAtEnd, Lesser, Reading
<1> QED
  BY <1>1, <1>2, <1>4, <1>5 DEF NothingForgotten

LEMMA InitComplete == Init => CompleteInv
BY ConstantTypes DEF Init, CompleteInv, AsksAll, NothingForgotten, CompleteAtEnd, Reading

LEMMA NextComplete ==
  ASSUME CountersInv, Recovers => OrderInv, CompleteInv, [Next]_vars
  PROVE  CompleteInv'
<1> USE ConstantTypes DEF CountersInv, TypeOK, callVars, chunkVars, retryVars
<1>0. /\ size \in Nat /\ had \in Nat /\ first \in Nat /\ limit \in Nat \ {0} /\ width \in Nat
      /\ start \in Nat /\ processed \in Nat /\ out \in Seq(Int) /\ got \in Seq(Int)
      /\ body \in Seq(Nat) /\ buffer \in Seq(Nat) /\ params \in Params /\ params.count \in Nat
      /\ params.start \in Nat /\ retrieved \in Nat /\ fmt \in {"json", "msgpack", "legacy"}
      /\ had <= size /\ Len(got) \in Nat /\ Len(body) \in Nat /\ Len(buffer) \in Nat
      /\ Len(out) \in Nat /\ Len(buffer) <= 1
  BY ReaderAssumption DEF CallTypes, ReadTypes, ParamTypes, Params, CompleteInv, NothingForgotten
<1>00. Base \in Nat /\ Asked \in Nat /\ Needed \in Int /\ Needed <= Asked /\ Needed <= had - Base
  BY <1>0 DEF Base, Asked, Needed, Lesser
<1>1. CASE ItemArrives
  BY <1>0, <1>1, CompleteFrame DEF ItemArrives
<1>2. ASSUME NEW a \in Firsts, NEW n \in Limits \cup {Unlimited}, Iter(a, n)
      PROVE  CompleteInv'
  <2>1. /\ width = 0 /\ pc' = "attempt" /\ had' = size /\ buffer' = <<>> /\ first' = a
        /\ limit' = n /\ params' = [start |-> a, after |-> NoLine, count |-> n]
        /\ UNCHANGED <<size, width>>
    BY <1>2 DEF Iter, Calls, Begin, ListsLeft
  <2>2. AsksAll'
    BY <2>1 DEF AsksAll, Asked, Base
  <2> QED
    BY <1>0, <2>1, <2>2 DEF CompleteInv, NothingForgotten, CompleteAtEnd
<1>3. ASSUME NEW a \in Firsts, NEW n \in Limits \cup {Unlimited}, NEW c \in Widths,
             ListIter(a, n, c)
      PROVE  CompleteInv'
  <2>1. /\ out = <<>> /\ pc' = "chunk" /\ had' = size /\ first' = a /\ start' = a
        /\ UNCHANGED <<size, out, buffer>>
    BY <1>3 DEF ListIter, Calls, ListsLeft
  <2> QED
    BY <1>0, <2>1 DEF CompleteInv, NothingForgotten, CompleteAtEnd, AsksAll, Reading
<1>4. CASE Attempt
  <2>1. /\ pc = "attempt" /\ UNCHANGED <<size, callVars, chunkVars, got, body, buffer>>
        /\ \/ pc' = "request" /\ UNCHANGED gaveup
              /\ params' = IF fmt = "json" THEN Resumed(params) ELSE params
           \/ pc' = "ended" /\ gaveup'
    BY <1>4 DEF Attempt
  <2>2. Resumed(params).count = params.count
    BY <1>0 DEF Resumed, Params
  <2>3. AsksAll'
    BY <2>1, <2>2 DEF AsksAll, CompleteInv, Asked, Base, Reading
  <2> QED
    BY <2>1, <2>3 DEF CompleteInv, NothingForgotten, CompleteAtEnd
<1>5. CASE StreamFails
  <2>1. AsksAll'
    BY <1>5 DEF StreamFails, Retry, AsksAll, CompleteInv, Asked, Base, Reading
  <2>2. /\ UNCHANGED <<size, callVars, chunkVars, got, buffer, gaveup>>
        /\ pc = "stream" /\ pc' = "attempt"
    BY <1>5 DEF StreamFails, Retry
  <2> QED
    BY <1>0, <2>1, <2>2, CompleteFrame DEF Reading
<1>6. CASE RequestServed
  <2>1. /\ pc = "request" /\ pc' = "stream" /\ UNCHANGED <<size, callVars, chunkVars, got, gaveup, params, buffer>>
        /\ body' = IF fmt = "msgpack" THEN Packed(Served(params)) ELSE Served(params)
    BY <1>6 DEF RequestServed
  <2> DEFINE n == Greater(0, Lesser(params.count, size - From(params)))
  <2>2. /\ From(params) \in Nat
        /\ Len(body') = IF fmt = "msgpack" THEN 2 * n ELSE n
    BY <1>0, <2>1, ServedLength
  <2>3. n \in Nat /\ (n >= params.count \/ n >= size - From(params))
    BY <1>0, <2>2 DEF Greater, Lesser
  <2> HIDE DEF n
  <2>4. Coming' >= 2 * Needed
    <3>1. CASE fmt = "msgpack"
      <4>1. From(params) = Base /\ params.count = Asked
        BY <1>00, <2>1, <3>1 DEF CompleteInv, AsksAll, Reading, From, Greater, NoLine
      <4>2. n >= Needed
        BY <1>0, <1>00, <2>3, <4>1
      <4>3. Coming' = 2 * Len(got) + Len(buffer) + 2 * n
        BY <2>1, <2>2, <3>1 DEF Coming
      <4> QED
        BY <1>0, <1>00, <2>3, <4>2, <4>3
    <3>2. CASE fmt = "json"
      <4>1. From(params) = Base + Len(got) /\ params.count = Asked
        BY <2>1, <3>2 DEF Recovers, OrderInv, JsonResumes, Due, CompleteInv, AsksAll, Reading
      <4>2. Len(got) + n >= Needed
        BY <1>0, <1>00, <2>3, <4>1
      <4>3. Coming' = 2 * (Len(got) + n)
        BY <2>1, <2>2, <3>2 DEF Coming
      <4> QED
        BY <1>0, <1>00, <2>3, <4>2, <4>3
    <3>3. CASE fmt = "legacy"
      <4>1. params.start = Base + Len(got) /\ params.after = NoLine /\ retrieved = 0
            /\ Len(got) + params.count = limit /\ width = 0
        <5>1. /\ params.start + retrieved = Due /\ params.after = NoLine /\ retrieved = 0
              /\ Len(got) - retrieved + params.count = limit /\ width = 0
          BY <2>1, <3>3 DEF Recovers, OrderInv, LegacyResumes, LegacyCounts, ListsLeft, Reading
        <5> QED
          BY <1>0, <5>1 DEF Due
      <4>2. From(params) = Base + Len(got) /\ Asked = limit
        BY <1>0, <1>00, <4>1 DEF From, Greater, NoLine, Asked
      <4>3. Len(got) + n >= Needed
        BY <1>0, <1>00, <2>3, <4>1, <4>2
      <4>4. Coming' = 2 * (Len(got) + n)
        BY <2>1, <2>2, <3>3 DEF Coming
      <4> QED
        BY <1>0, <1>00, <2>3, <4>3, <4>4
    <3> QED
      BY <1>0, <3>1, <3>2, <3>3
  <2>5. Needed' = Needed
    BY <2>1 DEF Needed, Asked, Base, Lesser
  <2>6. AsksAll'
    BY <2>1 DEF AsksAll, CompleteInv, Asked, Base, Reading
  <2> QED
    BY <2>1, <2>4, <2>5, <2>6 DEF CompleteInv, NothingForgotten, CompleteAtEnd
<1>7. ASSUME NEW why \in {"busy", "status", "connection", "other"}, RequestAgain(why)
      PROVE  CompleteInv'
  BY <1>0, <1>7, CompleteFrame DEF RequestAgain
<1>8. ASSUME RequestEnds
      PROVE  CompleteInv'
  <2>1. AsksAll'
    BY <1>8 DEF RequestEnds, Retry, AsksAll, CompleteInv, Asked, Base, Reading
  <2>2. /\ UNCHANGED <<size, callVars, chunkVars, got, buffer, gaveup>>
        /\ pc = "request" /\ pc' \in {"raised", "astray", "attempt"}
    BY <1>8 DEF RequestEnds, Retry
  <2> QED
    BY <1>0, <2>1, <2>2, CompleteFrame DEF Reading
<1>9. CASE ReceiveLine
  <2>1. /\ pc = "stream" /\ fmt # "msgpack" /\ body # <<>> /\ got' = Append(got, Head(body))
        /\ body' = Tail(body)
        /\ UNCHANGED <<size, callVars, chunkVars, gaveup, params, buffer, pc>>
    BY <1>9 DEF ReceiveLine
  <2>2. Len(got') = Len(got) + 1 /\ Len(body') = Len(body) - 1
    BY <1>0, <2>1
  <2>3. Coming' = Coming /\ Needed' = Needed
    BY <1>0, <2>1, <2>2 DEF Coming, Needed, Asked, Base, Lesser
  <2>4. AsksAll'
    BY <2>1 DEF AsksAll, CompleteInv, Asked, Base
  <2> QED
    BY <2>1, <2>3, <2>4 DEF CompleteInv, NothingForgotten, CompleteAtEnd
<1>10. ASSUME NEW n \in 1..MaxChunk, ReceiveBytes(n)
       PROVE  CompleteInv'
  <2>1. /\ pc = "stream" /\ fmt = "msgpack"
        /\ UNCHANGED <<size, callVars, chunkVars, gaveup, params, pc>>
    BY <1>10 DEF ReceiveBytes
  <2>2. Coming' = Coming /\ Len(buffer') <= 1
    BY <1>10, BytesReceived
  <2>3. Needed' = Needed
    BY <2>1 DEF Needed, Asked, Base, Lesser
  <2>4. AsksAll'
    BY <2>1 DEF AsksAll, CompleteInv, Asked, Base
  <2> QED
    BY <2>1, <2>2, <2>3, <2>4 DEF CompleteInv, NothingForgotten, CompleteAtEnd
<1>11. CASE StreamEnds
  <2>1. /\ pc = "stream" /\ body = <<>> /\ pc' = "ended"
        /\ UNCHANGED <<size, callVars, chunkVars, got, gaveup, params, body, buffer>>
    BY <1>11 DEF StreamEnds
  <2>2. Len(got) >= Needed
    <3>1. Coming >= 2 * Needed /\ Len(body) = 0
      BY <2>1 DEF CompleteInv, NothingForgotten
    <3> QED
      BY <1>0, <1>00, <3>1 DEF Coming
  <2>3. Needed' = Needed
    BY <2>1 DEF Needed, Asked, Base, Lesser
  <2> QED
    BY <2>1, <2>2, <2>3 DEF CompleteInv, NothingForgotten, CompleteAtEnd, AsksAll, Reading
<1>12. CASE EndIter
  <2>1. /\ pc = "ended" /\ width = 0 /\ pc' = "done"
        /\ UNCHANGED <<size, callVars, chunkVars, got, gaveup, buffer>>
    BY <1>12 DEF EndIter
  <2>2. ~gaveup => Len(Delivered) >= Lesser(limit, had - first)
    BY <2>1 DEF CompleteInv, NothingForgotten, Needed, Asked, Base, Delivered
  <2>3. Delivered' = Delivered /\ Lesser(limit, had - first)' = Lesser(limit, had - first)
    BY <2>1 DEF Delivered, Lesser
  <2> QED
    BY <2>1, <2>2, <2>3 DEF CompleteInv, NothingForgotten, CompleteAtEnd, AsksAll, Reading
<1>13. CASE EndChunk
  <2>1. /\ pc = "ended" /\ width > 0 /\ out' = out \o got /\ start' = start + Len(got)
        /\ pc' \in {"done", "chunk"}
        /\ pc' = "done" => processed' >= limit \/ Len(got) < width
        /\ processed' = processed + Len(got)
        /\ UNCHANGED <<size, callVars, width, got, gaveup, buffer>>
    BY <1>13 DEF EndChunk, Enough, Advance
  <2>2. Len(out') = Len(out) + Len(got)
    BY <1>0, <2>1, ConcatProperties
  <2>3. start = first + Len(out) /\ processed = Len(out)
    BY <2>1 DEF CompleteInv, NothingForgotten, ListsLeft
  <2>4. pc' = "done" /\ ~gaveup => Len(out') >= Lesser(limit, had - first)
    <3>1. CASE processed' >= limit
      BY <1>0, <2>1, <2>2, <2>3, <3>1 DEF Lesser
    <3>2. CASE Len(got) < width /\ ~gaveup
      <4>1. Len(got) >= Lesser(width, had - start)
        BY <2>1, <3>2 DEF CompleteInv, NothingForgotten, Needed, Asked, Base
      <4>2. Len(got) >= had - start
        BY <1>0, <3>2, <4>1 DEF Lesser
      <4> QED
        BY <1>0, <2>2, <2>3, <4>2 DEF Lesser
    <3> QED
      BY <2>1, <3>1, <3>2
  <2>5. start' = first + Len(out')
    BY <1>0, <2>1, <2>2, <2>3
  <2> QED
    BY <2>1, <2>4, <2>5
       DEF CompleteInv, NothingForgotten, CompleteAtEnd, AsksAll, Reading, Delivered, Lesser
<1>14. CASE NextChunk
  <2>1. /\ width' > 0 /\ buffer' = <<>> /\ pc' = "attempt" /\ width > 0
        /\ params' = [start |-> start, after |-> NoLine, count |-> width']
        /\ UNCHANGED <<size, callVars, start, out, gaveup>>
    BY <1>0, <1>14 DEF NextChunk, Begin, Lesser, ListsLeft
  <2>2. AsksAll'
    BY <2>1 DEF AsksAll, Asked, Base
  <2> QED
    BY <2>1, <2>2 DEF CompleteInv, NothingForgotten, CompleteAtEnd
<1>15. CASE UNCHANGED vars
  BY <1>0, <1>15, CompleteFrame DEF vars
<1> QED
  BY <1>1, <1>2, <1>3, <1>4, <1>5, <1>6, <1>7, <1>8, <1>9, <1>10, <1>11, <1>12, <1>13,
     <1>14, <1>15, FailuresEnd DEF Next, Reader
----------------------------------------------------------------------------
\* Nothing is received that the job does not have.
LEMMA InitExisting == Init => Existing
BY DEF Init, Existing, Reading

\* Steps that receive and hand over nothing, while the job may grow.
LEMMA ExistingFrame ==
  ASSUME Existing, CountersInv, UNCHANGED <<callVars, chunkVars, got, buffer>>,
         size' >= size, size' \in Nat,
         \/ pc' = pc /\ body' = body
         \/ pc \in Reading /\ pc' \in (Reading \cup {"raised", "astray", "ended"}) \ {"stream"}
  PROVE  Existing'
<1>1. /\ size \in Nat /\ first \in Nat /\ width \in Nat /\ start \in Nat /\ Len(got) \in Nat
      /\ Len(out) \in Nat /\ Len(buffer) \in Nat /\ Len(body) \in Nat
  BY ReaderAssumption DEF CountersInv, TypeOK, CallTypes, ReadTypes
<1>2. Base' = Base /\ Due' = Due /\ Base \in Nat /\ Due \in Nat /\ Coming \in Nat
  BY <1>1 DEF Base, Due, callVars, chunkVars, Coming
<1>3. pc' = "stream" => pc = "stream" /\ Coming' = Coming
  BY DEF Coming, callVars, Reading
<1>4. pc' = "stream" /\ Coming' > 0 => 2 * Base' + Coming' <= 2 * size'
  <2>1. pc = "stream" /\ Coming > 0 => 2 * Base + Coming <= 2 * size
    BY DEF Existing
  <2>2. pc' = "stream" /\ Coming' > 0 => 2 * Base + Coming <= 2 * size
    BY <1>3, <2>1
  <2>3. \A a, b, c, d \in Nat : 2 * a + b <= 2 * c /\ d >= c => 2 * a + b <= 2 * d
    OBVIOUS
  <2>4. ASSUME 2 * Base + Coming <= 2 * size PROVE 2 * Base + Coming <= 2 * size'
    BY <1>1, <1>2, <2>3, <2>4
  <2> QED
    BY <1>2, <1>3, <2>2, <2>4
<1>5. (pc' \in Reading \cup {"ended"} \/ width' = 0) /\ got' # <<>> => Due' <= size'
  BY <1>1, <1>2 DEF Existing, Reading, chunkVars
<1>6. out' # <<>> => first' + Len(out') <= size'
  BY <1>1 DEF Existing, callVars, chunkVars
<1> QED
  BY <1>4, <1>5, <1>6 DEF Existing, Reading

LEMMA NextExisting ==
  ASSUME Recovers, CountersInv, OrderInv, CompleteInv, Existing, [Next]_vars
  PROVE  Existing'
<1> USE ConstantTypes DEF CountersInv, TypeOK, callVars, chunkVars, retryVars
<1>0. /\ size \in Nat /\ first \in Nat /\ width \in Nat /\ start \in Nat /\ out \in Seq(Int)
      /\ got \in Seq(Int) /\ body \in Seq(Nat) /\ buffer \in Seq(Nat) /\ params \in Params
      /\ params.count \in Nat /\ params.start \in Nat /\ retrieved \in Nat
      /\ fmt \in {"json", "msgpack", "legacy"}
      /\ Len(got) \in Nat /\ Len(body) \in Nat /\ Len(buffer) \in Nat /\ Len(out) \in Nat
  BY ReaderAssumption DEF CallTypes, ReadTypes, ParamTypes, Params
<1>00. Base \in Nat /\ Due \in Nat
  BY <1>0 DEF Base, Due
<1>1. CASE ItemArrives
  BY <1>0, <1>1, ExistingFrame DEF ItemArrives
<1>2. ASSUME NEW a \in Firsts, NEW n \in Limits \cup {Unlimited}, Iter(a, n)
      PROVE  Existing'
  <2>1. pc' = "attempt" /\ got' = <<>> /\ out' = <<>>
    BY <1>2 DEF Iter, Calls, Begin, ListsLeft
  <2> QED
    BY <2>1 DEF Existing
<1>3. ASSUME NEW a \in Firsts, NEW n \in Limits \cup {Unlimited}, NEW c \in Widths,
             ListIter(a, n, c)
      PROVE  Existing'
  <2>1. pc' = "chunk" /\ got' = <<>> /\ out' = <<>>
    BY <1>3 DEF ListIter, Calls, ListsLeft
  <2> QED
    BY <2>1 DEF Existing
<1>4. CASE Attempt
  BY <1>0, <1>4, ExistingFrame DEF Attempt, Reading
<1>5. CASE StreamFails
  BY <1>0, <1>5, ExistingFrame DEF StreamFails, Retry, Reading
<1>6. CASE RequestServed
  <2>1. /\ pc = "request" /\ pc' = "stream"
        /\ UNCHANGED <<size, callVars, chunkVars, got, params, buffer>>
        /\ body' = IF fmt = "msgpack" THEN Packed(Served(params)) ELSE Served(params)
    BY <1>6 DEF RequestServed
  <2> DEFINE n == Greater(0, Lesser(params.count, size - From(params)))
  <2>2. /\ From(params) \in Nat
        /\ Len(body') = IF fmt = "msgpack" THEN 2 * n ELSE n
    BY <1>0, <2>1, ServedLength
  <2>3. n \in Nat /\ (n > 0 => n <= size - From(params))
    BY <1>0, <2>2 DEF Greater, Lesser
  <2> HIDE DEF n
  <2>4. From(params) = Due /\ (fmt = "msgpack" => Len(got) = 0 /\ Len(buffer) = 0)
    <3>1. CASE fmt = "json"
      BY <2>1, <3>1 DEF OrderInv, JsonResumes, Reading
    <3>2. CASE fmt = "msgpack"
      <4>1. params.after = NoLine /\ params.start = Base /\ got = <<>> /\ buffer = <<>>
        BY <2>1, <3>2 DEF OrderInv, MsgpackOnce, Reading
      <4> QED
        BY <1>0, <1>00, <4>1 DEF From, Greater, NoLine, Due
    <3>3. CASE fmt = "legacy"
      <4>1. params.start + retrieved = Due /\ params.after = NoLine /\ retrieved = 0
        BY <2>1, <3>3 DEF OrderInv, LegacyResumes, LegacyCounts, Reading
      <4> QED
        BY <1>0, <1>00, <4>1, <3>3 DEF From, Greater, NoLine
    <3> QED
      BY <1>0, <3>1, <3>2, <3>3
  <2>5. Coming' = 2 * (Len(got) + n) /\ Base' = Base /\ Due' = Due /\ Due = Base + Len(got)
    <3>1. Base' = Base /\ Due' = Due /\ Due = Base + Len(got) /\ fmt' = fmt
      BY <2>1 DEF Base, Due
    <3>2. CASE fmt = "msgpack"
      <4>1. Coming' = 2 * Len(got) + Len(buffer) + 2 * n
        BY <2>1, <2>2, <3>1, <3>2 DEF Coming
      <4> QED
        BY <1>0, <2>3, <2>4, <3>1, <3>2, <4>1
    <3>3. CASE fmt # "msgpack"
      BY <2>1, <2>2, <3>1, <3>3 DEF Coming
    <3> QED
      BY <3>1, <3>2, <3>3
  <2>6. got # <<>> => Due <= size
    BY <2>1 DEF Existing, Reading
  <2>7. Len(got) = 0 \/ got # <<>>
    BY <1>0
  <2>8. Coming' > 0 => 2 * Base' + Coming' <= 2 * size'
    BY <1>0, <1>00, <2>1, <2>3, <2>4, <2>5, <2>6, <2>7
  <2> QED
    BY <2>1, <2>5, <2>6, <2>8 DEF Existing
<1>7. ASSUME NEW why \in {"busy", "status", "connection", "other"}, RequestAgain(why)
      PROVE  Existing'
  BY <1>0, <1>7, ExistingFrame DEF RequestAgain
<1>8. ASSUME RequestEnds
      PROVE  Existing'
  BY <1>0, <1>8, ExistingFrame DEF RequestEnds, Retry, Reading
<1>9. CASE ReceiveLine
  <2>1. /\ pc = "stream" /\ fmt # "msgpack" /\ body # <<>> /\ got' = Append(got, Head(body))
        /\ body' = Tail(body)
        /\ UNCHANGED <<size, callVars, chunkVars, buffer, pc>>
    BY <1>9 DEF ReceiveLine
  <2>2. Len(got') = Len(got) + 1 /\ Len(body') = Len(body) - 1 /\ Len(body) > 0
    BY <1>0, <2>1
  <2>3. Coming' = Coming /\ Base' = Base /\ Coming > 0 /\ Due' = Base + Len(got) + 1
        /\ Coming = 2 * (Len(got) + Len(body))
    <3>1. Base' = Base /\ Due' = Base + Len(got') /\ fmt' = fmt
      BY <2>1 DEF Base, Due
    <3>2. Coming' = 2 * (Len(got') + Len(body')) /\ Coming = 2 * (Len(got) + Len(body))
      BY <2>1, <3>1 DEF Coming
    <3> QED
      BY <1>0, <1>00, <2>2, <3>1, <3>2
  <2>4. 2 * Base + Coming <= 2 * size
    BY <2>1, <2>3 DEF Existing
  <2>5. Due' <= size
    BY <1>0, <1>00, <2>2, <2>3, <2>4
  <2> QED
    BY <2>1, <2>3, <2>4, <2>5 DEF Existing
<1>10. ASSUME NEW n \in 1..MaxChunk, ReceiveBytes(n)
       PROVE  Existing'
  <2>1. /\ pc = "stream" /\ fmt = "msgpack"
        /\ UNCHANGED <<size, callVars, chunkVars, pc>>
    BY <1>10 DEF ReceiveBytes
  <2>2. Coming' = Coming /\ got' \in Seq(Int)
    BY <1>10, BytesReceived
  <2>3. Base' = Base /\ Due' = Base + Len(got') /\ Len(got') \in Nat
    BY <2>1, <2>2 DEF Base, Due
  <2>4. body' \in Seq(Nat) /\ buffer' \in Seq(Nat)
    BY <1>10, NextCounters DEF Next, Reader, ReadTypes
  <2>5. Coming >= 2 * Len(got') /\ Coming \in Nat
    <3>1. Coming' = 2 * Len(got') + Len(buffer') + Len(body')
      BY <2>1 DEF Coming
    <3>2. Len(buffer') \in Nat /\ Len(body') \in Nat
      BY <2>4
    <3> QED
      BY <2>2, <2>3, <3>1, <3>2
  <2>6. got' # <<>> => Len(got') > 0
    BY <2>2
  <2>7. Coming > 0 => 2 * Base + Coming <= 2 * size
    BY <2>1 DEF Existing
  <2>8. got' # <<>> => Due' <= size
    BY <1>0, <1>00, <2>3, <2>5, <2>6, <2>7
  <2> QED
    BY <2>1, <2>2, <2>3, <2>7, <2>8 DEF Existing
<1>11. CASE StreamEnds
  BY <1>0, <1>11, ExistingFrame DEF StreamEnds, Reading
<1>12. CASE EndIter
  <2>1. /\ pc = "ended" /\ width = 0 /\ pc' = "done"
        /\ UNCHANGED <<size, callVars, chunkVars, got>>
    BY <1>12 DEF EndIter
  <2>2. Due' = Due
    BY <2>1 DEF Due, Base
  <2> QED
    BY <2>1, <2>2 DEF Existing, Reading
<1>13. CASE EndChunk
  <2>1. /\ pc = "ended" /\ width > 0 /\ out' = out \o got /\ pc' \in {"done", "chunk"}
        /\ UNCHANGED <<size, callVars, width, got>>
    BY <1>13 DEF EndChunk
  <2>2. Len(out') = Len(out) + Len(got) /\ start = first + Len(out)
    BY <1>0, <2>1, ConcatProperties DEF OrderInv, ListsInOrder
  <2>3. CASE got = <<>>
    BY <1>0, <2>1, <2>3 DEF Existing, Reading
  <2>4. CASE got # <<>>
    <3>1. Due <= size /\ Due = start + Len(got)
      BY <2>1, <2>4 DEF Existing, Due, Base
    <3>2. first' + Len(out') <= size'
      BY <1>0, <2>1, <2>2, <3>1
    <3> QED
      BY <1>0, <2>1, <3>2 DEF Existing, Reading
  <2> QED
    BY <2>3, <2>4
<1>14. CASE NextChunk
  <2>1. /\ got' = <<>> /\ pc' = "attempt" /\ UNCHANGED <<size, callVars, out>>
    BY <1>14 DEF NextChunk, Begin
  <2> QED
    BY <2>1 DEF Existing
<1>15. CASE UNCHANGED vars
  BY <1>0, <1>15, ExistingFrame DEF vars
<1> QED
  BY <1>1, <1>2, <1>3, <1>4, <1>5, <1>6, <1>7, <1>8, <1>9, <1>10, <1>11, <1>12, <1>13,
     <1>14, <1>15, FailuresEnd DEF Next, Reader
----------------------------------------------------------------------------
\* The types of the variables of every reader, with or without faults of the stream:
\* attempts and requests stay within their limits, and the count that Job.items asks
\* for again never falls below 0.
THEOREM ReadTypesCorrect == Spec => []TypeOK
<1>1. Init => CountersInv
  BY InitCounters
<1>2. CountersInv /\ [Next]_vars => CountersInv'
  BY NextCounters
<1>3. CountersInv => TypeOK
  BY DEF CountersInv
<1> QED
  BY <1>1, <1>2, <1>3, PTL DEF Spec

\* The reader stays the same.
LEMMA RecoversKept == [Next]_vars => (Recovers' <=> Recovers)
BY DEF Next, Reader, Iter, ListIter, Calls, Begin, Attempt, StreamFails, RequestServed, RequestAgain,
       RequestFails, ErrorDecoded, ReceiveLine, ReceiveBytes, StreamEnds, EndIter, EndChunk,
       NextChunk, ItemArrives,
       vars, callVars, Recovers

\* _retry, Job.items and list_iter deliver the items in order from where the caller
\* started, none twice and none left out, wherever responses break and requests fail;
\* for the msgpack reader, which does not resume, only if no connection breaks inside
\* its response, and for Job.items until it takes the body of an error for items.
THEOREM ItemsInOrder == Spec => [](Recovers => InOrder)
<1> DEFINE Inv == CountersInv /\ (Recovers => OrderInv)
<1>1. Init => Inv
  BY InitCounters, InitOrder
<1>2. Inv /\ [Next]_vars => Inv'
  BY NextCounters, NextOrder, RecoversKept
<1>3. Inv => (Recovers => InOrder)
  BY DEF OrderInv, ListsInOrder, CurrentInOrder, InOrder, Delivered, Base, CountersInv, TypeOK,
     CallTypes
<1> QED
  BY <1>1, <1>2, <1>3, PTL DEF Spec

\* Under the same provisos Job.items, whose count falls to 0 when the connection breaks
\* after the last line, and the msgpack reader, also under list_iter, never deliver more
\* than the caller's count.
THEOREM CountIsKept == Spec => [](Recovers => CountKept)
<1> DEFINE Inv == CountersInv /\ (Recovers => OrderInv /\ CountInv)
<1>1. Init => Inv
  BY InitCounters, InitOrder, InitCount
<1>2. Inv /\ [Next]_vars => Inv'
  BY NextCounters, NextOrder, NextCount, RecoversKept
<1>3. Inv => (Recovers => CountKept)
  BY DEF CountInv, GotKept, CountKept, AtMostCount, Delivered, Asked, CountersInv, TypeOK,
     CallTypes
<1> QED
  BY <1>1, <1>2, <1>3, PTL DEF Spec

\* Whichever the reader: an iteration that ends without having given up, and without
\* having taken an error for items, delivered no fewer items than the job had at the
\* call, up to the caller's count.
THEOREM CompleteAtEndHolds == Spec => []CompleteAtEnd
<1> DEFINE Inv == CountersInv /\ (Recovers => OrderInv) /\ CompleteInv
<1>1. Init => Inv
  BY InitCounters, InitOrder, InitComplete
<1>2. Inv /\ [Next]_vars => Inv'
  BY NextCounters, NextOrder, NextComplete, RecoversKept
<1>3. Inv => CompleteAtEnd
  BY DEF CompleteInv
<1> QED
  BY <1>1, <1>2, <1>3, PTL DEF Spec

----------------------------------------------------------------------------
(***************************************************************************)
(* The readers implement ReadCall.  ReadInv says enough of both ends of a  *)
(* step to tell what was handed over between them.                         *)
(***************************************************************************)
LEMMA ReadInvAlways == Spec => []ReadInv
<1>1. Init => ReadInv
  BY InitCounters, InitOrder, InitCount, InitComplete, InitExisting DEF ReadInv
<1>2. ReadInv /\ [Next]_vars => ReadInv'
  BY NextCounters, NextOrder, NextCount, NextComplete, NextExisting, RecoversKept DEF ReadInv
<1> QED
  BY <1>1, <1>2, PTL DEF Spec

\* What the caller holds, in order, is there; the count is kept.
Held ==
  /\ InOrder /\ (Delivered # <<>> => first + Len(Delivered) <= size)
  /\ fmt # "json" => Len(Delivered) <= limit

LEMMA HeldFacts ==
  ASSUME ReadInv, Recovers
  PROVE  /\ Held /\ size \in Nat /\ first \in Nat /\ limit \in Nat /\ had \in Nat /\ gaveup \in BOOLEAN
         /\ width \in Nat /\ got \in Seq(Int) /\ out \in Seq(Int) /\ Delivered \in Seq(Int)
<1>1. /\ size \in Nat /\ first \in Nat /\ limit \in Nat /\ had \in Nat /\ gaveup \in BOOLEAN
      /\ width \in Nat /\ got \in Seq(Int) /\ out \in Seq(Int)
  BY ReaderAssumption DEF ReadInv, CountersInv, TypeOK, CallTypes, ReadTypes
<1>2. OrderInv /\ CountInv /\ Existing
  BY DEF ReadInv
<1>3. CASE width = 0
  BY <1>1, <1>2, <1>3
  DEF Held, Delivered, OrderInv, CurrentInOrder, InOrder, Base, CountInv, GotKept, Asked,
      Existing, Due
<1>4. CASE width > 0
  BY <1>1, <1>2, <1>4
  DEF Held, Delivered, OrderInv, ListsInOrder, InOrder, CountInv, GotKept, Existing
<1> QED
  BY <1>1, <1>3, <1>4

LEMMA HeldAlways == ReadInv /\ Recovers => Held
BY HeldFacts

\* What a step adds to what the caller holds are the next items of the job.
LEMMA HandedOver ==
  ASSUME ReadInv, ReadInv', Recovers, Recovers', CallStatus = "reading",
         NEW s \in Seq(Int), Delivered' = Delivered \o s,
         UNCHANGED <<size, callVars, gaveup>>, CallStatus' # "idle"
  PROVE  Promise!Take(Len(s)) /\ Len(s) \in 0..size
<1>1. /\ size \in Nat /\ first \in Nat /\ limit \in Nat /\ Delivered \in Seq(Int)
  BY HeldFacts
<1>2. /\ Delivered' \in Seq(Int) /\ InOrder'
      /\ Delivered' # <<>> => first + Len(Delivered') <= size
      /\ fmt # "json" => Len(Delivered') <= limit
  <2>1. Held'
    BY HeldAlways, PTL
  <2> QED
    BY <1>1, <2>1, ConcatProperties DEF Held, callVars
<1> DEFINE D == Delivered
           n == Len(s)
<1>3. n \in Nat /\ Len(D) \in Nat /\ Len(D') = Len(D) + n
  BY <1>1, ConcatProperties
<1>4. ASSUME NEW i \in 1..n PROVE s[i] = first + Len(D) + i - 1
  <2>1. Len(D) + i \in 1..Len(D') /\ D'[Len(D) + i] = s[i]
    BY <1>1, <1>3, ConcatProperties
  <2>2. D'[Len(D) + i] = first + (Len(D) + i) - 1
    BY <1>2, <2>1 DEF InOrder, Consecutive, callVars
  <2> QED
    BY <1>1, <1>3, <2>1, <2>2
<1>5. s = [i \in 1..n |-> first + Len(D) + i - 1]
  BY <1>3, <1>4
<1>6. n > 0 => first + Len(D) + n <= size
  <2>1. n > 0 => D' # <<>>
    BY <1>2, <1>3
  <2> QED
    BY <1>1, <1>2, <1>3, <2>1
<1>7. /\ CallMade.first = first /\ CallMade.limit = limit /\ CallMade.exact = (fmt # "json")
      /\ CallMade' = CallMade
  BY DEF CallMade, callVars
<1>8. fmt # "json" => Len(D) + n <= limit
  BY <1>2, <1>3
<1>9. n \in 0..size
  BY <1>1, <1>3, <1>6
<1> HIDE DEF D, n
<1>10. Promise!Take(n)
  <2>1. D' = D \o s /\ (IF Recovers THEN Delivered ELSE <<>>) = D
        /\ (IF Recovers THEN Delivered ELSE <<>>)' = D'
    BY DEF D
  <2>2. (Recovers /\ gaveup)' = (Recovers /\ gaveup)
    BY Zenon
  <2> QED
    BY <1>5, <1>6, <1>7, <1>8, <2>1, <2>2 DEF Promise!Take, Promise!Upcoming
<1> QED
  BY <1>9, <1>10 DEF n

\* Steps between what the caller sees.
LEMMA NothingSeen ==
  ASSUME UNCHANGED <<size, callVars, gaveup, Delivered>>, Recovers' <=> Recovers,
         CallStatus' = CallStatus
  PROVE  UNCHANGED Promise!vars
<1>1. CallMade' = CallMade
  BY DEF CallMade, callVars
<1>2. (Recovers /\ gaveup)' = (Recovers /\ gaveup)
  BY Zenon
<1>3. (IF Recovers THEN Delivered ELSE <<>>)' = (IF Recovers THEN Delivered ELSE <<>>)
  BY Zenon
<1> QED
  BY <1>1, <1>2, <1>3 DEF Promise!vars

\* A call that promises nothing hands nothing over.
LEMMA NotPromised ==
  ASSUME ~Recovers, ~Recovers', size' = size \/ size' = size + 1
  PROVE  [Promise!Next]_(Promise!vars)
<1>1. /\ CallStatus = "idle" /\ CallStatus' = "idle"
  BY DEF CallStatus
<1>2. CallMade' = CallMade
  BY <1>1 DEF CallMade
<1>3. (Recovers /\ gaveup)' = (Recovers /\ gaveup)
  BY Zenon
<1>4. (IF Recovers THEN Delivered ELSE <<>>)' = (IF Recovers THEN Delivered ELSE <<>>)
  BY Zenon
<1>5. CASE size' = size
  BY <1>1, <1>2, <1>3, <1>4, <1>5 DEF Promise!vars
<1>6. CASE size' = size + 1
  BY <1>1, <1>2, <1>3, <1>4, <1>6 DEF Promise!Next, Promise!Grow
<1> QED
  BY <1>5, <1>6

LEMMA SizeSteps ==
  ASSUME [Next]_vars
  PROVE  size' = size \/ size' = size + 1
BY DEF Next, Reader, Iter, ListIter, Calls, Begin, Attempt, StreamFails, RequestServed, RequestAgain,
       RequestFails, ErrorDecoded, ReceiveLine, ReceiveBytes, StreamEnds, EndIter, EndChunk,
       NextChunk, ItemArrives,
       vars

LEMMA ReadCallInit == Init => Promise!Init
<1> SUFFICES ASSUME Init PROVE Promise!Init
  OBVIOUS
<1>1. /\ size \in Nat /\ CallStatus = "idle" /\ Delivered = <<>> /\ ~gaveup
  BY ConstantTypes DEF Init, CallStatus, Delivered
<1>2. CallMade = [first |-> 0, limit |-> 0, exact |-> TRUE, had |-> 0]
  BY <1>1 DEF CallMade
<1>3. (Recovers /\ gaveup) = FALSE
  BY <1>1
<1>4. (IF Recovers THEN Delivered ELSE <<>>) = <<>>
  BY <1>1
<1> QED
  BY <1>1, <1>2, <1>3, <1>4 DEF Promise!Init, Promise!NoCall

\* The end of a call.
LEMMA HandedAtEnd ==
  ASSUME ReadInv, ReadInv', Recovers, Recovers', CallStatus = "reading",
         NEW s \in Seq(Int), Delivered' = Delivered \o s,
         UNCHANGED <<size, callVars, gaveup>>, pc' = "done"
  PROVE  Promise!Next
<1>1. CallStatus' = "done"
  BY DEF CallStatus
<1>2. Promise!Take(Len(s)) /\ Len(s) \in 0..size
  BY <1>1, HandedOver
<1>3. CASE gaveup
  BY <1>1, <1>2, <1>3 DEF Promise!Next, Promise!Finish
<1>4. CASE ~gaveup
  <2>1. Len(Delivered') >= Lesser(limit', had' - first')
    BY <1>4 DEF ReadInv, CompleteInv, CompleteAtEnd
  <2>2. /\ first \in Nat /\ limit \in Nat /\ had \in Nat
    BY HeldFacts
  <2>3. Delivered' \in Seq(Int)
    BY HeldFacts
  <2>4. Len(Delivered') >= limit \/ first + Len(Delivered') >= had
    BY <2>1, <2>2, <2>3 DEF Lesser, callVars
  <2>5. /\ CallMade.limit = limit /\ CallMade.first = first /\ CallMade.had = had
        /\ (IF Recovers THEN Delivered ELSE <<>>)' = Delivered'
    BY DEF CallMade
  <2>6. Promise!Complete
    BY <2>4, <2>5 DEF Promise!Complete
  <2> QED
    BY <1>1, <1>2, <2>6 DEF Promise!Next, Promise!Finish
<1> QED
  BY <1>3, <1>4

LEMMA HandedOn ==
  ASSUME ReadInv, ReadInv', Recovers, Recovers', CallStatus = "reading",
         NEW s \in Seq(Int), Delivered' = Delivered \o s,
         UNCHANGED <<size, callVars, gaveup>>, CallStatus' = "reading"
  PROVE  Promise!Next
<1>1. Promise!Take(Len(s)) /\ Len(s) \in 0..size
  BY HandedOver
<1> QED
  BY <1>1 DEF Promise!Next, Promise!Deliver

\* The first step of a call.
LEMMA CallBegins ==
  ASSUME Recovers, Recovers', pc = "idle", CallStatus' = "reading",
         NEW a \in Firsts, NEW n \in Limits \cup {Unlimited},
         first' = a, limit' = n, had' = size, fmt' = fmt,
         Delivered' = Delivered, UNCHANGED <<size, gaveup>>
  PROVE  Promise!Next
<1>1. CallStatus = "idle"
  BY DEF CallStatus
<1> DEFINE e == fmt # "json"
<1>2. CallMade' = [first |-> a, limit |-> n, exact |-> e, had |-> size]
  BY DEF CallMade
<1>3. (Recovers /\ gaveup)' = (Recovers /\ gaveup)
  BY Zenon
<1>4. (IF Recovers THEN Delivered ELSE <<>>)' = (IF Recovers THEN Delivered ELSE <<>>)
  BY Zenon
<1>5. e \in BOOLEAN
  OBVIOUS
<1> HIDE DEF e
<1>6. Promise!Ask(a, n, e)
  BY <1>1, <1>2, <1>3, <1>4 DEF Promise!Ask
<1> QED
  BY <1>5, <1>6 DEF Promise!Next

LEMMA ReadCallNext ==
  ASSUME ReadInv, ReadInv', Recovers, [Next]_vars
  PROVE  [Promise!Next]_(Promise!vars)
<1>0. Recovers'
  BY RecoversKept
<1> USE DEF callVars, chunkVars, retryVars
<1>00. ReadInv => CountersInv
  BY DEF ReadInv
<1>000. /\ got \in Seq(Int) /\ out \in Seq(Int) /\ width \in Nat /\ <<>> \in Seq(Int)
        /\ Delivered \in Seq(Int) /\ Delivered \o <<>> = Delivered
  BY HeldFacts
<1>1. CASE ItemArrives
  <2>1. size' = size + 1 /\ UNCHANGED <<callVars, gaveup, Delivered, pc>>
    BY <1>1 DEF ItemArrives, Delivered
  <2>2. CallStatus' = CallStatus /\ CallMade' = CallMade
    BY <1>0, <2>1 DEF CallStatus, CallMade
  <2>3. (Recovers /\ gaveup)' = (Recovers /\ gaveup)
    BY <1>0, <2>1, Zenon
  <2>4. (IF Recovers THEN Delivered ELSE <<>>)' = (IF Recovers THEN Delivered ELSE <<>>)
    BY <1>0, <2>1, Zenon
  <2> QED
    BY <2>1, <2>2, <2>3, <2>4 DEF Promise!Next, Promise!Grow
<1>2. ASSUME NEW a \in Firsts, NEW n \in Limits \cup {Unlimited}, Iter(a, n)
      PROVE  Promise!Next
  <2>1. /\ pc = "idle" /\ pc' = "attempt" /\ first' = a /\ limit' = n /\ had' = size
        /\ UNCHANGED <<size, fmt, gaveup>>
    BY <1>2 DEF Iter, Calls, Begin
  <2>2. Delivered' = Delivered
    BY <1>2, <1>00 DEF Iter, Calls, Begin, Delivered, CountersInv, ListsLeft
  <2>3. CallStatus' = "reading"
    BY <1>0, <2>1 DEF CallStatus
  <2> QED
    BY <1>0, <2>1, <2>2, <2>3, CallBegins
<1>3. ASSUME NEW a \in Firsts, NEW n \in Limits \cup {Unlimited}, NEW c \in Widths,
             ListIter(a, n, c)
      PROVE  Promise!Next
  <2>1. /\ pc = "idle" /\ pc' = "chunk" /\ first' = a /\ limit' = n /\ had' = size
        /\ UNCHANGED <<size, fmt, gaveup>>
    BY <1>3 DEF ListIter, Calls
  <2>2. Delivered' = Delivered
    BY <1>3, <1>00 DEF ListIter, Calls, Delivered, CountersInv, ListsLeft
  <2>3. CallStatus' = "reading"
    BY <1>0, <2>1 DEF CallStatus
  <2> QED
    BY <1>0, <2>1, <2>2, <2>3, CallBegins
<1>4. CASE Attempt
  <2>1. /\ pc = "attempt" /\ UNCHANGED <<size, callVars, chunkVars, got>>
        /\ \/ pc' = "request" /\ UNCHANGED gaveup
           \/ pc' = "ended" /\ gaveup' = TRUE
    BY <1>4 DEF Attempt
  <2>2. Delivered' = Delivered /\ CallStatus' = CallStatus /\ CallStatus = "reading"
    BY <1>0, <2>1 DEF Delivered, CallStatus
  <2>3. CASE UNCHANGED gaveup
    BY <1>0, <2>1, <2>2, <2>3, NothingSeen
  <2>4. CASE gaveup' = TRUE
    <3>1. CallMade' = CallMade
      BY <2>1, <2>2 DEF CallMade
    <3>2. (Recovers /\ gaveup)' = TRUE
      BY <1>0, <2>4
    <3>3. (IF Recovers THEN Delivered ELSE <<>>)' = (IF Recovers THEN Delivered ELSE <<>>)
      BY <1>0, <2>2, Zenon
    <3> QED
      BY <2>1, <2>2, <3>1, <3>2, <3>3 DEF Promise!Next, Promise!GiveUp
  <2> QED
    BY <2>1, <2>3, <2>4
<1>5. CASE StreamFails
  <2>1. /\ pc = "stream" /\ pc' = "attempt" /\ UNCHANGED <<size, callVars, chunkVars, got, gaveup>>
    BY <1>5 DEF StreamFails, Retry
  <2> QED
    BY <1>0, <2>1, NothingSeen DEF Delivered, CallStatus
<1>6. CASE RequestServed
  <2>1. /\ pc = "request" /\ pc' = "stream" /\ UNCHANGED <<size, callVars, chunkVars, got, gaveup>>
    BY <1>6 DEF RequestServed
  <2> QED
    BY <1>0, <2>1, NothingSeen DEF Delivered, CallStatus
<1>7. ASSUME NEW why \in {"busy", "status", "connection", "other"}, RequestAgain(why)
      PROVE  UNCHANGED Promise!vars
  <2>1. UNCHANGED <<size, callVars, chunkVars, got, gaveup, pc>>
    BY <1>7 DEF RequestAgain
  <2> QED
    BY <1>0, <2>1, NothingSeen DEF Delivered, CallStatus
<1>8. ASSUME RequestEnds
      PROVE  [Promise!Next]_(Promise!vars)
  <2>1. /\ pc = "request" /\ pc' \in {"raised", "astray", "attempt"}
        /\ UNCHANGED <<size, callVars, chunkVars, got, gaveup>>
    BY <1>8 DEF RequestEnds, Retry
  <2>2. CASE pc' = "attempt"
    BY <1>0, <2>1, <2>2, NothingSeen DEF Delivered, CallStatus
  <2>3. CASE pc' \in {"raised", "astray"}
    <3>1. CallStatus = "reading" /\ CallStatus' = pc' /\ Delivered' = Delivered
      BY <1>0, <2>1, <2>3 DEF CallStatus, Delivered
    <3>2. CallMade' = CallMade
      BY <2>1, <3>1 DEF CallMade
    <3>3. (Recovers /\ gaveup)' = (Recovers /\ gaveup)
      BY <1>0, <2>1, Zenon
    <3>4. (IF Recovers THEN Delivered ELSE <<>>)' = (IF Recovers THEN Delivered ELSE <<>>)
      BY <1>0, <3>1, Zenon
    <3>5. Promise!Break(pc')
      BY <2>1, <3>1, <3>2, <3>3, <3>4 DEF Promise!Break
    <3> QED
      BY <2>3, <3>5 DEF Promise!Next
  <2> QED
    BY <2>1, <2>2, <2>3
<1>9. CASE ReceiveLine
  <2>1. /\ pc = "stream" /\ body # <<>> /\ got' = Append(got, Head(body))
        /\ UNCHANGED <<size, callVars, chunkVars, gaveup, pc>>
    BY <1>9 DEF ReceiveLine
  <2>2. CallStatus = "reading" /\ CallStatus' = CallStatus
    BY <1>0, <2>1 DEF CallStatus
  <2>3. CASE width = 0
    <3>1. body \in Seq(Nat)
      BY <1>00 DEF CountersInv, TypeOK, ReadTypes
    <3>2. <<Head(body)>> \in Seq(Int) /\ Append(got, Head(body)) = got \o <<Head(body)>>
      BY <1>000, <2>1, <3>1
    <3>3. Delivered' = Delivered \o <<Head(body)>>
      BY <2>1, <2>3, <3>2 DEF Delivered
    <3> QED
      BY <1>0, <2>1, <2>2, <3>2, <3>3, HandedOn
  <2>4. CASE width # 0
    BY <1>0, <2>1, <2>2, <2>4, NothingSeen DEF Delivered
  <2> QED
    BY <2>3, <2>4
<1>10. ASSUME NEW n \in 1..MaxChunk, ReceiveBytes(n)
       PROVE  [Promise!Next]_(Promise!vars)
  <2>1. /\ pc = "stream" /\ UNCHANGED <<size, callVars, chunkVars, gaveup, pc>>
    BY <1>10 DEF ReceiveBytes
  <2>2. CallStatus = "reading" /\ CallStatus' = CallStatus
    BY <1>0, <2>1 DEF CallStatus
  <2>3. CASE width = 0
    <3>1. PICK s \in Seq(Int) : got' = got \o s
      BY <1>00, <1>10, BytesReceived
    <3>2. Delivered' = Delivered \o s
      BY <2>1, <2>3, <3>1 DEF Delivered
    <3> QED
      BY <1>0, <2>1, <2>2, <3>2, HandedOn
  <2>4. CASE width # 0
    BY <1>0, <2>1, <2>2, <2>4, NothingSeen DEF Delivered
  <2> QED
    BY <2>3, <2>4
<1>11. CASE StreamEnds
  <2>1. /\ pc = "stream" /\ pc' = "ended" /\ UNCHANGED <<size, callVars, chunkVars, got, gaveup>>
    BY <1>11 DEF StreamEnds
  <2> QED
    BY <1>0, <2>1, NothingSeen DEF Delivered, CallStatus
<1>12. CASE EndIter
  <2>1. /\ pc = "ended" /\ pc' = "done" /\ UNCHANGED <<size, callVars, chunkVars, got, gaveup>>
    BY <1>12 DEF EndIter
  <2>2. CallStatus = "reading" /\ Delivered' = Delivered \o <<>>
    BY <1>000, <2>1 DEF CallStatus, Delivered
  <2> QED
    BY <1>0, <1>000, <2>1, <2>2, HandedAtEnd
<1>13. CASE EndChunk
  <2>1. /\ pc = "ended" /\ width > 0 /\ out' = out \o got /\ pc' \in {"done", "chunk"}
        /\ UNCHANGED <<size, callVars, width, gaveup>>
    BY <1>13 DEF EndChunk
  <2>2. CallStatus = "reading" /\ Delivered' = Delivered \o got
    BY <1>000, <2>1 DEF CallStatus, Delivered
  <2>3. CASE pc' = "done"
    BY <1>0, <1>000, <2>1, <2>2, <2>3, HandedAtEnd
  <2>4. CASE pc' = "chunk"
    <3>1. CallStatus' = "reading"
      BY <1>0, <2>4 DEF CallStatus
    <3> QED
      BY <1>0, <1>000, <2>1, <2>2, <3>1, HandedOn
  <2> QED
    BY <2>1, <2>3, <2>4
<1>14. CASE NextChunk
  <2>1. /\ pc = "chunk" /\ pc' = "attempt" /\ UNCHANGED <<size, callVars, out, gaveup>>
    BY <1>14 DEF NextChunk, Begin
  <2>2. width > 0 /\ width' > 0
    <3>1. CountersInv'
      BY DEF ReadInv
    <3>2. /\ width > 0 /\ processed < limit
          /\ width \in Nat /\ limit \in Nat /\ processed \in Nat
      BY <1>00, <2>1 DEF CountersInv, ListsLeft, TypeOK, CallTypes
    <3> QED
      BY <1>14, <3>2 DEF NextChunk, Lesser
  <2>3. Delivered' = Delivered /\ CallStatus' = CallStatus
    BY <1>0, <1>000, <2>1, <2>2 DEF Delivered, CallStatus
  <2> QED
    BY <1>0, <2>1, <2>3, NothingSeen
<1>15. CASE UNCHANGED vars
  BY <1>0, <1>15, NothingSeen DEF vars, Delivered, CallStatus
<1> QED
  BY <1>1, <1>2, <1>3, <1>4, <1>5, <1>6, <1>7, <1>8, <1>9, <1>10, <1>11, <1>12, <1>13,
     <1>14, <1>15, FailuresEnd DEF Next, Reader

\* Every reader implements ReadCall, for every count, list length, number of attempts
\* and way to fail, but for a msgpack read of which the connection may break: what its
\* caller is handed at each step are the next items that the job has, and it ends with
\* all of them, after it gave up, by an exception, or, Job.items, when it takes the body
\* of an error for items, after which it promises nothing.
THEOREM ReadersRefine == Spec => ImplementsReadCall
<1>1. Init => Promise!Init
  BY ReadCallInit
<1>2. ReadInv /\ ReadInv' /\ [Next]_vars => [Promise!Next]_(Promise!vars)
  BY ReadCallNext, NotPromised, SizeSteps, RecoversKept
<1> QED
  BY <1>1, <1>2, ReadInvAlways, PTL DEF Spec, ImplementsReadCall, Promise!Spec
=============================================================================
