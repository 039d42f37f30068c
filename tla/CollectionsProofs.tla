------------------------- MODULE CollectionsProofs -------------------------
(***************************************************************************)
(* For any number of clients, keys, pages, calls and attempts: the         *)
(* variables of Collections.tla keep their types, a count and a get say    *)
(* what was so during the call, and a write that returned was served.      *)
(***************************************************************************)
EXTENDS CollectionsProperties, TLAPS, FiniteSetTheorems, WellFoundedInduction

LEMMA AttemptsType == \A c \in Clients : MaxAttempts(c) \in Nat \ {0}
BY CollectionsAssumption DEF MaxAttempts, OnlyRetries

\* A client that waits for an answer has an attempt left.
TriesInv == TypeOK /\ \A c \in Clients : pc[c] = "sent" => tries[c] + 1 <= MaxAttempts(c)

LEMMA InitTries == Init => TriesInv
<1> SUFFICES ASSUME Init PROVE TriesInv OBVIOUS
<1>1. writer \in [Keys -> Calling] BY DEF Init, Nobody, Calling
<1>2. op \in [Clients -> Methods] /\ result \in [Clients -> Results]
  BY DEF Init, Methods, Results
<1>3. tries \in [Clients -> Nat] /\ \A c \in Clients : tries[c] <= MaxAttempts(c)
  BY AttemptsType DEF Init
<1>4. acked \in [Clients -> [Keys -> Nat]] BY DEF Init
<1> QED BY <1>1, <1>2, <1>3, <1>4 DEF Init, TriesInv, TypeOK

\* What sending a request, and an attempt that fails, do to the types.
RequestTypes(c) ==
  /\ pc' \in [Clients -> {"idle", "sent", "returned"}]
  /\ tries' \in [Clients -> Nat]
  /\ extra' \in [Clients -> Nat]
  /\ \A x \in Clients : /\ tries'[x] <= MaxAttempts(x)
                        /\ pc'[x] = "sent" => tries'[x] + 1 <= MaxAttempts(x)

LEMMA RequestKeepsTypes ==
  ASSUME TriesInv, NEW c \in Clients, Request(c)
  PROVE  RequestTypes(c)
<1>1. tries' = [tries EXCEPT ![c] = 0] /\ pc' = [pc EXCEPT ![c] = "sent"]
      /\ extra' = [extra EXCEPT ![c] = 0]
  BY DEF Request, NewCount
<1> QED BY <1>1, AttemptsType DEF TriesInv, TypeOK, RequestTypes

LEMMA ReturnTypes ==
  ASSUME TriesInv, NEW c \in Clients, NEW how \in Results, Return(c, how), NewCount(c)
  PROVE  RequestTypes(c) /\ result' \in [Clients -> Results]
<1>1. tries' = [tries EXCEPT ![c] = 0] /\ pc' = [pc EXCEPT ![c] = "returned"]
      /\ extra' = [extra EXCEPT ![c] = 0] /\ result' = [result EXCEPT ![c] = how]
  BY DEF Return, NewCount
<1>2. \A x \in Clients : pc'[x] = "sent" => x # c /\ pc[x] = "sent"
  BY <1>1 DEF TriesInv, TypeOK
<1> QED BY <1>1, <1>2, AttemptsType DEF TriesInv, TypeOK, RequestTypes

LEMMA AttemptFailsTypes ==
  ASSUME TriesInv, NEW c \in Clients, pc[c] = "sent", AttemptFails(c)
  PROVE  /\ RequestTypes(c)
         /\ result' \in [Clients -> Results] /\ acked' = acked
<1>1. PICK d \in Delays, j \in Jitters :
        /\ tries' = [tries EXCEPT ![c] = @ + 1]
        /\ \/ /\ StopRetrying(c, spent[c] + d) /\ Return(c, "failed")
              /\ Acknowledged(c, "failed") /\ extra' = [extra EXCEPT ![c] = @ + d]
           \/ /\ ~StopRetrying(c, spent[c] + d) /\ UNCHANGED <<pc, result, acked>>
              /\ extra' = [extra EXCEPT ![c] = @ + d + j]
  BY DEF AttemptFails, GivenUp
<1>2. extra' \in [Clients -> Nat]
  <2>1. d \in Nat /\ j \in Nat BY CollectionsAssumption
  <2> QED BY <1>1, <2>1 DEF TriesInv, TypeOK
<1>3. tries' \in [Clients -> Nat] /\ \A x \in Clients : tries'[x] <= MaxAttempts(x)
  BY <1>1, AttemptsType DEF TriesInv, TypeOK
<1>4. CASE StopRetrying(c, spent[c] + d) /\ Return(c, "failed") /\ Acknowledged(c, "failed")
  <2>1. pc' = [pc EXCEPT ![c] = "returned"] /\ result' = [result EXCEPT ![c] = "failed"]
        /\ acked' = acked
    BY <1>4 DEF Return, Acknowledged
  <2>2. \A x \in Clients : pc'[x] = "sent" => x # c /\ pc[x] = "sent"
    BY <2>1 DEF TriesInv, TypeOK
  <2>3. \A x \in Clients : pc'[x] = "sent" => tries'[x] + 1 <= MaxAttempts(x)
    BY <1>1, <2>2 DEF TriesInv, TypeOK
  <2> QED BY <1>2, <1>3, <2>1, <2>3 DEF TriesInv, TypeOK, Results, RequestTypes
<1>5. CASE ~StopRetrying(c, spent[c] + d) /\ UNCHANGED <<pc, result, acked>>
  <2>1. ~(tries[c] + 1 >= MaxAttempts(c)) BY <1>5 DEF StopRetrying
  <2>2. \A x \in Clients : pc'[x] = "sent" => tries'[x] + 1 <= MaxAttempts(x)
    BY <1>1, <1>5, <2>1, AttemptsType DEF TriesInv, TypeOK
  <2> QED BY <1>2, <1>3, <1>5, <2>2 DEF TriesInv, TypeOK, RequestTypes
<1> QED BY <1>1, <1>4, <1>5

LEMMA EffectTypes ==
  ASSUME TypeOK, NEW c \in Clients, NEW n \in Nat, NEW m, NEW K \in SUBSET Keys,
         NEW isLate \in BOOLEAN, Effect(c, n, m, K, isLate)
  PROVE  /\ present' \subseteq Keys /\ writer' \in [Keys -> Calling]
         /\ always' \in [Clients -> SUBSET Keys] /\ ever' \in [Clients -> SUBSET Keys]
<1>1. present' \subseteq Keys BY DEF Effect, TypeOK
<1>2. [by |-> c, n |-> n, late |-> isLate] \in Calling BY DEF Calling
<1>3. writer' \in [Keys -> Calling] BY <1>2 DEF Effect, TypeOK
<1>4. always' \in [Clients -> SUBSET Keys] BY <1>1 DEF Effect, TypeOK
<1>5. ever' \in [Clients -> SUBSET Keys] BY <1>1 DEF Effect, TypeOK
<1> QED BY <1>1, <1>3, <1>4, <1>5

LEMMA AcknowledgedTypes ==
  ASSUME TypeOK, NEW c \in Clients, NEW how, Acknowledged(c, how)
  PROVE  acked' \in [Clients -> [Keys -> Nat]]
<1>1. [k \in Keys |-> IF k \in keys[c] THEN calls[c] ELSE acked[c][k]] \in [Keys -> Nat]
  BY DEF TypeOK
<1>2. \/ acked' = acked
      \/ acked' = [acked EXCEPT ![c] =
                     [k \in Keys |-> IF k \in keys[c] THEN calls[c] ELSE acked[c][k]]]
  BY DEF Acknowledged
<1> QED BY <1>1, <1>2 DEF TypeOK

LEMMA BeginTypes ==
  ASSUME TriesInv, NEW c \in Clients, NEW m \in Methods, NEW K \in SUBSET Keys, Begin(c, m, K)
  PROVE  TriesInv'
<1>1. RequestTypes(c) BY RequestKeepsTypes DEF Begin
<1>2. op' \in [Clients -> Methods] /\ keys' \in [Clients -> SUBSET Keys]
  BY DEF Begin, TriesInv, TypeOK
<1>3. start' \in [Clients -> Nat] /\ total' \in [Clients -> Nat] /\ calls' \in [Clients -> Nat]
  BY DEF Begin, TriesInv, TypeOK
<1>4. always' \in [Clients -> SUBSET Keys] /\ ever' \in [Clients -> SUBSET Keys]
  BY DEF Begin, TriesInv, TypeOK
<1>5. UNCHANGED <<serverVars, result, acked>> BY DEF Begin
<1> QED BY <1>1, <1>2, <1>3, <1>4, <1>5 DEF TriesInv, TypeOK, RequestTypes, serverVars

LEMMA AnsweredTypes ==
  ASSUME TriesInv, NEW c \in Clients, NEW how \in Results, Answered(c, how)
  PROVE  TriesInv'
<1>1. UNCHANGED <<serverVars, op, keys, start, total, calls, acked, seenVars>>
  BY DEF Answered
<1>2. RequestTypes(c) /\ result' \in [Clients -> Results] BY ReturnTypes DEF Answered
<1> QED BY <1>1, <1>2 DEF TriesInv, TypeOK, RequestTypes, serverVars, seenVars

LEMMA ErrorTypes == \A m, code : ErrorOf(m, code) \in Results
BY DEF ErrorOf, Results

LEMMA CallsTries ==
  ASSUME TriesInv, NEW c \in Clients, Calls(c)
  PROVE  TriesInv'
<1>1. {"set", "delete", "truncate", "get", "count"} \subseteq Methods
  BY DEF Methods, Writes, Reads
<1>2. \A K \in Batches : K \in SUBSET Keys BY CollectionsAssumption DEF Keys
<1>3. \A k \in Keys : {k} \in SUBSET Keys OBVIOUS
<1> QED BY <1>1, <1>2, <1>3, BeginTypes DEF Calls, Set, Delete, Get, Truncate, Count

LEMMA InCallTries ==
  ASSUME TriesInv, NEW c \in Clients, InCall(c)
  PROVE  TriesInv'
<1>1. ASSUME ServeWrite(c) PROVE TriesInv'
  <2>1. calls[c] \in Nat /\ keys[c] \in SUBSET Keys BY DEF TriesInv, TypeOK
  <2>2. Effect(c, calls[c], op[c], keys[c], FALSE) BY <1>1 DEF ServeWrite
  <2>3. /\ present' \subseteq Keys /\ writer' \in [Keys -> Calling]
        /\ always' \in [Clients -> SUBSET Keys] /\ ever' \in [Clients -> SUBSET Keys]
    BY <2>1, <2>2, EffectTypes DEF TriesInv
  <2>4. UNCHANGED <<late, op, keys, start, total, calls>>
    BY <1>1 DEF ServeWrite, AttemptFails
  <2>5. CASE AttemptFails(c)
    <3>1. RequestTypes(c) /\ result' \in [Clients -> Results] /\ acked' = acked
      BY <1>1, <2>5, AttemptFailsTypes DEF ServeWrite, Sent
    <3> QED BY <2>3, <2>4, <3>1 DEF TriesInv, TypeOK, RequestTypes
  <2>6. CASE Return(c, "ok") /\ Acknowledged(c, "ok") /\ NewCount(c)
    <3>1. acked' \in [Clients -> [Keys -> Nat]] BY <2>6, AcknowledgedTypes DEF TriesInv
    <3>2. "ok" \in Results BY DEF Results
    <3>3. RequestTypes(c) /\ result' \in [Clients -> Results] BY <2>6, <3>2, ReturnTypes
    <3> QED BY <2>3, <2>4, <3>1, <3>3 DEF TriesInv, TypeOK, RequestTypes
  <2> QED BY <1>1, <2>5, <2>6 DEF ServeWrite
<1>2. ASSUME ServeGet(c) PROVE TriesInv'
  <2>1. PICK how \in Results : Answered(c, how)
    BY <1>2, ErrorTypes DEF ServeGet, Results
  <2> QED BY <2>1, AnsweredTypes
<1>3. ASSUME ServeCount(c) PROVE TriesInv'
  <2>1. UNCHANGED <<serverVars, op, keys, calls, acked, seenVars>> BY <1>3 DEF ServeCount
  <2>2. total' = [total EXCEPT ![c] = @ + Cardinality(present \cap Page(c))]
    BY <1>3 DEF ServeCount, Total, TriesInv, TypeOK
  <2>3. Cardinality(present \cap Page(c)) \in Nat
    <3>1. IsFiniteSet(Keys) BY FS_Interval, CollectionsAssumption DEF Keys
    <3>2. IsFiniteSet(present \cap Page(c)) BY <3>1, FS_Subset DEF Page
    <3> QED BY <3>2, FS_CardinalityType
  <2>4. total' \in [Clients -> Nat] BY <2>2, <2>3 DEF TriesInv, TypeOK
  <2>5. CASE Return(c, "ok") /\ NewCount(c) /\ UNCHANGED start
    <3>1. "ok" \in Results BY DEF Results
    <3>2. RequestTypes(c) /\ result' \in [Clients -> Results] BY <2>5, <3>1, ReturnTypes
    <3> QED BY <2>1, <2>4, <2>5, <3>2
           DEF TriesInv, TypeOK, RequestTypes, serverVars, seenVars
  <2>6. CASE /\ NextStart(c) # None /\ start' = [start EXCEPT ![c] = NextStart(c)]
             /\ Request(c) /\ UNCHANGED result
    <3>1. RequestTypes(c) BY <2>6, RequestKeepsTypes
    <3>2. NextStart(c) \in Nat
      BY <2>6, CollectionsAssumption DEF NextStart, TriesInv, TypeOK
    <3>3. start' \in [Clients -> Nat] BY <2>6, <3>2 DEF TriesInv, TypeOK
    <3> QED BY <2>1, <2>4, <2>6, <3>1, <3>3
           DEF TriesInv, TypeOK, RequestTypes, serverVars, seenVars
  <2> QED BY <1>3, <2>5, <2>6 DEF ServeCount, Moved
<1>4. ASSUME Lose(c) PROVE TriesInv'
  <2>1. RequestTypes(c) /\ result' \in [Clients -> Results] /\ acked' = acked
    BY <1>4, AttemptFailsTypes DEF Lose
  <2>2. UNCHANGED <<op, keys, start, total, calls>> BY <1>4 DEF Lose, AttemptFails
  <2>3. UNCHANGED <<serverVars, seenVars>> BY <1>4 DEF Lose
  <2> QED BY <2>1, <2>2, <2>3 DEF TriesInv, TypeOK, RequestTypes, serverVars, seenVars
<1>5. ASSUME Delay(c) PROVE TriesInv'
  <2>1. RequestTypes(c) /\ result' \in [Clients -> Results] /\ acked' = acked
    BY <1>5, AttemptFailsTypes DEF Delay, Sent
  <2>2. UNCHANGED <<op, keys, start, total, calls>> BY <1>5 DEF Delay, AttemptFails
  <2>3. UNCHANGED <<present, writer, seenVars>> BY <1>5 DEF Delay
  <2>4. [by |-> c, n |-> calls[c], op |-> op[c], keys |-> keys[c]] \in Requests
    BY <1>5 DEF Delay, Sent, TriesInv, TypeOK, Requests
  <2>5. late' \subseteq Requests BY <1>5, <2>4 DEF Delay, TriesInv, TypeOK
  <2> QED BY <2>1, <2>2, <2>3, <2>5 DEF TriesInv, TypeOK, RequestTypes, seenVars
<1>6. ASSUME Leave(c) PROVE TriesInv'
  <2>1. /\ pc' \in [Clients -> {"idle", "sent", "returned"}]
        /\ op' \in [Clients -> Methods] /\ keys' \in [Clients -> SUBSET Keys]
        /\ result' \in [Clients -> Results] /\ extra' \in [Clients -> Nat]
        /\ always' \in [Clients -> SUBSET Keys] /\ ever' \in [Clients -> SUBSET Keys]
    BY <1>6 DEF Leave, NewCount, TriesInv, TypeOK, Methods, Results
  <2>2. start' \in [Clients -> Nat] /\ total' \in [Clients -> Nat] /\ tries' \in [Clients -> Nat]
    BY <1>6 DEF Leave, NewCount, TriesInv, TypeOK
  <2>3. \A x \in Clients : /\ tries'[x] <= MaxAttempts(x)
                           /\ pc'[x] = "sent" => x # c /\ pc[x] = "sent" /\ tries'[x] = tries[x]
    BY <1>6, AttemptsType DEF Leave, NewCount, TriesInv, TypeOK
  <2>4. UNCHANGED <<serverVars, calls, acked>> BY <1>6 DEF Leave
  <2> QED BY <2>1, <2>2, <2>3, <2>4 DEF TriesInv, TypeOK, serverVars
<1>7. ASSUME NEW code \in Codes, Refuse(c, code) PROVE TriesInv'
  BY <1>7, AnsweredTypes, ErrorTypes DEF Refuse
<1>8. ASSUME AnswerBreaks(c) PROVE TriesInv'
  <2>1. "broken" \in Results BY DEF Results
  <2>2. RequestTypes(c) /\ result' \in [Clients -> Results]
    BY <1>8, <2>1, ReturnTypes DEF AnswerBreaks
  <2>3. UNCHANGED <<late, op, keys, start, total, calls, acked>> BY <1>8 DEF AnswerBreaks
  <2>4. CASE Effect(c, calls[c], op[c], keys[c], FALSE)
    <3>1. calls[c] \in Nat /\ keys[c] \in SUBSET Keys BY DEF TriesInv, TypeOK
    <3>2. /\ present' \subseteq Keys /\ writer' \in [Keys -> Calling]
          /\ always' \in [Clients -> SUBSET Keys] /\ ever' \in [Clients -> SUBSET Keys]
      BY <2>4, <3>1, EffectTypes DEF TriesInv
    <3> QED BY <2>2, <2>3, <3>2 DEF TriesInv, TypeOK, RequestTypes
  <2>5. CASE UNCHANGED <<present, writer, seenVars>>
    BY <2>2, <2>3, <2>5 DEF TriesInv, TypeOK, RequestTypes, seenVars
  <2> QED BY <1>8, <2>4, <2>5 DEF AnswerBreaks
<1> QED BY <1>1, <1>2, <1>3, <1>4, <1>5, <1>6, <1>7, <1>8 DEF InCall

LEMMA NextTries == TriesInv /\ [Next]_vars => TriesInv'
<1>1. ASSUME TriesInv, ServeLate PROVE TriesInv'
  <2>1. PICK r \in late : late' = late \ {r} /\ Effect(r.by, r.n, r.op, r.keys, TRUE)
                          /\ UNCHANGED <<callVars, retryVars>>
    BY <1>1 DEF ServeLate
  <2>2. r.by \in Clients /\ r.n \in Nat /\ r.keys \in SUBSET Keys
    BY <1>1 DEF TriesInv, TypeOK, Requests
  <2>3. /\ present' \subseteq Keys /\ writer' \in [Keys -> Calling]
        /\ always' \in [Clients -> SUBSET Keys] /\ ever' \in [Clients -> SUBSET Keys]
    BY <1>1, <2>1, <2>2, EffectTypes DEF TriesInv
  <2> QED BY <1>1, <2>1, <2>3 DEF TriesInv, TypeOK, callVars, retryVars
<1>2. TriesInv /\ UNCHANGED vars => TriesInv'
  BY DEF TriesInv, TypeOK, vars, serverVars, callVars, retryVars, seenVars
<1> QED BY <1>1, <1>2, CallsTries, InCallTries DEF Next

LEMMA TriesAlways == Spec => []TriesInv
BY InitTries, NextTries, PTL DEF Spec

\* The type invariant of run collections; part of it is that the retrier never
\* makes more attempts than it was created for.
THEOREM CollectionsTypeCorrect == Spec => []TypeOK
<1>1. TriesInv => TypeOK BY DEF TriesInv
<1> QED BY <1>1, TriesAlways, PTL

(***************************************************************************)
(* What a read tells: while it waits, always and ever are around what the  *)
(* server has, and the pages counted so far are between their sizes.       *)
(***************************************************************************)
Before(n) == {k \in Keys : k < n}

Reading(x) ==
  Sent(x, Reads) =>
    /\ always[x] \subseteq present /\ present \subseteq ever[x]
    /\ op[x] = "count" =>
         /\ Cardinality(always[x] \cap Before(start[x])) <= total[x]
         /\ total[x] <= Cardinality(ever[x] \cap Before(start[x]))

ReadDone(x) ==
  pc[x] = "returned" =>
    /\ (op[x] = "count" /\ result[x] = "ok") =>
         Cardinality(always[x]) <= total[x] /\ total[x] <= Cardinality(ever[x])
    /\ (op[x] = "get" /\ result[x] = "found") => keys[x] \subseteq ever[x]
    /\ (op[x] = "get" /\ result[x] = "KeyError") => ~ keys[x] \subseteq always[x]

ReadsInv == \A x \in Clients : Reading(x) /\ ReadDone(x)

LEMMA FiniteKeys ==
  ASSUME NEW S \in SUBSET Keys
  PROVE  IsFiniteSet(S) /\ Cardinality(S) \in Nat
<1>1. IsFiniteSet(Keys) BY FS_Interval, CollectionsAssumption DEF Keys
<1>2. IsFiniteSet(S) BY <1>1, FS_Subset
<1> QED BY <1>2, FS_CardinalityType

LEMMA SmallerKeys ==
  ASSUME NEW S \in SUBSET Keys, NEW T \in SUBSET S
  PROVE  Cardinality(T) <= Cardinality(S)
BY FiniteKeys, FS_Subset

\* The keys of a set before the next page are those before this page and those in it.
LEMMA PageCounts ==
  ASSUME NEW c \in Clients, start[c] \in Nat, NEW S \in SUBSET Keys
  PROVE  Cardinality(S \cap Before(start[c] + PageSize))
           = Cardinality(S \cap Before(start[c])) + Cardinality(S \cap Page(c))
<1> DEFINE A == S \cap Before(start[c])
           B == S \cap Page(c)
<1>1. A \cup B = S \cap Before(start[c] + PageSize) /\ A \cap B = {}
  BY CollectionsAssumption DEF Before, Page, Keys
<1>2. A \in SUBSET Keys /\ B \in SUBSET Keys OBVIOUS
<1> HIDE DEF A, B
<1>3. IsFiniteSet(A) /\ IsFiniteSet(B) /\ Cardinality(A) \in Nat /\ Cardinality(B) \in Nat
  BY <1>2, FiniteKeys
<1>4. Cardinality(A \cup B) = Cardinality(A) + Cardinality(B) - Cardinality(A \cap B)
  BY <1>3, FS_Union
<1>5. Cardinality(A \cap B) = 0 BY <1>1, FS_EmptySet
<1>6. Cardinality(A \cup B) = Cardinality(A) + Cardinality(B) BY <1>3, <1>4, <1>5
<1> QED BY <1>1, <1>6 DEF A, B

\* One page more keeps the total between the two sizes.
LEMMA PageAdded ==
  ASSUME TypeOK, NEW c \in Clients, Sent(c, {"count"}), Reading(c)
  PROVE  LET n == total[c] + Cardinality(present \cap Page(c)) IN
           /\ Cardinality(always[c] \cap Before(start[c] + PageSize)) <= n
           /\ n <= Cardinality(ever[c] \cap Before(start[c] + PageSize))
<1>1. /\ always[c] \subseteq present /\ present \subseteq ever[c]
      /\ Cardinality(always[c] \cap Before(start[c])) <= total[c]
      /\ total[c] <= Cardinality(ever[c] \cap Before(start[c]))
  BY DEF Reading, Sent, Reads
<1>2. /\ start[c] \in Nat /\ total[c] \in Nat /\ ever[c] \in SUBSET Keys
      /\ always[c] \in SUBSET Keys /\ present \in SUBSET Keys
  BY DEF TypeOK
<1>3. Cardinality(always[c] \cap Page(c)) <= Cardinality(present \cap Page(c))
  <2>1. present \cap Page(c) \in SUBSET Keys
        /\ always[c] \cap Page(c) \in SUBSET (present \cap Page(c))
    BY <1>1, <1>2
  <2> QED BY <2>1, SmallerKeys
<1>4. Cardinality(present \cap Page(c)) <= Cardinality(ever[c] \cap Page(c))
  <2>1. ever[c] \cap Page(c) \in SUBSET Keys
        /\ present \cap Page(c) \in SUBSET (ever[c] \cap Page(c))
    BY <1>1, <1>2
  <2> QED BY <2>1, SmallerKeys
<1>5. /\ Cardinality(always[c] \cap Before(start[c])) \in Nat
      /\ Cardinality(always[c] \cap Page(c)) \in Nat
      /\ Cardinality(ever[c] \cap Before(start[c])) \in Nat
      /\ Cardinality(ever[c] \cap Page(c)) \in Nat
      /\ Cardinality(present \cap Page(c)) \in Nat
  <2>1. /\ always[c] \cap Before(start[c]) \in SUBSET Keys /\ always[c] \cap Page(c) \in SUBSET Keys
        /\ ever[c] \cap Before(start[c]) \in SUBSET Keys /\ ever[c] \cap Page(c) \in SUBSET Keys
        /\ present \cap Page(c) \in SUBSET Keys
    BY <1>2
  <2> QED BY <2>1, FiniteKeys
<1>6. Cardinality(always[c] \cap Before(start[c] + PageSize))
        = Cardinality(always[c] \cap Before(start[c])) + Cardinality(always[c] \cap Page(c))
  BY <1>2, PageCounts
<1>7. Cardinality(ever[c] \cap Before(start[c] + PageSize))
        = Cardinality(ever[c] \cap Before(start[c])) + Cardinality(ever[c] \cap Page(c))
  BY <1>2, PageCounts
<1> QED BY <1>1, <1>2, <1>3, <1>4, <1>5, <1>6, <1>7

\* A client whose own variables stay is told the same, whatever is written meanwhile.
LEMMA OthersRead ==
  ASSUME TypeOK, NEW x \in Clients, Reading(x), ReadDone(x),
         pc'[x] = pc[x], op'[x] = op[x], keys'[x] = keys[x], start'[x] = start[x],
         total'[x] = total[x], result'[x] = result[x],
         \/ present' = present /\ always'[x] = always[x] /\ ever'[x] = ever[x]
         \/ /\ present' \in SUBSET Keys
            /\ always'[x] = IF Sent(x, Reads) THEN always[x] \cap present' ELSE always[x]
            /\ ever'[x] = IF Sent(x, Reads) THEN ever[x] \cup present' ELSE ever[x]
  PROVE  Reading(x)' /\ ReadDone(x)'
<1>1. CASE present' = present /\ always'[x] = always[x] /\ ever'[x] = ever[x]
  BY <1>1 DEF Reading, ReadDone, Sent
<1>2. CASE ~Sent(x, Reads) BY <1>2 DEF Reading, ReadDone, Sent
<1>3. CASE /\ Sent(x, Reads) /\ present' \in SUBSET Keys
           /\ always'[x] = always[x] \cap present' /\ ever'[x] = ever[x] \cup present'
  <2>1. always[x] \in SUBSET Keys /\ ever[x] \in SUBSET Keys /\ total[x] \in Nat BY DEF TypeOK
  <2>2. ASSUME op[x] = "count"
        PROVE  /\ Cardinality(always'[x] \cap Before(start[x])) <= total[x]
               /\ total[x] <= Cardinality(ever'[x] \cap Before(start[x]))
    <3> DEFINE A == always[x] \cap Before(start[x])
               E == ever'[x] \cap Before(start[x])
    <3>1. /\ A \in SUBSET Keys /\ always'[x] \cap Before(start[x]) \in SUBSET A
          /\ E \in SUBSET Keys /\ ever[x] \cap Before(start[x]) \in SUBSET E
      BY <1>3, <2>1
    <3>2. /\ Cardinality(always'[x] \cap Before(start[x])) <= Cardinality(A)
          /\ Cardinality(ever[x] \cap Before(start[x])) <= Cardinality(E)
      BY <3>1, SmallerKeys
    <3>3. Cardinality(A) <= total[x] /\ total[x] <= Cardinality(ever[x] \cap Before(start[x]))
      BY <1>3, <2>2 DEF Reading
    <3>4. /\ Cardinality(A) \in Nat /\ Cardinality(E) \in Nat
          /\ Cardinality(always'[x] \cap Before(start[x])) \in Nat
          /\ Cardinality(ever[x] \cap Before(start[x])) \in Nat
      <4>1. always'[x] \cap Before(start[x]) \in SUBSET Keys
            /\ ever[x] \cap Before(start[x]) \in SUBSET Keys
        BY <2>1, <3>1
      <4> QED BY <3>1, <4>1, FiniteKeys
    <3> HIDE DEF A, E
    <3>5. /\ Cardinality(always'[x] \cap Before(start[x])) <= total[x]
          /\ total[x] <= Cardinality(E)
      BY <2>1, <3>2, <3>3, <3>4
    <3> QED BY <3>5 DEF E
  <2>3. always'[x] \subseteq present' /\ present' \subseteq ever'[x] BY <1>3
  <2>4. Reading(x)' BY <2>2, <2>3 DEF Reading, Before, Keys
  <2>5. ReadDone(x)' BY <1>3 DEF ReadDone, Sent
  <2> QED BY <2>4, <2>5
<1> QED BY <1>1, <1>2, <1>3

\* A step of client c leaves the variables of the others.
Frame(c) ==
  \A x \in Clients \ {c} :
    /\ pc'[x] = pc[x] /\ op'[x] = op[x] /\ keys'[x] = keys[x] /\ start'[x] = start[x]
    /\ total'[x] = total[x] /\ result'[x] = result[x]
    /\ always'[x] = always[x] /\ ever'[x] = ever[x]

LEMMA CallsReads ==
  ASSUME TypeOK, ReadsInv, NEW c \in Clients, Calls(c)
  PROVE  ReadsInv'
<1>1. PICK m \in Writes \cup Reads, K \in SUBSET Keys : Begin(c, m, K)
  <2>1. {"set", "delete", "truncate", "get", "count"} = Writes \cup Reads BY DEF Writes, Reads
  <2>2. \A K \in Batches : K \in SUBSET Keys BY CollectionsAssumption DEF Keys
  <2>3. \A k \in Keys : {k} \in SUBSET Keys OBVIOUS
  <2> QED BY <2>1, <2>2, <2>3 DEF Calls, Set, Delete, Get, Truncate, Count
<1>2. Frame(c) /\ present' = present
  BY <1>1 DEF Begin, Request, Frame, TypeOK, serverVars
<1>3. \A x \in Clients \ {c} : Reading(x)' /\ ReadDone(x)'
  BY <1>2, OthersRead DEF ReadsInv, Frame
<1>4. /\ pc'[c] = "sent" /\ op'[c] = m /\ start'[c] = 1 /\ total'[c] = 0
      /\ m \notin Writes => always'[c] = present /\ ever'[c] = present
  BY <1>1 DEF Begin, Request, TypeOK
<1>5. Cardinality(present \cap Before(1)) = 0
  <2>1. present \cap Before(1) = {} BY DEF TypeOK, Before, Keys
  <2> QED BY <2>1, FS_EmptySet
<1>6. Reading(c)'
  <2>1. Sent(c, Reads)' => m \notin Writes BY <1>4 DEF Sent, Reads, Writes
  <2>2. Before(1)' = Before(1) BY DEF Before, Keys
  <2> QED BY <1>2, <1>4, <1>5, <2>1, <2>2 DEF Reading, Before
<1>7. ReadDone(c)' BY <1>4 DEF ReadDone
<1> QED BY <1>3, <1>6, <1>7 DEF ReadsInv

\* An attempt that fails makes no claim.
LEMMA AttemptFailsReads ==
  ASSUME TypeOK, NEW c \in Clients, AttemptFails(c), Reading(c), pc[c] = "sent",
         present' = present, always'[c] = always[c], ever'[c] = ever[c]
  PROVE  Reading(c)' /\ ReadDone(c)'
<1>1. UNCHANGED <<op, keys, start, total>> BY DEF AttemptFails
<1>2. pc' = pc \/ (pc'[c] = "returned" /\ result'[c] = "failed")
  BY DEF AttemptFails, GivenUp, Return, TypeOK
<1> QED BY <1>1, <1>2 DEF Reading, ReadDone, Sent

LEMMA AttemptFrame ==
  ASSUME TypeOK, NEW c \in Clients, AttemptFails(c)
  PROVE  \A x \in Clients \ {c} :
           /\ pc'[x] = pc[x] /\ op'[x] = op[x] /\ keys'[x] = keys[x] /\ start'[x] = start[x]
           /\ total'[x] = total[x] /\ result'[x] = result[x]
<1>1. UNCHANGED <<op, keys, start, total>> BY DEF AttemptFails
<1>2. \/ UNCHANGED <<pc, result>>
      \/ pc' = [pc EXCEPT ![c] = "returned"] /\ result' = [result EXCEPT ![c] = "failed"]
  BY DEF AttemptFails, GivenUp, Return
<1> QED BY <1>1, <1>2 DEF TypeOK

LEMMA AnsweredReads ==
  ASSUME TypeOK, ReadsInv, NEW c \in Clients, NEW how, Answered(c, how),
         pc[c] = "sent", how # "ok",
         op[c] = "get" /\ how = "found" => keys[c] \subseteq present,
         op[c] = "get" /\ how = "KeyError" => ~ keys[c] \subseteq present
  PROVE  ReadsInv'
<1>1. pc' = [pc EXCEPT ![c] = "returned"] /\ result' = [result EXCEPT ![c] = how]
      /\ UNCHANGED <<serverVars, op, keys, start, total, seenVars>>
  BY DEF Answered, Return
<1>2. Frame(c) /\ present' = present BY <1>1 DEF Frame, TypeOK, serverVars, seenVars
<1>3. \A x \in Clients \ {c} : Reading(x)' /\ ReadDone(x)'
  BY <1>2, OthersRead DEF ReadsInv, Frame
<1>4. pc'[c] = "returned" /\ result'[c] = how BY <1>1 DEF TypeOK
<1>5. op[c] = "get" => always[c] \subseteq present /\ present \subseteq ever[c]
  BY DEF ReadsInv, Reading, Sent, Reads
<1>6. Reading(c)' /\ ReadDone(c)'
  BY <1>1, <1>4, <1>5 DEF Reading, ReadDone, Sent, seenVars
<1> QED BY <1>3, <1>6 DEF ReadsInv

LEMMA ServeCountReads ==
  ASSUME TypeOK, ReadsInv, NEW c \in Clients, ServeCount(c)
  PROVE  ReadsInv'
<1>1. Frame(c) /\ present' = present /\ UNCHANGED <<op, always, ever>>
  BY DEF ServeCount, Return, Request, Frame, TypeOK, serverVars, seenVars
<1>2. \A x \in Clients \ {c} : Reading(x)' /\ ReadDone(x)'
  BY <1>1, OthersRead DEF ReadsInv, Frame
<1> DEFINE n == total[c] + Cardinality(present \cap Page(c))
           next == start[c] + PageSize
<1>3. total'[c] = n BY DEF ServeCount, Total, TypeOK
<1>4. /\ Cardinality(always[c] \cap Before(next)) <= n
      /\ n <= Cardinality(ever[c] \cap Before(next))
  BY PageAdded DEF ServeCount, ReadsInv
<1>5. /\ op[c] = "count" /\ always[c] \subseteq present /\ present \subseteq ever[c]
      /\ always[c] \in SUBSET Keys /\ ever[c] \in SUBSET Keys /\ start[c] \in Nat
  BY DEF ServeCount, ReadsInv, Reading, Sent, Reads, TypeOK
<1>6. CASE NextStart(c) = None
  <2>1. pc'[c] = "returned" BY <1>6 DEF ServeCount, Return, TypeOK
  <2>2. \A k \in present : ~(k >= next)
    BY <1>5, <1>6, CollectionsAssumption DEF NextStart
  <2>3. always[c] \cap Before(next) = always[c]
    BY <1>5, <2>2, CollectionsAssumption DEF Before, Keys
  <2>4. Cardinality(ever[c] \cap Before(next)) <= Cardinality(ever[c])
    BY <1>5, SmallerKeys
  <2>5. n \in Int /\ Cardinality(ever[c] \cap Before(next)) \in Nat /\ Cardinality(ever[c]) \in Nat
    <3>1. present \cap Page(c) \in SUBSET Keys /\ ever[c] \cap Before(next) \in SUBSET Keys
      BY <1>5 DEF TypeOK
    <3>2. /\ Cardinality(present \cap Page(c)) \in Nat /\ Cardinality(ever[c]) \in Nat
          /\ Cardinality(ever[c] \cap Before(next)) \in Nat
      BY <1>5, <3>1, FiniteKeys
    <3>3. total[c] \in Nat BY DEF TypeOK
    <3> QED BY <3>2, <3>3
  <2> HIDE DEF n, next
  <2>6. Cardinality(always[c]) <= n BY <1>4, <2>3
  <2>7. n <= Cardinality(ever[c]) BY <1>4, <2>4, <2>5
  <2> QED BY <1>1, <1>2, <1>3, <1>5, <2>1, <2>6, <2>7 DEF ReadsInv, Reading, ReadDone, Sent
<1>7. CASE NextStart(c) # None
  <2>1. NextStart(c) = next BY <1>7 DEF NextStart
  <2>2. pc'[c] = "sent" /\ start'[c] = next
    BY <1>7, <2>1 DEF ServeCount, Moved, Request, TypeOK
  <2> HIDE DEF n, next
  <2>3. Reading(c)'
    BY <1>1, <1>3, <1>4, <1>5, <2>2 DEF Reading, Sent, Before, Keys
  <2> QED BY <1>2, <2>2, <2>3 DEF ReadsInv, ReadDone
<1> QED BY <1>6, <1>7

\* A write served now, or late, is seen by all who read.
LEMMA EffectReads ==
  ASSUME TypeOK, NEW c \in Clients, NEW n, NEW m, NEW K \in SUBSET Keys, NEW isLate,
         Effect(c, n, m, K, isLate), NEW x \in Clients
  PROVE  /\ present' \in SUBSET Keys
         /\ always'[x] = IF Sent(x, Reads) THEN always[x] \cap present' ELSE always[x]
         /\ ever'[x] = IF Sent(x, Reads) THEN ever[x] \cup present' ELSE ever[x]
BY DEF Effect, TypeOK

LEMMA InCallReads ==
  ASSUME TypeOK, ReadsInv, NEW c \in Clients, InCall(c)
  PROVE  ReadsInv'
<1>1. ASSUME ServeWrite(c) PROVE ReadsInv'
  <2>1. Effect(c, calls[c], op[c], keys[c], FALSE) /\ keys[c] \in SUBSET Keys
    BY <1>1 DEF ServeWrite, TypeOK
  <2>2. \A x \in Clients \ {c} :
          /\ pc'[x] = pc[x] /\ op'[x] = op[x] /\ keys'[x] = keys[x] /\ start'[x] = start[x]
          /\ total'[x] = total[x] /\ result'[x] = result[x]
    <3>1. CASE AttemptFails(c) BY <3>1, AttemptFrame
    <3>2. CASE Return(c, "ok") /\ UNCHANGED <<op, keys, start, total>>
      BY <3>2 DEF Return, TypeOK
    <3> QED BY <1>1, <3>1, <3>2 DEF ServeWrite
  <2>3. \A x \in Clients \ {c} : Reading(x)' /\ ReadDone(x)'
    BY <2>1, <2>2, EffectReads, OthersRead DEF ReadsInv
  <2>4. op' = op BY <1>1 DEF ServeWrite, AttemptFails
  <2>5. op[c] \notin Reads BY <1>1 DEF ServeWrite, Sent, Writes, Reads
  <2>6. Reading(c)' /\ ReadDone(c)' BY <2>4, <2>5 DEF Reading, ReadDone, Sent, Reads
  <2> QED BY <2>3, <2>6 DEF ReadsInv
<1>2. ASSUME ServeGet(c) PROVE ReadsInv'
  <2>1. ErrorOf("get", 404) = "KeyError" BY DEF ErrorOf
  <2> QED BY <1>2, <2>1, AnsweredReads DEF ServeGet, Sent
<1>3. ASSUME ServeCount(c) PROVE ReadsInv' BY <1>3, ServeCountReads
<1>4. ASSUME Lose(c) \/ Delay(c) PROVE ReadsInv'
  <2>1. AttemptFails(c) /\ pc[c] = "sent" /\ UNCHANGED <<present, always, ever>>
    BY <1>4 DEF Lose, Delay, Sent, serverVars, seenVars
  <2>2. \A x \in Clients \ {c} : Reading(x)' /\ ReadDone(x)'
    BY <2>1, AttemptFrame, OthersRead DEF ReadsInv
  <2>3. Reading(c)' /\ ReadDone(c)' BY <2>1, AttemptFailsReads DEF ReadsInv
  <2> QED BY <2>2, <2>3 DEF ReadsInv
<1>5. ASSUME Leave(c) PROVE ReadsInv'
  <2>1. Frame(c) /\ present' = present BY <1>5 DEF Leave, Frame, TypeOK, serverVars
  <2>2. \A x \in Clients \ {c} : Reading(x)' /\ ReadDone(x)'
    BY <2>1, OthersRead DEF ReadsInv, Frame
  <2>3. pc'[c] = "idle" BY <1>5 DEF Leave, TypeOK
  <2> QED BY <2>2, <2>3 DEF ReadsInv, Reading, ReadDone, Sent
<1>6. ASSUME NEW code \in Codes, Refuse(c, code) PROVE ReadsInv'
  <2>1. code # 404 BY CollectionsAssumption
  <2>2. ErrorOf(op[c], code) \notin {"ok", "found", "KeyError"} BY <2>1 DEF ErrorOf
  <2> QED BY <1>6, <2>2, AnsweredReads DEF Refuse
<1>7. ASSUME AnswerBreaks(c) PROVE ReadsInv'
  <2>1. pc' = [pc EXCEPT ![c] = "returned"] /\ result' = [result EXCEPT ![c] = "broken"]
        /\ UNCHANGED <<op, keys, start, total>>
    BY <1>7 DEF AnswerBreaks, Return
  <2>2. \A x \in Clients \ {c} :
          /\ pc'[x] = pc[x] /\ op'[x] = op[x] /\ keys'[x] = keys[x] /\ start'[x] = start[x]
          /\ total'[x] = total[x] /\ result'[x] = result[x]
    BY <2>1 DEF TypeOK
  <2>3. Reading(c)' /\ ReadDone(c)' BY <2>1 DEF Reading, ReadDone, Sent, TypeOK
  <2>4. CASE Effect(c, calls[c], op[c], keys[c], FALSE)
    <3>1. keys[c] \in SUBSET Keys BY DEF TypeOK
    <3>2. \A x \in Clients \ {c} : Reading(x)' /\ ReadDone(x)'
      BY <2>2, <2>4, <3>1, EffectReads, OthersRead DEF ReadsInv
    <3> QED BY <2>3, <3>2 DEF ReadsInv
  <2>5. CASE UNCHANGED <<present, writer, seenVars>>
    <3>1. \A x \in Clients \ {c} : Reading(x)' /\ ReadDone(x)'
      BY <2>2, <2>5, OthersRead DEF ReadsInv, seenVars
    <3> QED BY <2>3, <3>1 DEF ReadsInv
  <2> QED BY <1>7, <2>4, <2>5 DEF AnswerBreaks
<1> QED BY <1>1, <1>2, <1>3, <1>4, <1>5, <1>6, <1>7 DEF InCall

LEMMA ReadsAlways == Spec => []ReadsInv
<1>1. Init => ReadsInv BY DEF Init, ReadsInv, Reading, ReadDone, Sent
<1>2. TypeOK /\ ReadsInv /\ [Next]_vars => ReadsInv'
  <2>1. ASSUME TypeOK, ReadsInv, ServeLate PROVE ReadsInv'
    <3>1. PICK r \in late : Effect(r.by, r.n, r.op, r.keys, TRUE)
                            /\ UNCHANGED <<callVars, retryVars>>
      BY <2>1 DEF ServeLate
    <3>2. r.by \in Clients /\ r.keys \in SUBSET Keys BY <2>1 DEF TypeOK, Requests
    <3>3. UNCHANGED <<pc, op, keys, start, total, result>> BY <3>1 DEF callVars, retryVars
    <3> QED BY <2>1, <3>1, <3>2, <3>3, EffectReads, OthersRead DEF ReadsInv
  <2>2. ASSUME TypeOK, ReadsInv, UNCHANGED vars PROVE ReadsInv'
    <3>1. UNCHANGED <<pc, op, keys, start, total, result, present, always, ever>>
      BY <2>2 DEF vars, callVars, retryVars, serverVars, seenVars
    <3> QED BY <2>2, <3>1, OthersRead DEF ReadsInv
  <2> QED BY <2>1, <2>2, CallsReads, InCallReads DEF Next
<1> QED BY <1>1, <1>2, CollectionsTypeCorrect, PTL DEF Spec

\* A count of any number of pages, disturbed by any number of writers and repeated
\* any number of times, is between what was there all along and what was there ever.
THEOREM CountInBetweenHolds == Spec => []CountInBetween
<1>1. ReadsInv => CountInBetween BY DEF ReadsInv, ReadDone, CountInBetween
<1> QED BY <1>1, ReadsAlways, PTL

\* A get tells what was so at some time of the call.
THEOREM GetWasSoHolds == Spec => []GetWasSo
<1>1. ReadsInv => GetWasSo BY DEF ReadsInv, ReadDone, GetWasSo
<1> QED BY <1>1, ReadsAlways, PTL

(***************************************************************************)
(* What a write that returned leaves behind.                               *)
(***************************************************************************)
AckKey(x, k) ==
  /\ acked[x][k] <= calls[x]
  /\ acked[x][k] > 0 => writer[k].n >= 1
  /\ writer[k].by = x => writer[k].n >= acked[x][k] \/ writer[k].late

AckInv ==
  /\ \A x \in Clients : pc[x] # "idle" => calls[x] >= 1
  /\ \A r \in late : r.n >= 1
  /\ \A x \in Clients, k \in Keys : AckKey(x, k)

\* A write of a call, served at once or late, when nothing is acknowledged yet.
LEMMA EffectKey ==
  ASSUME TypeOK, AckInv, NEW c \in Clients, NEW n \in Nat, n >= 1, NEW m,
         NEW K \in SUBSET Keys, NEW isLate \in BOOLEAN, Effect(c, n, m, K, isLate),
         isLate \/ n = calls[c],
         NEW x \in Clients, NEW k \in Keys,
         acked'[x][k] = acked[x][k] \/ (x = c /\ k \in K /\ acked'[x][k] = n /\ n = calls[c]),
         calls'[x] = calls[x]
  PROVE  AckKey(x, k)'
<1>1. acked[x][k] \in Nat /\ calls[x] \in Nat /\ AckKey(x, k) BY DEF TypeOK, AckInv
<1>2. CASE k \in K
  <2>1. writer'[k].by = c /\ writer'[k].n = n /\ writer'[k].late = isLate
    BY <1>2 DEF Effect
  <2> QED BY <1>1, <2>1 DEF AckKey
<1>3. CASE k \notin K
  <2>1. writer'[k] = writer[k] BY <1>3 DEF Effect
  <2> QED BY <1>1, <1>3, <2>1 DEF AckKey
<1> QED BY <1>2, <1>3

\* Nothing changes for a key whose writer and acknowledgements stay.
LEMMA SameKeys ==
  ASSUME TypeOK, AckInv, writer' = writer, acked' = acked,
         \A x \in Clients : calls'[x] = calls[x] \/ calls'[x] = calls[x] + 1
  PROVE  \A x \in Clients, k \in Keys : AckKey(x, k)'
<1> SUFFICES ASSUME NEW x \in Clients, NEW k \in Keys PROVE AckKey(x, k)' OBVIOUS
<1>1. acked[x][k] \in Nat /\ calls[x] \in Nat /\ AckKey(x, k) BY DEF TypeOK, AckInv
<1> QED BY <1>1 DEF AckKey

LEMMA AttemptFailsAcks ==
  ASSUME NEW c \in Clients, AttemptFails(c)
  PROVE  acked' = acked /\ calls' = calls
BY DEF AttemptFails, GivenUp, Acknowledged

\* Between a call's first step and its last there is a call to be counted.
LEMMA CalledAlways ==
  ASSUME TypeOK, AckInv, calls' = calls,
         \A x \in Clients : pc[x] = "idle" => pc'[x] = "idle"
  PROVE  \A x \in Clients : pc'[x] # "idle" => calls'[x] >= 1
BY DEF AckInv

LEMMA AttemptFailsPc ==
  ASSUME TypeOK, NEW c \in Clients, pc[c] = "sent", AttemptFails(c)
  PROVE  \A x \in Clients : pc[x] = "idle" => pc'[x] = "idle"
BY DEF AttemptFails, Return, TypeOK

LEMMA InCallAcks ==
  ASSUME TypeOK, AckInv, NEW c \in Clients, InCall(c)
  PROVE  AckInv'
<1>1. ASSUME ServeWrite(c) PROVE AckInv'
  <2>1. /\ Effect(c, calls[c], op[c], keys[c], FALSE) /\ late' = late
        /\ keys[c] \in SUBSET Keys /\ calls[c] \in Nat /\ pc[c] = "sent"
    BY <1>1 DEF ServeWrite, Sent, TypeOK
  <2>2. calls[c] >= 1 BY <2>1 DEF AckInv
  <2>3. calls' = calls BY <1>1 DEF ServeWrite, AttemptFails
  <2>4. \A x \in Clients : pc[x] = "idle" => pc'[x] = "idle"
    BY <1>1, <2>1, AttemptFailsPc DEF ServeWrite, Return, TypeOK
  <2>5. \A x \in Clients, k \in Keys :
          acked'[x][k] = acked[x][k] \/ (x = c /\ k \in keys[c] /\ acked'[x][k] = calls[c])
    <3>1. CASE acked' = acked BY <3>1
    <3>2. CASE acked' = [acked EXCEPT ![c] =
                           [k \in Keys |-> IF k \in keys[c] THEN calls[c] ELSE acked[c][k]]]
      BY <3>2 DEF TypeOK
    <3> QED BY <1>1, <3>1, <3>2, AttemptFailsAcks DEF ServeWrite, Acknowledged
  <2>6. ASSUME NEW x \in Clients, NEW k \in Keys PROVE AckKey(x, k)'
    <3> DEFINE n == calls[c]
               m == op[c]
               K == keys[c]
    <3>1. n \in Nat /\ n >= 1 /\ K \in SUBSET Keys /\ Effect(c, n, m, K, FALSE)
          /\ FALSE \in BOOLEAN /\ n = calls[c] /\ calls'[x] = calls[x]
      BY <2>1, <2>2, <2>3
    <3>2. acked'[x][k] = acked[x][k] \/ (x = c /\ k \in K /\ acked'[x][k] = n /\ n = calls[c])
      BY <2>5
    <3> HIDE DEF n, m, K
    <3> QED BY <3>1, <3>2, EffectKey
  <2>7. \A x \in Clients : pc'[x] # "idle" => calls'[x] >= 1 BY <2>3, <2>4, CalledAlways
  <2> QED BY <2>1, <2>6, <2>7 DEF AckInv
<1>2. ASSUME Lose(c) \/ Delay(c) PROVE AckInv'
  <2>1. AttemptFails(c) /\ pc[c] = "sent" /\ writer' = writer
    BY <1>2 DEF Lose, Delay, Sent, serverVars
  <2>2. acked' = acked /\ calls' = calls BY <2>1, AttemptFailsAcks
  <2>3. \A x \in Clients : pc'[x] # "idle" => calls'[x] >= 1
    BY <2>1, <2>2, AttemptFailsPc, CalledAlways
  <2>4. \A x \in Clients, k \in Keys : AckKey(x, k)' BY <2>1, <2>2, SameKeys
  <2>5. calls[c] >= 1 BY <2>1 DEF AckInv
  <2>6. \A r \in late' : r.n >= 1 BY <1>2, <2>5 DEF Lose, Delay, AckInv, serverVars
  <2> QED BY <2>3, <2>4, <2>6 DEF AckInv
<1>3. ASSUME UNCHANGED <<serverVars, acked, calls>>,
             \A x \in Clients : pc[x] = "idle" => pc'[x] = "idle"
      PROVE  AckInv'
  <2>1. writer' = writer /\ late' = late BY <1>3 DEF serverVars
  <2> QED BY <1>3, <2>1, SameKeys, CalledAlways DEF AckInv
<1>4. ASSUME NEW how, Answered(c, how), pc[c] = "sent" PROVE AckInv'
  BY <1>3, <1>4 DEF Answered, Return, TypeOK
<1>5. ServeCount(c) => AckInv'
  BY <1>3 DEF ServeCount, Sent, Return, Request, TypeOK
<1>6. Leave(c) => AckInv' BY <1>3 DEF Leave, TypeOK
<1>7. ASSUME AnswerBreaks(c) PROVE AckInv'
  <2>1. pc[c] = "sent" /\ pc' = [pc EXCEPT ![c] = "returned"]
        /\ UNCHANGED <<late, calls, acked>>
    BY <1>7 DEF AnswerBreaks, Return
  <2>2. \A x \in Clients : pc'[x] # "idle" => calls'[x] >= 1
    BY <2>1, CalledAlways DEF TypeOK
  <2>3. CASE Effect(c, calls[c], op[c], keys[c], FALSE)
    <3> DEFINE n == calls[c]
               m == op[c]
               K == keys[c]
    <3>1. n \in Nat /\ n >= 1 /\ K \in SUBSET Keys /\ Effect(c, n, m, K, FALSE)
          /\ FALSE \in BOOLEAN /\ n = calls[c]
      BY <2>1, <2>3 DEF TypeOK, AckInv
    <3> HIDE DEF n, m, K
    <3>2. \A x \in Clients, k \in Keys : AckKey(x, k)' BY <2>1, <3>1, EffectKey
    <3> QED BY <2>1, <2>2, <3>2 DEF AckInv
  <2>4. CASE UNCHANGED <<present, writer, seenVars>>
    BY <2>1, <2>2, <2>4, SameKeys DEF AckInv
  <2> QED BY <1>7, <2>3, <2>4 DEF AnswerBreaks
<1> QED BY <1>1, <1>2, <1>4, <1>5, <1>6, <1>7 DEF InCall, ServeGet, Refuse, Sent

LEMMA CallsAcks ==
  ASSUME TypeOK, AckInv, NEW c \in Clients, Calls(c)
  PROVE  AckInv'
<1>1. PICK m, K : Begin(c, m, K) BY DEF Calls, Set, Delete, Truncate, Get, Count
<1>2. UNCHANGED <<writer, late, acked>> BY <1>1 DEF Begin, serverVars
<1>3. \A x \in Clients : /\ calls'[x] = calls[x] \/ calls'[x] = calls[x] + 1
                         /\ pc'[x] # "idle" => calls'[x] >= 1
  BY <1>1 DEF Begin, Request, TypeOK, AckInv
<1> QED BY <1>2, <1>3, SameKeys DEF AckInv

LEMMA AcksAlways == Spec => []AckInv
<1>1. Init => AckInv BY DEF Init, AckInv, AckKey, Nobody
<1>2. TypeOK /\ AckInv /\ [Next]_vars => AckInv'
  <2>1. ASSUME TypeOK, AckInv, ServeLate PROVE AckInv'
    <3>1. PICK r \in late : /\ late' = late \ {r}
                            /\ Effect(r.by, r.n, r.op, r.keys, TRUE)
                            /\ UNCHANGED <<callVars, retryVars>>
      BY <2>1 DEF ServeLate
    <3>2. r.by \in Clients /\ r.n \in Nat /\ r.n >= 1 /\ r.keys \in SUBSET Keys
      BY <2>1 DEF TypeOK, Requests, AckInv
    <3>3. UNCHANGED <<acked, calls, pc>> BY <3>1 DEF callVars
    <3>4. \A x \in Clients, k \in Keys : AckKey(x, k)' BY <2>1, <3>1, <3>2, <3>3, EffectKey
    <3> QED BY <2>1, <3>1, <3>3, <3>4 DEF AckInv
  <2>2. ASSUME TypeOK, AckInv, UNCHANGED vars PROVE AckInv'
    <3>1. UNCHANGED <<writer, late, acked, calls, pc>>
      BY <2>2 DEF vars, serverVars, callVars
    <3> QED BY <2>2, <3>1, SameKeys DEF AckInv
  <2> QED BY <2>1, <2>2, CallsAcks, InCallAcks DEF Next
<1> QED BY <1>1, <1>2, CollectionsTypeCorrect, PTL DEF Spec

\* A write that returned was served, and its client's earlier writes return only
\* with requests that were still under way.
THEOREM AckedHoldsAlways == Spec => []AckedHolds
<1>1. TypeOK /\ AckInv => AckedHolds
  <2> SUFFICES ASSUME TypeOK, AckInv, NEW c \in Clients, NEW k \in Keys
               PROVE  /\ acked[c][k] > 0 => writer[k] # Nobody
                      /\ writer[k].by = c => writer[k].n >= acked[c][k] \/ writer[k].late
    BY DEF AckedHolds
  <2>1. AckKey(c, k) BY DEF AckInv
  <2>2. Nobody.n = 0 BY DEF Nobody
  <2> QED BY <2>1, <2>2 DEF AckKey
<1> QED BY <1>1, AcksAlways, CollectionsTypeCorrect, PTL

----------------------------------------------------------------------------
(***************************************************************************)
(* Induction on a set of natural numbers, from the well-foundedness of <.  *)
(***************************************************************************)
LEMMA SetInduction ==
  ASSUME NEW S \in SUBSET Nat, 0 \in S, \A n \in S : n + 1 \in S
  PROVE  S = Nat
<1> SUFFICES ASSUME S # Nat PROVE FALSE OBVIOUS
<1> DEFINE T == Nat \ S
<1>1. T \subseteq Nat /\ T # {} OBVIOUS
<1>2. \E x \in T : \A y \in T : ~ (<<y, x>> \in OpToRel(<, Nat))
  BY <1>1, NatLessThanWellFounded, WFMin
<1>3. PICK x \in T : \A y \in T : ~ (<<y, x>> \in OpToRel(<, Nat)) BY <1>2
<1>4. \A y \in T : ~ (y < x) BY <1>3 DEF OpToRel
<1>5. x # 0 /\ x - 1 \in Nat /\ x - 1 < x OBVIOUS
<1>6. x - 1 \in S BY <1>4, <1>5
<1> QED BY <1>6

(***************************************************************************)
(* The powers of two.  Of the functions on 0..n that the recursion allows  *)
(* there is one, and all agree at n; the function on Nat is put together   *)
(* from these.                                                             *)
(***************************************************************************)
Doublings(n) ==
  {f \in [0..n -> Nat] : f[0] = 1 /\ \A i \in 0..n - 1 : f[i + 1] = 2 * f[i]}

LEMMA DoublingRestricts ==
  ASSUME NEW n \in Nat, NEW f \in Doublings(n + 1)
  PROVE  /\ [i \in 0..n |-> f[i]] \in Doublings(n)
         /\ f[n + 1] = 2 * f[n] /\ f[n] \in Nat
<1>1. f \in [0..n + 1 -> Nat] /\ f[0] = 1 /\ \A i \in 0..n : f[i + 1] = 2 * f[i]
  BY DEF Doublings
<1> DEFINE g == [i \in 0..n |-> f[i]]
<1>2. g \in [0..n -> Nat] BY <1>1
<1>3. g[0] = 1 BY <1>1
<1>4. \A i \in 0..n - 1 : g[i + 1] = 2 * g[i] BY <1>1
<1>5. f[n + 1] = 2 * f[n] /\ f[n] \in Nat BY <1>1
<1> QED BY <1>2, <1>3, <1>4, <1>5 DEF Doublings

LEMMA DoublingsExist == \A n \in Nat : Doublings(n) # {}
<1> DEFINE S == {n \in Nat : Doublings(n) # {}}
<1>1. 0 \in S
  <2>1. [i \in 0..0 |-> 1] \in Doublings(0) BY DEF Doublings
  <2> QED BY <2>1
<1>2. ASSUME NEW n \in S PROVE n + 1 \in S
  <2>1. PICK f \in [0..n -> Nat] : f[0] = 1 /\ \A i \in 0..n - 1 : f[i + 1] = 2 * f[i]
    BY <1>2 DEF Doublings
  <2> DEFINE g == [i \in 0..n + 1 |-> IF i = n + 1 THEN 2 * f[n] ELSE f[i]]
  <2>2. f[n] \in Nat BY <2>1
  <2>3. g \in [0..n + 1 -> Nat] BY <2>1, <2>2
  <2>4. g[0] = 1 BY <2>1
  <2>5. \A i \in 0..n : g[i + 1] = 2 * g[i] BY <2>1
  <2>6. (n + 1) - 1 = n OBVIOUS
  <2> HIDE DEF g
  <2>7. g \in Doublings(n + 1) BY <2>3, <2>4, <2>5, <2>6 DEF Doublings
  <2> QED BY <2>7
<1> HIDE DEF S
<1>3. S = Nat
  <2>1. S \in SUBSET Nat BY DEF S
  <2> QED BY <1>1, <1>2, <2>1, SetInduction
<1> QED BY <1>3 DEF S

LEMMA DoublingsAgree == \A n \in Nat : \A f, g \in Doublings(n) : f[n] = g[n]
<1> DEFINE S == {n \in Nat : \A f, g \in Doublings(n) : f[n] = g[n]}
<1>1. 0 \in S BY DEF Doublings
<1>2. ASSUME NEW n \in S PROVE n + 1 \in S
  <2>1. n \in Nat /\ \A f, g \in Doublings(n) : f[n] = g[n] OBVIOUS
  <2> SUFFICES ASSUME NEW f \in Doublings(n + 1), NEW g \in Doublings(n + 1)
               PROVE  f[n + 1] = g[n + 1]
    BY <2>1
  <2> DEFINE ff == [i \in 0..n |-> f[i]]
             gg == [i \in 0..n |-> g[i]]
  <2>2. ff \in Doublings(n) /\ gg \in Doublings(n) BY <2>1, DoublingRestricts
  <2>3. ff[n] = f[n] /\ gg[n] = g[n] BY <2>1
  <2>4. ff[n] = gg[n] BY <2>1, <2>2
  <2>5. f[n + 1] = 2 * f[n] /\ g[n + 1] = 2 * g[n] BY <2>1, DoublingRestricts
  <2> QED BY <2>3, <2>4, <2>5
<1> HIDE DEF S
<1>3. S = Nat
  <2>1. S \in SUBSET Nat BY DEF S
  <2> QED BY <1>1, <1>2, <2>1, SetInduction
<1> QED BY <1>3 DEF S

\* The definition of Power2 has a solution, so Power2 is one.
LEMMA PowerIsDefined ==
  Power2 = [n \in Nat |-> IF n = 0 THEN 1 ELSE 2 * Power2[n - 1]]
<1> DEFINE h == [n \in Nat |-> (CHOOSE f \in Doublings(n) : TRUE)[n]]
<1>1. ASSUME NEW n \in Nat PROVE h[n] = IF n = 0 THEN 1 ELSE 2 * h[n - 1]
  <2>1. PICK f \in Doublings(n) : h[n] = f[n] BY DoublingsExist
  <2>2. CASE n = 0 BY <2>1, <2>2 DEF Doublings
  <2>3. CASE n # 0
    <3>1. n - 1 \in Nat /\ (n - 1) + 1 = n BY <2>3
    <3> DEFINE e == [i \in 0..n - 1 |-> f[i]]
    <3>2. e \in Doublings(n - 1) /\ f[n] = 2 * f[n - 1]
      BY <3>1, DoublingRestricts
    <3>3. PICK g \in Doublings(n - 1) : h[n - 1] = g[n - 1] BY <3>1, DoublingsExist
    <3>4. g[n - 1] = e[n - 1] BY <3>1, <3>2, <3>3, DoublingsAgree
    <3>5. e[n - 1] = f[n - 1] BY <3>1
    <3> QED BY <2>1, <2>3, <3>2, <3>3, <3>4, <3>5
  <2> QED BY <2>2, <2>3
<1>2. h = [n \in Nat |-> IF n = 0 THEN 1 ELSE 2 * h[n - 1]]
  <2> HIDE DEF h
  <2>1. h = [n \in Nat |-> h[n]] BY DEF h
  <2> QED BY <1>1, <2>1, Zenon
<1> HIDE DEF h
<1> QED BY <1>2, Zenon DEF Power2

LEMMA PowerStep ==
  /\ Power2[0] = 1
  /\ \A n \in Nat : Power2[n + 1] = 2 * Power2[n]
<1>1. \A n \in Nat : Power2[n] = IF n = 0 THEN 1 ELSE 2 * Power2[n - 1]
  BY PowerIsDefined, Zenon
<1>2. Power2[0] = 1 BY <1>1
<1>3. ASSUME NEW n \in Nat PROVE Power2[n + 1] = 2 * Power2[n]
  <2>1. n + 1 \in Nat /\ n + 1 # 0 /\ (n + 1) - 1 = n OBVIOUS
  <2> QED BY <1>1, <2>1
<1> QED BY <1>2, <1>3

\* A power is a positive number, and a higher one is at least twice as great.
LEMMA PowersGrow ==
  ASSUME NEW m \in Nat
  PROVE  /\ Power2[m] \in Nat \ {0}
         /\ \A n \in Nat : m < n => 2 * Power2[m] <= Power2[n]
<1>1. \A k \in Nat : Power2[k] \in Nat \ {0}
  <2> DEFINE S == {k \in Nat : Power2[k] \in Nat \ {0}}
  <2>1. 0 \in S BY PowerStep
  <2>2. \A k \in S : k + 1 \in S BY PowerStep
  <2> HIDE DEF S
  <2>3. S = Nat
    <3>1. S \in SUBSET Nat BY DEF S
    <3> QED BY <2>1, <2>2, <3>1, SetInduction
  <2> QED BY <2>3 DEF S
<1>2. \A k \in Nat : 2 * Power2[m] <= Power2[m + k + 1]
  <2> DEFINE S == {k \in Nat : 2 * Power2[m] <= Power2[m + k + 1]}
  <2>1. 0 \in S BY <1>1, PowerStep
  <2>2. ASSUME NEW k \in S PROVE k + 1 \in S
    <3>1. m + k + 1 \in Nat /\ m + (k + 1) + 1 = (m + k + 1) + 1 OBVIOUS
    <3>2. Power2[(m + k + 1) + 1] = 2 * Power2[m + k + 1] BY <3>1, PowerStep
    <3>3. Power2[m] \in Nat /\ Power2[m + k + 1] \in Nat BY <1>1, <3>1
    <3> QED BY <3>1, <3>2, <3>3
  <2> HIDE DEF S
  <2>3. S = Nat
    <3>1. S \in SUBSET Nat BY DEF S
    <3> QED BY <2>1, <2>2, <3>1, SetInduction
  <2> QED BY <2>3 DEF S
<1>3. ASSUME NEW n \in Nat, m < n PROVE 2 * Power2[m] <= Power2[n]
  <2>1. n - m - 1 \in Nat /\ m + (n - m - 1) + 1 = n BY <1>3
  <2> QED BY <1>2, <2>1
<1> QED BY <1>1, <1>3

(***************************************************************************)
(* The retrier.  What was spent is the sum of the waits, 2 + 4 + ... +     *)
(* 2^tries, and of what the attempts and the jitter took: as long as an    *)
(* attempt is left, the waits are a quarter of the limit at most.          *)
(***************************************************************************)
WaitsOnly(c) ==
  pc[c] = "sent" => spent[c] = extra[c] + Power2[tries[c] + 1] - 2
WaitsInv == spent \in [Clients -> Nat] /\ \A c \in Clients : WaitsOnly(c)
RetriesInv == WaitsInv /\ AttemptsAsConfigured

LEMMA PowerOne == Power2[1] = 2
<1>1. 0 \in Nat /\ 0 + 1 = 1 OBVIOUS
<1> QED BY <1>1, PowerStep

LEMMA AttemptFailsWaits ==
  ASSUME TriesInv, RetriesInv, NEW c \in Clients, pc[c] = "sent", AttemptFails(c)
  PROVE  RetriesInv'
<1>1. PICK d \in Delays, j \in Jitters :
        /\ OnlyRetries(c) => d = 0 /\ j = 0
        /\ tries' = [tries EXCEPT ![c] = @ + 1]
        /\ \/ /\ StopRetrying(c, spent[c] + d) /\ Return(c, "failed")
              /\ spent' = [spent EXCEPT ![c] = 0]
              /\ extra' = [extra EXCEPT ![c] = extra[c] + d]
           \/ /\ ~StopRetrying(c, spent[c] + d) /\ UNCHANGED <<pc, result>>
              /\ spent' = [spent EXCEPT ![c] = spent[c] + d + Wait(c) + j]
              /\ extra' = [extra EXCEPT ![c] = extra[c] + d + j]
  BY DEF AttemptFails, GivenUp
<1>2. /\ d \in Nat /\ j \in Nat
      /\ tries[c] \in Nat /\ tries[c] + 1 <= MaxAttempts(c) /\ MaxAttempts(c) \in Nat
      /\ spent[c] \in Nat /\ extra[c] \in Nat
  BY CollectionsAssumption, AttemptsType DEF TriesInv, TypeOK, RetriesInv, WaitsInv
<1> DEFINE k == tries[c] + 1
           M == MaxAttempts(c)
<1>3. k \in Nat /\ k + 1 \in Nat /\ Power2[k] \in Nat \ {0} /\ Power2[k + 1] = 2 * Power2[k]
  <2>1. k \in Nat BY <1>2
  <2>2. Power2[k] \in Nat \ {0} BY <2>1, PowersGrow
  <2> QED BY <2>1, <2>2, PowerStep
<1>4. \A x \in Clients \ {c} :
        WaitsOnly(x) /\ UNCHANGED <<pc[x], spent[x], tries[x], extra[x], result[x]>>
  BY <1>1 DEF RetriesInv, WaitsInv, TriesInv, TypeOK, Return
<1>5. tries'[c] = k /\ spent[c] = extra[c] + Power2[k] - 2
  BY <1>1 DEF TriesInv, TypeOK, RetriesInv, WaitsInv, WaitsOnly
<1>6. CASE /\ StopRetrying(c, spent[c] + d) /\ Return(c, "failed")
           /\ spent' = [spent EXCEPT ![c] = 0] /\ extra' = [extra EXCEPT ![c] = extra[c] + d]
  <2>1. /\ spent' \in [Clients -> Nat] /\ pc'[c] = "returned" /\ result'[c] = "failed"
        /\ extra'[c] = extra[c] + d
    BY <1>6 DEF RetriesInv, WaitsInv, Return, TriesInv, TypeOK
  <2>2. CASE k >= M
    <3>1. tries'[c] = M BY <1>2, <1>5, <2>2
    <3> QED BY <1>4, <2>1, <3>1 DEF RetriesInv, WaitsInv, WaitsOnly, AttemptsAsConfigured
  <2>3. CASE k < M
    <3>1. ~OnlyRetries(c) /\ spent[c] + d >= MaxDelay(c)
      BY <1>2, <1>6, <2>3 DEF StopRetrying
    <3>2. M - 1 \in Nat /\ M - 1 + 1 = M BY <1>2, <2>3
    <3>3. Power2[M - 1] \in Nat \ {0} /\ Power2[M] = 2 * Power2[M - 1] BY <3>2, PowersGrow, PowerStep
    <3>4. Power2[M + 1] = 2 * Power2[M] BY <1>2, PowerStep
    <3>5. 2 * Power2[k] <= Power2[M] BY <1>2, <1>3, <2>3, PowersGrow
    <3>6. extra[c] + d >= 3 * Power2[M - 1]
      BY <1>2, <1>3, <1>5, <3>1, <3>3, <3>4, <3>5 DEF MaxDelay
    <3> QED BY <1>4, <2>1, <3>1, <3>6 DEF RetriesInv, WaitsInv, WaitsOnly, AttemptsAsConfigured
  <2> QED BY <1>2, <2>2, <2>3
<1>7. CASE /\ UNCHANGED <<pc, result>>
           /\ spent' = [spent EXCEPT ![c] = spent[c] + d + Wait(c) + j]
           /\ extra' = [extra EXCEPT ![c] = extra[c] + d + j]
  <2>1. Wait(c) = Power2[k] BY DEF Wait
  <2>2. /\ spent' \in [Clients -> Nat] /\ spent'[c] = spent[c] + d + Power2[k] + j
        /\ extra'[c] = extra[c] + d + j
    BY <1>2, <1>3, <1>7, <2>1 DEF RetriesInv, WaitsInv, TriesInv, TypeOK
  <2>3. spent'[c] = extra'[c] + Power2[tries'[c] + 1] - 2 BY <1>2, <1>3, <1>5, <2>2
  <2>4. \A x \in Clients : WaitsOnly(x)' BY <1>4, <2>3 DEF WaitsOnly
  <2>5. AttemptsAsConfigured' BY <1>4, <1>7 DEF RetriesInv, AttemptsAsConfigured
  <2> QED BY <2>2, <2>4, <2>5 DEF RetriesInv, WaitsInv
<1> QED BY <1>1, <1>6, <1>7

LEMMA NextRetries ==
  ASSUME TriesInv, RetriesInv, [Next]_vars
  PROVE  RetriesInv'
<1>1. ASSUME NEW c \in Clients, Request(c), UNCHANGED result,
             \A x \in Clients \ {c} : pc'[x] = pc[x]
      PROVE  RetriesInv'
  <2>1. /\ pc'[c] = "sent" /\ spent' \in [Clients -> Nat]
        /\ spent'[c] = 0 /\ tries'[c] = 0 /\ extra'[c] = 0
        /\ \A x \in Clients \ {c} : UNCHANGED <<spent[x], tries[x], extra[x]>>
    BY <1>1 DEF Request, NewCount, RetriesInv, WaitsInv, TriesInv, TypeOK
  <2>2. WaitsOnly(c)' BY <2>1, PowerOne DEF WaitsOnly
  <2> QED BY <1>1, <2>1, <2>2 DEF RetriesInv, WaitsInv, WaitsOnly, AttemptsAsConfigured
<1>2. ASSUME NEW c \in Clients, pc'[c] # "sent", NewCount(c), result'[c] # "failed",
             \A x \in Clients \ {c} : UNCHANGED <<pc[x], result[x]>>
      PROVE  RetriesInv'
  <2>1. /\ spent' \in [Clients -> Nat]
        /\ \A x \in Clients \ {c} : UNCHANGED <<spent[x], tries[x], extra[x]>>
    BY <1>2 DEF NewCount, RetriesInv, WaitsInv, TriesInv, TypeOK
  <2> QED BY <1>2, <2>1 DEF RetriesInv, WaitsInv, WaitsOnly, AttemptsAsConfigured
<1>3. ASSUME NEW c \in Clients, Calls(c) PROVE RetriesInv'
  <2>1. Request(c) /\ UNCHANGED result /\ \A x \in Clients \ {c} : pc'[x] = pc[x]
    BY <1>3 DEF Calls, Set, Delete, Truncate, Get, Count, Begin, Request, TriesInv, TypeOK
  <2> QED BY <1>1, <2>1
<1>4. ASSUME NEW c \in Clients, NEW how \in Results \ {"failed"}, Return(c, how),
             NewCount(c)
      PROVE  RetriesInv'
  <2>1. /\ pc'[c] = "returned" /\ result'[c] = how
        /\ \A x \in Clients \ {c} : UNCHANGED <<pc[x], result[x]>>
    BY <1>4 DEF Return, TriesInv, TypeOK
  <2> QED BY <1>2, <1>4, <2>1
<1>5. ASSUME NEW c \in Clients, InCall(c) PROVE RetriesInv'
  <2>1. CASE pc[c] = "sent" /\ AttemptFails(c) BY <2>1, AttemptFailsWaits
  <2>2. CASE \E how \in Results \ {"failed"} : Return(c, how) /\ NewCount(c)
    BY <1>4, <2>2
  <2>3. CASE Request(c) /\ UNCHANGED result
    <3>1. \A x \in Clients \ {c} : pc'[x] = pc[x] BY <2>3 DEF Request, TriesInv, TypeOK
    <3> QED BY <1>1, <2>3, <3>1
  <2>4. CASE Leave(c)
    <3>1. /\ pc'[c] = "idle" /\ result'[c] = "none" /\ spent' \in [Clients -> Nat]
          /\ \A x \in Clients \ {c} : UNCHANGED <<pc[x], result[x], tries[x], spent[x], extra[x]>>
      BY <2>4 DEF Leave, NewCount, RetriesInv, WaitsInv, TriesInv, TypeOK
    <3> QED BY <3>1 DEF RetriesInv, WaitsInv, WaitsOnly, AttemptsAsConfigured
  <2>5. {"ok", "found", "broken"} \subseteq Results \ {"failed"} BY DEF Results
  <2>6. \A m, code : ErrorOf(m, code) \in Results \ {"failed"} BY DEF ErrorOf, Results
  <2>7. CASE ServeWrite(c) BY <2>1, <2>2, <2>5, <2>7 DEF ServeWrite, Sent
  <2>8. CASE ServeGet(c) BY <2>2, <2>5, <2>6, <2>8 DEF ServeGet, Answered
  <2>9. CASE ServeCount(c) BY <2>2, <2>3, <2>5, <2>9 DEF ServeCount
  <2>10. CASE Lose(c) \/ Delay(c) BY <2>1, <2>10 DEF Lose, Delay, Sent
  <2>11. CASE AnswerBreaks(c) BY <2>2, <2>5, <2>11 DEF AnswerBreaks
  <2>12. ASSUME NEW code \in Codes, Refuse(c, code) PROVE RetriesInv'
    BY <2>2, <2>6, <2>12 DEF Refuse, Answered
  <2> QED BY <1>5, <2>4, <2>7, <2>8, <2>9, <2>10, <2>11, <2>12 DEF InCall
<1>6. CASE ServeLate \/ UNCHANGED vars
  <2>1. UNCHANGED <<pc, tries, spent, extra, result>>
    BY <1>6 DEF ServeLate, vars, callVars, retryVars
  <2> QED BY <2>1 DEF RetriesInv, WaitsInv, WaitsOnly, AttemptsAsConfigured
<1> QED BY <1>3, <1>5, <1>6 DEF Next

\* A retrier gives up after all the attempts it was made for; one with a limit of
\* time also earlier, but only if the attempts and the jitter took three quarters
\* of the limit.
THEOREM AttemptsAsConfiguredHolds == Spec => []AttemptsAsConfigured
<1>1. Init => RetriesInv
  <2> SUFFICES ASSUME Init PROVE RetriesInv OBVIOUS
  <2>1. spent \in [Clients -> Nat] /\ \A c \in Clients : pc[c] = "idle" BY DEF Init
  <2> QED BY <2>1 DEF RetriesInv, WaitsInv, WaitsOnly, AttemptsAsConfigured
<1>2. TriesInv /\ RetriesInv /\ [Next]_vars => RetriesInv' BY NextRetries
<1>3. RetriesInv => AttemptsAsConfigured BY DEF RetriesInv
<1> QED BY <1>1, <1>2, <1>3, TriesAlways, PTL DEF Spec
=============================================================================
