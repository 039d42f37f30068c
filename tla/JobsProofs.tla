----------------------------- MODULE JobsProofs -----------------------------
(***************************************************************************)
(* For any number of clients, jobs and calls: the variables of Jobs.tla    *)
(* keep their types, a call that returns has told its caller all that the  *)
(* server did for it, and the loops over a JobSet ask each job once.       *)
(***************************************************************************)
EXTENDS JobsProperties, TLAPS

LEMMA RecordTypes ==
  /\ NoArgs \in Args /\ NoAnswer \in Answers
  /\ \A K \in SUBSET Keys : [NoArgs EXCEPT !.keys = K] \in Args
  /\ \A u \in Uniques \cup {None} : [NoArgs EXCEPT !.unique = u] \in Args
  /\ \A K \in SUBSET Keys, to \in States : [NoArgs EXCEPT !.keys = K, !.to = to] \in Args
BY DEF NoArgs, NoAnswer, Args, Answers, States

LEMMA InitTypeOK == Init => TypeOK
<1> SUFFICES ASSUME Init PROVE TypeOK OBVIOUS
<1>1. 0 \in 0..MaxTries - 1 BY JobsAssumption
<1>2. tries \in [Clients -> 0..MaxTries - 1] /\ calls \in [Clients -> Nat] BY <1>1 DEF Init
<1>3. state \in [Keys -> States] BY DEF Init, States
<1>4. loaded \in [Clients -> SUBSET Keys] /\ asked \in [Clients -> SUBSET Keys] BY DEF Init
<1> QED BY <1>2, <1>3, <1>4, RecordTypes DEF Init, TypeOK, Methods

\* What a call, and the end of one, do to the types.
LEMMA SendTypes ==
  ASSUME TypeOK, NEW c \in Clients, NEW m \in Methods, NEW a \in Args, Send(c, m, a)
  PROVE  /\ pc' \in [Clients -> {"idle", "sent", "answered"}]
         /\ op' \in [Clients -> Methods] /\ args' \in [Clients -> Args]
         /\ effects' \in [Clients -> SUBSET Lines]
BY DEF TypeOK, Send

LEMMA BeginTypes ==
  ASSUME TypeOK, NEW c \in Clients, NEW m \in Methods, NEW a \in Args, Begin(c, m, a)
  PROVE  TypeOK'
<1>1. Send(c, m, a) /\ UNCHANGED setVars BY DEF Begin
<1>2. calls' \in [Clients -> Nat] BY DEF Begin, TypeOK
<1> QED BY <1>1, <1>2, SendTypes DEF TypeOK, Send, setVars, serverVars

LEMMA FinishTypes ==
  ASSUME TypeOK, NEW c \in Clients, Finish(c)
  PROVE  /\ pc' \in [Clients -> {"idle", "sent", "answered"}]
         /\ op' \in [Clients -> Methods] /\ args' \in [Clients -> Args]
         /\ effects' \in [Clients -> SUBSET Lines] /\ answer' \in [Clients -> Answers]
         /\ tries' \in [Clients -> 0..MaxTries - 1] /\ calls' \in [Clients -> Nat]
         /\ state' \in [Keys -> States] /\ unique' \in [Keys -> Uniques \cup {None}]
<1>1. 0 \in 0..MaxTries - 1 BY JobsAssumption
<1>2. "none" \in Methods BY DEF Methods
<1> QED BY <1>1, <1>2, RecordTypes DEF TypeOK, Finish, serverVars

\* What an attempt without an answer, and one with an answer, do to the types.
LEMMA NoAnswerTypes ==
  ASSUME TypeOK, NEW c \in Clients, NoAnswerComes(c)
  PROVE  /\ pc' \in [Clients -> {"idle", "sent", "answered"}]
         /\ answer' \in [Clients -> Answers] /\ tries' \in [Clients -> 0..MaxTries - 1]
<1>1. CASE Retries(c)
  <2>1. tries[c] + 1 \in 0..MaxTries - 1 BY <1>1, JobsAssumption DEF Retries, TypeOK
  <2> QED BY <1>1, <2>1 DEF NoAnswerComes, TypeOK
<1>2. CASE ~Retries(c)
  <2>1. PICK code \in {0, 500} : answer' = [answer EXCEPT ![c].code = code]
    BY <1>2 DEF NoAnswerComes
  <2>2. [answer[c] EXCEPT !.code = code] \in Answers
    <3>1. answer[c] \in Answers BY DEF TypeOK
    <3> QED BY <3>1 DEF Answers
  <2>3. answer' = [answer EXCEPT ![c] = [answer[c] EXCEPT !.code = code]] BY <2>1
  <2> QED BY <1>2, <2>2, <2>3 DEF NoAnswerComes, TypeOK
<1> QED BY <1>1, <1>2

LEMMA AnswerTypes ==
  ASSUME TypeOK, NEW c \in Clients, NEW a \in Answers, AnswerWith(c, a)
  PROVE  /\ pc' \in [Clients -> {"idle", "sent", "answered"}]
         /\ answer' \in [Clients -> Answers] /\ tries' \in [Clients -> 0..MaxTries - 1]
BY DEF AnswerWith, TypeOK

LEMMA ServedTypes ==
  ASSUME TypeOK, NEW c \in Clients, NEW done \in SUBSET Lines, Served(c, done),
         state' \in [Keys -> States], unique' \in [Keys -> Uniques \cup {None}]
  PROVE  TypeOK'
<1>1. [code |-> 200, error |-> "no", lines |-> done] \in Answers BY DEF Answers
<1>2. /\ pc' \in [Clients -> {"idle", "sent", "answered"}]
      /\ answer' \in [Clients -> Answers] /\ tries' \in [Clients -> 0..MaxTries - 1]
  BY <1>1, AnswerTypes, NoAnswerTypes DEF Served
<1>3. effects' \in [Clients -> SUBSET Lines] BY DEF Served, TypeOK
<1>4. UNCHANGED <<op, args, calls, setVars>> BY DEF Served
<1> QED BY <1>2, <1>3, <1>4 DEF TypeOK, setVars

LEMMA RefusedTypes ==
  ASSUME TypeOK, NEW c \in Clients, NEW code \in {200} \cup Codes,
         NEW error \in {"no", "Active job", "already scheduled", "other"}, Refuse(c, code, error)
  PROVE  TypeOK'
<1>1. [code |-> code, error |-> error, lines |-> {}] \in Answers BY DEF Answers
<1>2. AnswerWith(c, [code |-> code, error |-> error, lines |-> {}])
      /\ UNCHANGED <<op, args, effects, calls, serverVars, setVars>>
  BY DEF Refuse
<1>3. /\ pc' \in [Clients -> {"idle", "sent", "answered"}]
      /\ answer' \in [Clients -> Answers] /\ tries' \in [Clients -> 0..MaxTries - 1]
  BY <1>1, <1>2, AnswerTypes
<1> QED BY <1>2, <1>3 DEF TypeOK, serverVars, setVars

\* The effects of what the server serves, and of what a client does, on the types.
LEMMA ServerTypeOK ==
  ASSUME TypeOK, NEW c \in Clients, Server(c)
  PROVE  TypeOK'
<1>1. \A k \in Keys, s, t \in States : <<k, s, t>> \in Lines BY DEF Lines
<1>2. \A k \in Keys : state[k] \in States BY DEF TypeOK
<1>3. \A K \in SUBSET Keys : Live(K) \subseteq Keys /\ Active(K) \subseteq Keys
  BY DEF Live, Active
<1>4. Own(c) \subseteq Keys BY DEF Own
<1>5. args[c].keys \subseteq Keys /\ args[c].to \in States /\ args[c].unique \in Uniques \cup {None}
  <2>1. args[c] \in Args BY DEF TypeOK
  <2> QED BY <2>1 DEF Args
<1>6. {} \in SUBSET Lines OBVIOUS
<1>7. {"none", "pending", "running", "finished", "deleted"} = States BY DEF States
<1>8. ASSUME ServePush(c) PROVE TypeOK'
  <2>1. PICK k \in Own(c) :
          /\ state' = [state EXCEPT ![k] = "pending"]
          /\ unique' = [unique EXCEPT ![k] = args[c].unique]
          /\ Served(c, {<<k, "none", "pending">>})
    BY <1>8 DEF ServePush
  <2>2. {<<k, "none", "pending">>} \in SUBSET Lines BY <1>1, <1>4, <1>7
  <2>3. state' \in [Keys -> States] /\ unique' \in [Keys -> Uniques \cup {None}]
    BY <1>5, <1>7, <2>1 DEF TypeOK
  <2> QED BY <2>1, <2>2, <2>3, ServedTypes
<1>9. ASSUME ServeStart(c) PROVE TypeOK'
  <2>1. unique' \in [Keys -> Uniques \cup {None}] BY <1>9 DEF ServeStart, TypeOK
  <2>2. CASE Served(c, {}) /\ UNCHANGED state BY <1>6, <2>1, <2>2, ServedTypes DEF TypeOK
  <2>3. ASSUME NEW k \in Own(c), state' = [state EXCEPT ![k] = "running"],
               Served(c, {<<k, "pending", "running">>})
        PROVE  TypeOK'
    <3>1. {<<k, "pending", "running">>} \in SUBSET Lines BY <1>1, <1>4, <1>7
    <3>2. state' \in [Keys -> States] BY <1>7, <2>3 DEF TypeOK
    <3> QED BY <2>1, <2>3, <3>1, <3>2, ServedTypes
  <2> QED BY <1>9, <2>2, <2>3 DEF ServeStart
<1>10. ASSUME ServeUpdate(c) PROVE TypeOK'
  <2> DEFINE K == Live(args[c].keys)
             done == {<<k, state[k], args[c].to>> : k \in K}
  <2>1. state' = [k \in Keys |-> IF k \in K THEN args[c].to ELSE state[k]]
        /\ Served(c, done) /\ UNCHANGED unique
    BY <1>10 DEF ServeUpdate
  <2>2. K \subseteq Keys BY <1>3, <1>5
  <2>3. done \in SUBSET Lines BY <1>1, <1>2, <1>5, <2>2
  <2> HIDE DEF K, done
  <2>4. state' \in [Keys -> States] BY <1>2, <1>5, <2>1
  <2> QED BY <2>1, <2>3, <2>4, ServedTypes DEF TypeOK
<1>11. ASSUME ServeCancel(c) PROVE TypeOK'
  <2> DEFINE K == Active(args[c].keys)
             done == {<<k, state[k], state'[k]>> : k \in K}
  <2>1. state' = [k \in Keys |-> IF k \in K /\ state[k] = "pending" THEN "finished" ELSE state[k]]
        /\ Served(c, done) /\ UNCHANGED unique
    BY <1>11 DEF ServeCancel
  <2>2. K \subseteq Keys BY <1>3, <1>5
  <2>3. state' \in [Keys -> States]
    <3> HIDE DEF K, done
    <3> QED BY <1>2, <1>7, <2>1
  <2>4. \A k \in Keys : state'[k] \in States BY <2>3
  <2>5. done \in SUBSET Lines BY <1>1, <1>2, <2>2, <2>4
  <2> HIDE DEF K, done
  <2> QED BY <2>1, <2>3, <2>5, ServedTypes DEF TypeOK
<1>12. ASSUME ServeTags(c) PROVE TypeOK'
  <2> DEFINE done == {<<k, state[k], state[k]>> : k \in Live(args[c].keys)}
  <2>1. Served(c, done) /\ UNCHANGED serverVars BY <1>12 DEF ServeTags
  <2>2. done \in SUBSET Lines BY <1>1, <1>2, <1>3, <1>5
  <2> HIDE DEF done
  <2> QED BY <2>1, <2>2, ServedTypes DEF TypeOK, serverVars
<1>13. ASSUME ServeList(c) PROVE TypeOK'
  <2> DEFINE done == {<<k, state[k], state[k]>> : k \in Live(Own(c))}
  <2>1. Served(c, done) /\ UNCHANGED serverVars BY <1>13 DEF ServeList
  <2>2. done \in SUBSET Lines BY <1>1, <1>2, <1>3, <1>4
  <2> HIDE DEF done
  <2> QED BY <2>1, <2>2, ServedTypes DEF TypeOK, serverVars
<1>14. ASSUME RequestLost(c) PROVE TypeOK'
  BY <1>14, NoAnswerTypes DEF RequestLost, TypeOK, serverVars, setVars
<1> QED BY <1>8, <1>9, <1>10, <1>11, <1>12, <1>13, <1>14, RefusedTypes DEF Server

LEMMA CallsTypeOK ==
  ASSUME TypeOK, NEW c \in Clients, Calls(c)
  PROVE  TypeOK'
<1>1. {"push", "run", "startjob", "update", "move", "cancel", "tags", "list", "load"}
        \subseteq Methods
  BY DEF Methods
<1>2. {"running", "finished", "deleted"} \subseteq States BY DEF States
<1>3. Own(c) \subseteq Keys BY DEF Own
<1>4. ASSUME NEW u \in Uniques \cup {None}, Push(c, u) \/ Run(c, u) PROVE TypeOK'
  BY <1>1, <1>4, BeginTypes, RecordTypes DEF Push, Run
<1>5. ASSUME StartNext(c) \/ List(c) \/ Count(c) \/ Summary(c) \/ IterLast(c) PROVE TypeOK'
  BY <1>1, <1>5, BeginTypes, RecordTypes DEF StartNext, List, Count, Summary, IterLast
<1>6. ASSUME NEW K \in SUBSET Keys, NEW to \in {"running", "finished", "deleted"},
             UpdateJobs(c, K, to)
      PROVE  TypeOK'
  <2>1. K \in SUBSET Keys /\ to \in States BY <1>2
  <2> QED BY <1>1, <1>6, <2>1, BeginTypes, RecordTypes DEF UpdateJobs
<1>7. ASSUME NEW k \in Own(c), NEW to \in {"running", "finished", "deleted"}, MoveJob(c, k, to)
      PROVE  TypeOK'
  <2>1. {k} \in SUBSET Keys /\ to \in States BY <1>2, <1>3
  <2> QED BY <1>1, <1>7, <2>1, BeginTypes, RecordTypes DEF MoveJob
<1>8. ASSUME NEW k \in Own(c), RequestCancel(c, k) PROVE TypeOK'
  <2>1. {k} \in SUBSET Keys BY <1>3
  <2> QED BY <1>1, <1>8, <2>1, BeginTypes, RecordTypes DEF RequestCancel
<1>9. ASSUME NEW K \in SUBSET Keys, CancelKeys(c, K) PROVE TypeOK'
  BY <1>1, <1>9, BeginTypes, RecordTypes DEF CancelKeys
<1>10. ASSUME NEW K \in SUBSET Own(c), UpdateTags(c, K) PROVE TypeOK'
  <2>1. K \in SUBSET Keys BY <1>3
  <2> QED BY <1>1, <1>10, <2>1, BeginTypes, RecordTypes DEF UpdateTags
<1>11. ASSUME NEW what \in {"stop", "delete"}, BeginLoop(c, what) PROVE TypeOK'
  <2>1. calls' \in [Clients -> Nat] /\ loop' \in [Clients -> {"no", "stop", "delete"}]
    <3>1. calls' = [calls EXCEPT ![c] = @ + 1] /\ loop' = [loop EXCEPT ![c] = what]
      BY <1>11 DEF BeginLoop
    <3>2. calls \in [Clients -> Nat] /\ loop \in [Clients -> {"no", "stop", "delete"}]
      BY DEF TypeOK
    <3> QED BY <3>1, <3>2
  <2>2. CASE Send(c, "load", NoArgs)
    <3>1. "load" \in Methods BY <1>1
    <3> QED BY <1>11, <2>1, <2>2, <3>1, SendTypes, RecordTypes DEF BeginLoop, Send, TypeOK, serverVars
  <2>3. CASE UNCHANGED <<serverVars, pc, op, args, tries, answer, effects>>
    BY <1>11, <2>1, <2>3 DEF BeginLoop, TypeOK, serverVars
  <2> QED BY <1>11, <2>2, <2>3 DEF BeginLoop
<1>12. ASSUME NEW k \in Own(c), UpdateJobTags(c, k) PROVE TypeOK'
  BY <1>10, <1>12 DEF UpdateJobTags
<1> QED BY <1>4, <1>5, <1>6, <1>7, <1>8, <1>9, <1>10, <1>11, <1>12 DEF Calls

LEMMA ClientTypeOK ==
  ASSUME TypeOK, NEW c \in Clients, Client(c)
  PROVE  TypeOK'
<1>1. ASSUME Return(c) PROVE TypeOK'
  BY <1>1, FinishTypes DEF Return, TypeOK, setVars
<1>2. ASSUME LoadJobs(c) PROVE TypeOK'
  <2> DEFINE K == {x[1] : x \in answer[c].lines}
  <2>1. answer[c].lines \subseteq Lines
    <3>1. answer[c] \in Answers BY DEF TypeOK
    <3> QED BY <3>1 DEF Answers
  <2>2. K \subseteq Keys BY <2>1 DEF Lines
  <2>3. /\ Finish(c) /\ UNCHANGED <<asked, twice, broke>>
        /\ \/ loop' = [loop EXCEPT ![c] = "no"] /\ UNCHANGED <<jobset, loaded>>
           \/ /\ jobset' = [jobset EXCEPT ![c] = K] /\ loaded' = [loaded EXCEPT ![c] = K]
              /\ UNCHANGED loop
    BY <1>2 DEF LoadJobs, AfterStatus
  <2> HIDE DEF K
  <2>4. /\ jobset' \in [Clients -> {None} \cup SUBSET Keys]
        /\ loop' \in [Clients -> {"no", "stop", "delete"}]
        /\ loaded' \in [Clients -> SUBSET Keys]
    BY <2>2, <2>3 DEF TypeOK
  <2> QED BY <2>3, <2>4, FinishTypes DEF TypeOK
<1>3. ASSUME LoopJob(c) PROVE TypeOK'
  <2>1. jobset[c] \in SUBSET Keys BY <1>3 DEF LoopJob, TypeOK
  <2>2. PICK k \in jobset[c] :
          /\ Send(c, IF loop[c] = "stop" THEN "cancel" ELSE "update",
                  [NoArgs EXCEPT !.keys = {k},
                                 !.to = IF loop[c] = "stop" THEN "none" ELSE "deleted"])
          /\ jobset' = [jobset EXCEPT ![c] = @ \ {k}]
          /\ asked' = [asked EXCEPT ![c] = @ \cup {k}]
          /\ twice' = IF k \in asked[c] THEN twice \cup {c} ELSE twice
    BY <1>3 DEF LoopJob, Consumed
  <2>3. {k} \in SUBSET Keys BY <2>1
  <2>4. (IF loop[c] = "stop" THEN "none" ELSE "deleted") \in States BY DEF States
  <2>5. (IF loop[c] = "stop" THEN "cancel" ELSE "update") \in Methods BY DEF Methods
  <2>6. [NoArgs EXCEPT !.keys = {k}, !.to = IF loop[c] = "stop" THEN "none" ELSE "deleted"] \in Args
    BY <2>3, <2>4, RecordTypes
  <2>7. /\ pc' \in [Clients -> {"idle", "sent", "answered"}]
        /\ op' \in [Clients -> Methods] /\ args' \in [Clients -> Args]
        /\ effects' \in [Clients -> SUBSET Lines]
        /\ UNCHANGED <<tries, answer, serverVars>>
    BY <2>2, <2>5, <2>6, SendTypes DEF Send
  <2>8. /\ jobset' \in [Clients -> {None} \cup SUBSET Keys]
        /\ asked' \in [Clients -> SUBSET Keys] /\ twice' \subseteq Clients
    BY <2>1, <2>2 DEF TypeOK
  <2>9. UNCHANGED <<calls, loop, loaded, broke>> BY <1>3 DEF LoopJob
  <2> QED BY <2>7, <2>8, <2>9 DEF TypeOK, serverVars
<1>4. ASSUME LoopReturn(c) PROVE TypeOK'
  <2>1. loop' \in [Clients -> {"no", "stop", "delete"}] BY <1>4 DEF LoopReturn, TypeOK
  <2> QED BY <1>4, <2>1, FinishTypes DEF LoopReturn, TypeOK
<1>5. ASSUME LoopEnds(c) PROVE TypeOK'
  BY <1>5 DEF LoopEnds, TypeOK, callVars, serverVars
<1>6. ASSUME LoopBreaks(c) PROVE TypeOK'
  <2>1. /\ loop' \in [Clients -> {"no", "stop", "delete"}] /\ broke' \subseteq Clients
        /\ jobset' \in [Clients -> {None} \cup SUBSET Keys]
    BY <1>6 DEF LoopBreaks, TypeOK
  <2> QED BY <1>6, <2>1 DEF LoopBreaks, TypeOK, callVars, serverVars
<1> QED BY <1>1, <1>2, <1>3, <1>4, <1>5, <1>6 DEF Client

\* The type invariant of run jobs, whatever the clients call and the server does.
THEOREM JobsTypeCorrect == Spec => []TypeOK
<1>1. TypeOK /\ [Next]_vars => TypeOK'
  <2>1. TypeOK /\ UNCHANGED vars => TypeOK'
    BY DEF TypeOK, vars, serverVars, callVars, setVars
  <2> QED BY <2>1, CallsTypeOK, ServerTypeOK, ClientTypeOK DEF Next
<1> QED BY <1>1, InitTypeOK, PTL DEF Spec

(***************************************************************************)
(* What the caller is told: the inductive invariant says of a call at each *)
(* of its stages what the server has done for it.                          *)
(***************************************************************************)
Pushed == {{<<k, "none", "pending">>} : k \in Keys}

ToldInv ==
  \A c \in Clients :
    /\ pc[c] # "answered" => answer[c] = NoAnswer
    /\ (pc[c] # "answered" /\ op[c] # "list") => effects[c] = {}
    /\ (pc[c] = "answered" /\ op[c] # "list") =>
         \/ answer[c].code \in {0, 500}
         \/ /\ answer[c].code # 200 \/ ErrorSeen(answer[c].error) # "returned"
            /\ effects[c] = {} /\ answer[c].lines = {}
         \/ /\ answer[c].code = 200 /\ answer[c].error = "no"
            /\ effects[c] = answer[c].lines
            /\ op[c] \in {"push", "run"} => effects[c] \in Pushed

\* The step of a client leaves what the other clients are told.
Others(c) ==
  \A x \in Clients \ {c} :
    /\ pc'[x] = pc[x] /\ op'[x] = op[x] /\ answer'[x] = answer[x] /\ effects'[x] = effects[x]

LEMMA SendTold ==
  ASSUME TypeOK, ToldInv, NEW c \in Clients, NEW m \in Methods, NEW a \in Args, Send(c, m, a)
  PROVE  ToldInv'
<1>1. Others(c) BY DEF Send, Others, TypeOK
<1>2. pc'[c] = "sent" /\ answer'[c] = answer[c] /\ effects'[c] = {} /\ pc[c] = "idle"
  BY DEF Send, TypeOK
<1> QED BY <1>1, <1>2 DEF ToldInv, Others

LEMMA FinishTold ==
  ASSUME TypeOK, ToldInv, NEW c \in Clients, Finish(c)
  PROVE  ToldInv'
<1>1. Others(c) BY DEF Finish, Others, TypeOK
<1>2. pc'[c] = "idle" /\ answer'[c] = NoAnswer /\ effects'[c] = {} BY DEF Finish, TypeOK
<1> QED BY <1>1, <1>2 DEF ToldInv, Others

\* An attempt without an answer: only a list may go on.
LEMMA NoAnswerTold ==
  ASSUME TypeOK, ToldInv, NEW c \in Clients, pc[c] = "sent", NoAnswerComes(c),
         op' = op, \A x \in Clients \ {c} : effects'[x] = effects[x]
  PROVE  ToldInv'
<1>1. Others(c)
  <2>1. CASE Retries(c) BY <2>1 DEF NoAnswerComes, Others
  <2>2. CASE ~Retries(c) BY <2>2 DEF NoAnswerComes, Others, TypeOK
  <2> QED BY <2>1, <2>2
<1>2. CASE Retries(c) BY <1>1, <1>2 DEF NoAnswerComes, Retries, ToldInv, Others
<1>3. CASE ~Retries(c)
  <2>1. pc'[c] = "answered" BY <1>3 DEF NoAnswerComes, TypeOK
  <2>2. answer'[c].code \in {0, 500}
    <3>1. PICK code \in {0, 500} : answer' = [answer EXCEPT ![c].code = code]
      BY <1>3 DEF NoAnswerComes
    <3>2. answer'[c] = [answer[c] EXCEPT !.code = code] BY <3>1 DEF TypeOK
    <3>3. answer[c] \in Answers BY DEF TypeOK
    <3>4. [answer[c] EXCEPT !.code = code].code = code BY <3>3 DEF Answers
    <3> QED BY <3>2, <3>4
  <2> QED BY <1>1, <2>1, <2>2 DEF ToldInv, Others
<1> QED BY <1>2, <1>3

LEMMA ServedTold ==
  ASSUME TypeOK, ToldInv, NEW c \in Clients, pc[c] = "sent", NEW done, Served(c, done),
         op[c] \in {"push", "run"} => done \in Pushed
  PROVE  ToldInv'
<1>1. op' = op /\ \A x \in Clients \ {c} : effects'[x] = effects[x] BY DEF Served
<1>2. CASE NoAnswerComes(c) BY <1>1, <1>2, NoAnswerTold
<1>3. CASE AnswerWith(c, [code |-> 200, error |-> "no", lines |-> done])
  <2>1. Others(c) BY <1>1, <1>3 DEF AnswerWith, Others
  <2>2. pc'[c] = "answered" /\ answer'[c] = [code |-> 200, error |-> "no", lines |-> done]
    BY <1>3 DEF AnswerWith, TypeOK
  <2>3. op[c] # "list" => effects'[c] = done BY DEF Served, TypeOK, ToldInv
  <2> QED BY <1>1, <2>1, <2>2, <2>3 DEF ToldInv, Others
<1> QED BY <1>2, <1>3 DEF Served

LEMMA RefusedTold ==
  ASSUME TypeOK, ToldInv, NEW c \in Clients, NEW code, NEW error, Refuse(c, code, error),
         code # 200 \/ ErrorSeen(error) # "returned"
  PROVE  ToldInv'
<1>1. Others(c) BY DEF Refuse, AnswerWith, Others, TypeOK
<1>2. /\ pc[c] = "sent" /\ pc'[c] = "answered" /\ op' = op /\ effects' = effects
      /\ answer'[c] = [code |-> code, error |-> error, lines |-> {}]
  BY DEF Refuse, AnswerWith, TypeOK
<1> QED BY <1>1, <1>2 DEF ToldInv, Others

LEMMA ServerTold ==
  ASSUME TypeOK, ToldInv, NEW c \in Clients, Server(c)
  PROVE  ToldInv'
<1>1. ASSUME ServePush(c) PROVE ToldInv'
  <2>1. PICK k \in Own(c) : Served(c, {<<k, "none", "pending">>}) BY <1>1 DEF ServePush
  <2>2. {<<k, "none", "pending">>} \in Pushed BY DEF Own, Pushed
  <2> QED BY <1>1, <2>1, <2>2, ServedTold DEF ServePush, Sent
<1>2. ASSUME ServeStart(c) PROVE ToldInv'
  <2>1. PICK done : Served(c, done) BY <1>2 DEF ServeStart
  <2> QED BY <1>2, <2>1, ServedTold DEF ServeStart, Sent
<1>3. ASSUME ServeUpdate(c) PROVE ToldInv'
  <2>1. PICK done : Served(c, done) BY <1>3 DEF ServeUpdate
  <2> QED BY <1>3, <2>1, ServedTold DEF ServeUpdate, Sent
<1>4. ASSUME ServeCancel(c) PROVE ToldInv'
  <2>1. PICK done : Served(c, done) BY <1>4 DEF ServeCancel
  <2> QED BY <1>4, <2>1, ServedTold DEF ServeCancel, Sent
<1>5. ASSUME ServeTags(c) PROVE ToldInv'
  <2>1. PICK done : Served(c, done) BY <1>5 DEF ServeTags
  <2> QED BY <1>5, <2>1, ServedTold DEF ServeTags, Sent
<1>6. ASSUME ServeList(c) PROVE ToldInv'
  <2>1. PICK done : Served(c, done) BY <1>6 DEF ServeList
  <2> QED BY <1>6, <2>1, ServedTold DEF ServeList, Sent
<1>7. ASSUME RequestLost(c) PROVE ToldInv' BY <1>7, NoAnswerTold DEF RequestLost
<1>8. ASSUME NEW code \in Codes, Refuse(c, code, "no") PROVE ToldInv'
  <2>1. code # 200 BY JobsAssumption
  <2> QED BY <1>8, <2>1, RefusedTold
<1>9. ASSUME NEW error \in {"Active job", "already scheduled", "other"}, Refuse(c, 200, error)
      PROVE  ToldInv'
  <2>1. ErrorSeen(error) # "returned" BY DEF ErrorSeen
  <2> QED BY <1>9, <2>1, RefusedTold
<1> QED BY <1>1, <1>2, <1>3, <1>4, <1>5, <1>6, <1>7, <1>8, <1>9 DEF Server

LEMMA CallsTold ==
  ASSUME TypeOK, ToldInv, NEW c \in Clients, Calls(c)
  PROVE  ToldInv'
<1>1. {"push", "run", "startjob", "update", "move", "cancel", "tags", "list", "load"}
        \subseteq Methods
  BY DEF Methods
<1>2. {"running", "finished", "deleted"} \subseteq States BY DEF States
<1>3. Own(c) \subseteq Keys BY DEF Own
<1>4. ASSUME NEW m \in Methods, NEW a \in Args, Begin(c, m, a) PROVE ToldInv'
  BY <1>4, SendTold DEF Begin
<1>5. ASSUME NEW u \in Uniques \cup {None}, Push(c, u) \/ Run(c, u) PROVE ToldInv'
  BY <1>1, <1>4, <1>5, RecordTypes DEF Push, Run
<1>6. ASSUME StartNext(c) \/ List(c) \/ Count(c) \/ Summary(c) \/ IterLast(c) PROVE ToldInv'
  BY <1>1, <1>4, <1>6, RecordTypes DEF StartNext, List, Count, Summary, IterLast
<1>7. ASSUME NEW K \in SUBSET Keys, NEW to \in {"running", "finished", "deleted"},
             UpdateJobs(c, K, to)
      PROVE  ToldInv'
  <2>1. K \in SUBSET Keys /\ to \in States BY <1>2, <1>3
  <2> QED BY <1>1, <1>4, <1>7, <2>1, RecordTypes DEF UpdateJobs
<1>8. ASSUME NEW k \in Own(c), NEW to \in {"running", "finished", "deleted"}, MoveJob(c, k, to)
      PROVE  ToldInv'
  <2>1. {k} \in SUBSET Keys /\ to \in States BY <1>2, <1>3
  <2> QED BY <1>1, <1>4, <1>8, <2>1, RecordTypes DEF MoveJob
<1>9. ASSUME NEW k \in Own(c), RequestCancel(c, k) PROVE ToldInv'
  <2>1. {k} \in SUBSET Keys BY <1>3
  <2> QED BY <1>1, <1>4, <1>9, <2>1, RecordTypes DEF RequestCancel
<1>10. ASSUME NEW K \in SUBSET Keys, CancelKeys(c, K) PROVE ToldInv'
  BY <1>1, <1>4, <1>10, RecordTypes DEF CancelKeys
<1>11. ASSUME NEW K \in SUBSET Own(c), UpdateTags(c, K) PROVE ToldInv'
  <2>1. K \in SUBSET Keys BY <1>3
  <2> QED BY <1>1, <1>4, <1>11, <2>1, RecordTypes DEF UpdateTags
<1>12. ASSUME NEW what \in {"stop", "delete"}, BeginLoop(c, what) PROVE ToldInv'
  <2>1. CASE Send(c, "load", NoArgs) BY <1>1, <2>1, SendTold, RecordTypes
  <2>2. CASE UNCHANGED <<serverVars, pc, op, args, tries, answer, effects>>
    BY <2>2 DEF ToldInv
  <2> QED BY <1>12, <2>1, <2>2 DEF BeginLoop
<1>13. ASSUME NEW k \in Own(c), UpdateJobTags(c, k) PROVE ToldInv'
  BY <1>11, <1>13 DEF UpdateJobTags
<1> QED BY <1>5, <1>6, <1>7, <1>8, <1>9, <1>10, <1>11, <1>12, <1>13 DEF Calls

LEMMA ClientTold ==
  ASSUME TypeOK, ToldInv, NEW c \in Clients, Client(c)
  PROVE  ToldInv'
<1>1. CASE Return(c) \/ LoadJobs(c) \/ LoopReturn(c)
  <2>1. Finish(c) BY <1>1 DEF Return, LoadJobs, LoopReturn
  <2> QED BY <2>1, FinishTold
<1>2. ASSUME LoopJob(c) PROVE ToldInv'
  <2>1. jobset[c] \subseteq Keys BY <1>2 DEF LoopJob, TypeOK
  <2>2. PICK k \in jobset[c] :
          Send(c, IF loop[c] = "stop" THEN "cancel" ELSE "update",
               [NoArgs EXCEPT !.keys = {k},
                              !.to = IF loop[c] = "stop" THEN "none" ELSE "deleted"])
    BY <1>2 DEF LoopJob
  <2>3. (IF loop[c] = "stop" THEN "none" ELSE "deleted") \in States BY DEF States
  <2>4. (IF loop[c] = "stop" THEN "cancel" ELSE "update") \in Methods BY DEF Methods
  <2>5. [NoArgs EXCEPT !.keys = {k}, !.to = IF loop[c] = "stop" THEN "none" ELSE "deleted"] \in Args
    BY <2>1, <2>3, RecordTypes
  <2> QED BY <2>2, <2>4, <2>5, SendTold
<1>3. ASSUME LoopEnds(c) \/ LoopBreaks(c) PROVE ToldInv'
  <2>1. UNCHANGED <<pc, op, answer, effects>> BY <1>3 DEF LoopEnds, LoopBreaks, callVars
  <2> QED BY <2>1 DEF ToldInv
<1> QED BY <1>1, <1>2, <1>3 DEF Client

LEMMA ToldAlways == Spec => []ToldInv
<1>1. Init => ToldInv BY DEF Init, ToldInv
<1>2. TypeOK /\ ToldInv /\ [Next]_vars => ToldInv'
  <2>1. TypeOK /\ ToldInv /\ UNCHANGED vars => ToldInv' BY DEF ToldInv, vars, callVars
  <2> QED BY <2>1, CallsTold, ServerTold, ClientTold DEF Next
<1> QED BY <1>1, <1>2, JobsTypeCorrect, PTL DEF Spec

LEMMA ErrorsRaise ==
  ASSUME NEW code
  PROVE  /\ code \in {0, 500} => WrapHttpErrors(code) \in {"ConnectionError", "ServerError"}
         /\ WrapHttpErrors(code) # "returned" /\ WrapHttpErrors(code) # "DuplicateJobError"
<1>1. CASE code \in {400, 401, 403, 404, 413} BY <1>1 DEF WrapHttpErrors
<1>2. CASE code \notin {400, 401, 403, 404, 413} BY <1>2 DEF WrapHttpErrors
<1> QED BY <1>1, <1>2

LEMMA StatusRaises ==
  ASSUME NEW c
  PROVE  /\ answer[c].code \in {0, 500} => ErrorStatus(c) \in {"ConnectionError", "ServerError"}
         /\ ErrorStatus(c) # "returned" /\ ErrorStatus(c) # "DuplicateJobError"
<1>1. 500 \in 500..599 OBVIOUS
<1> QED BY <1>1, ErrorsRaise DEF ErrorStatus, DecodeError

\* No call that returns hides an effect from its caller: nothing that changes jobs
\* is sent again.
THEOREM ReturnTellsAllHolds == Spec => []ReturnTellsAll
<1>1. ToldInv => ReturnTellsAll
  BY StatusRaises DEF ToldInv, ReturnTellsAll, Raised, Outcome
<1> QED BY <1>1, ToldAlways, PTL

\* A push made a job if it returned, and did nothing if it reports a duplicate.
THEOREM PushTellsHolds == Spec => []PushTells
<1>1. ToldInv => PushTells
  <2> SUFFICES ASSUME ToldInv, NEW c \in Clients, pc[c] = "answered"
               PROVE  /\ (op[c] \in {"push", "run"} /\ ~Raised(c)) =>
                           \E k \in Keys : effects[c] = {<<k, "none", "pending">>}
                      /\ (op[c] # "list" /\ Outcome(c) \in {"DuplicateJobError", "NotFound"}) =>
                           effects[c] = {}
    BY DEF PushTells
  <2>1. ASSUME op[c] \in {"push", "run"}, ~Raised(c)
        PROVE  \E k \in Keys : effects[c] = {<<k, "none", "pending">>}
    <3>1. effects[c] \in Pushed BY <2>1, StatusRaises DEF ToldInv, Raised, Outcome
    <3> QED BY <3>1 DEF Pushed
  <2>2. ASSUME op[c] # "list", Outcome(c) \in {"DuplicateJobError", "NotFound"}
        PROVE  effects[c] = {}
    <3>1. CASE answer[c].code \in {0, 500} BY <2>2, <3>1, StatusRaises DEF Outcome
    <3>2. CASE effects[c] = {} /\ answer[c].lines = {} BY <3>2
    <3>3. CASE /\ answer[c].code = 200 /\ answer[c].error = "no"
               /\ effects[c] = answer[c].lines
      BY <2>2, <3>3 DEF Outcome, ErrorSeen
    <3> QED BY <2>2, <3>1, <3>2, <3>3 DEF ToldInv
  <2> QED BY <2>1, <2>2
<1> QED BY <1>1, ToldAlways, PTL

(***************************************************************************)
(* The loops over a JobSet: its iterator and the jobs already asked are    *)
(* disjoint, and together what it was loaded with.                         *)
(***************************************************************************)
JobSetInv ==
  /\ twice = {}
  /\ \A c \in Clients :
       /\ op[c] = "load" => jobset[c] = None
       /\ jobset[c] = None => asked[c] = {}
       /\ jobset[c] # None => /\ asked[c] \cap jobset[c] = {}
                              /\ (asked[c] \cup jobset[c] = loaded[c] \/ (jobset[c] = {} /\ c \in broke))

LEMMA CallsJobSet ==
  ASSUME TypeOK, JobSetInv, NEW c \in Clients, Calls(c)
  PROVE  JobSetInv'
<1>1. ASSUME NEW m \in Methods \ {"load"}, NEW a, Begin(c, m, a) PROVE JobSetInv'
  BY <1>1 DEF Begin, Send, setVars, JobSetInv, TypeOK
<1>2. {"push", "run", "startjob", "update", "move", "cancel", "tags", "list"}
        \subseteq Methods \ {"load"}
  BY DEF Methods
<1>3. ASSUME NEW what, BeginLoop(c, what) PROVE JobSetInv'
  <2>1. UNCHANGED <<jobset, loaded, asked, twice, broke>> BY <1>3 DEF BeginLoop
  <2>2. \A x \in Clients : op'[x] = "load" => op[x] = "load" \/ jobset[x] = None
    BY <1>3 DEF BeginLoop, Send, TypeOK
  <2> QED BY <2>1, <2>2 DEF JobSetInv
<1> QED BY <1>1, <1>2, <1>3
       DEF Calls, Push, Run, StartNext, List, Count, Summary, IterLast, UpdateJobs, MoveJob,
           RequestCancel, CancelKeys, UpdateTags, UpdateJobTags

LEMMA ServerJobSet ==
  ASSUME TypeOK, JobSetInv, NEW c \in Clients, Server(c)
  PROVE  JobSetInv'
<1>1. UNCHANGED <<op, setVars>>
  BY DEF Server, ServePush, ServeStart, ServeUpdate, ServeCancel, ServeTags, ServeList, Served,
         RequestLost, Refuse
<1> QED BY <1>1 DEF JobSetInv, setVars

LEMMA ClientJobSet ==
  ASSUME TypeOK, JobSetInv, NEW c \in Clients, Client(c)
  PROVE  JobSetInv'
<1>1. ASSUME Finish(c) PROVE \A x \in Clients : op'[x] = "load" => op[x] = "load" /\ x # c
  BY <1>1 DEF Finish, TypeOK
<1>2. ASSUME Return(c) PROVE JobSetInv'
  BY <1>1, <1>2 DEF Return, setVars, JobSetInv
<1>3. ASSUME LoadJobs(c) PROVE JobSetInv'
  <2> DEFINE K == {x[1] : x \in answer[c].lines}
  <2>1. op[c] = "load" /\ Finish(c) /\ UNCHANGED <<asked, twice, broke>>
    BY <1>3 DEF LoadJobs
  <2>2. jobset[c] = None /\ asked[c] = {} BY <2>1 DEF JobSetInv
  <2>3. CASE UNCHANGED <<jobset, loaded>> BY <1>1, <2>1, <2>3 DEF JobSetInv
  <2>4. CASE jobset' = [jobset EXCEPT ![c] = K] /\ loaded' = [loaded EXCEPT ![c] = K]
    <3> HIDE DEF K
    <3>1. jobset'[c] = K /\ loaded'[c] = K BY <2>4 DEF TypeOK
    <3>2. \A x \in Clients \ {c} : jobset'[x] = jobset[x] /\ loaded'[x] = loaded[x]
      BY <2>4 DEF TypeOK
    <3>3. asked'[c] \cap jobset'[c] = {} /\ asked'[c] \cup jobset'[c] = loaded'[c]
      BY <2>1, <2>2, <3>1
    <3>4. op'[c] # "load" BY <1>1, <2>1
    <3>5. \A x \in Clients \ {c} : op'[x] = "load" => op[x] = "load" BY <1>1, <2>1
    <3> QED BY <2>1, <2>2, <3>2, <3>3, <3>4, <3>5 DEF JobSetInv
  <2> QED BY <1>3, <2>3, <2>4 DEF LoadJobs, AfterStatus
<1>4. ASSUME LoopJob(c) PROVE JobSetInv'
  <2>1. jobset[c] # None /\ jobset[c] \in SUBSET Keys BY <1>4 DEF LoopJob, TypeOK
  <2>2. PICK k \in jobset[c] :
          /\ Send(c, IF loop[c] = "stop" THEN "cancel" ELSE "update",
                  [NoArgs EXCEPT !.keys = {k},
                                 !.to = IF loop[c] = "stop" THEN "none" ELSE "deleted"])
          /\ jobset' = [jobset EXCEPT ![c] = @ \ {k}]
          /\ asked' = [asked EXCEPT ![c] = @ \cup {k}]
          /\ twice' = IF k \in asked[c] THEN twice \cup {c} ELSE twice
    BY <1>4 DEF LoopJob, Consumed
  <2>3. \A x \in Clients : op'[x] = "load" => op[x] = "load" /\ x # c
    BY <2>2 DEF Send, TypeOK
  <2>4. k \notin asked[c] /\ asked[c] \cup jobset[c] = loaded[c] BY <2>1, <2>2 DEF JobSetInv
  <2>5. twice' = {} BY <2>2, <2>4 DEF JobSetInv
  <2>6. jobset'[c] = jobset[c] \ {k} /\ asked'[c] = asked[c] \cup {k} BY <2>2 DEF TypeOK
  <2>7. \A x \in Clients \ {c} : jobset'[x] = jobset[x] /\ asked'[x] = asked[x]
    BY <2>2 DEF TypeOK
  <2>8. jobset'[c] # None
    <3>1. jobset[c] \ {k} \in SUBSET Keys BY <2>1
    <3> QED BY <2>6, <3>1, JobsAssumption
  <2>9. loaded' = loaded /\ broke' = broke BY <1>4 DEF LoopJob
  <2>10. /\ asked'[c] \cap jobset'[c] = {} /\ asked'[c] \cup jobset'[c] = loaded'[c]
    BY <2>1, <2>2, <2>4, <2>6, <2>9 DEF JobSetInv
  <2> QED BY <2>3, <2>5, <2>7, <2>8, <2>9, <2>10 DEF JobSetInv
<1>5. ASSUME LoopReturn(c) PROVE JobSetInv'
  BY <1>1, <1>5 DEF LoopReturn, JobSetInv
<1>6. ASSUME LoopEnds(c) PROVE JobSetInv'
  <2>1. UNCHANGED <<jobset, loaded, asked, twice, broke, op>> BY <1>6 DEF LoopEnds, callVars
  <2> QED BY <2>1 DEF JobSetInv
<1>7. ASSUME LoopBreaks(c) PROVE JobSetInv'
  <2>1. UNCHANGED <<loaded, asked, twice, op>> /\ jobset[c] # None
    BY <1>7 DEF LoopBreaks, callVars
  <2>2. /\ jobset'[c] = {} /\ c \in broke' /\ broke \subseteq broke'
        /\ \A x \in Clients \ {c} : jobset'[x] = jobset[x]
    BY <1>7 DEF LoopBreaks, TypeOK
  <2>3. {} # None BY JobsAssumption
  <2> QED BY <2>1, <2>2, <2>3 DEF JobSetInv
<1> QED BY <1>2, <1>3, <1>4, <1>5, <1>6, <1>7 DEF Client

LEMMA JobSetAlways == Spec => []JobSetInv
<1>1. Init => JobSetInv BY DEF Init, JobSetInv
<1>2. TypeOK /\ JobSetInv /\ [Next]_vars => JobSetInv'
  <2>1. JobSetInv /\ UNCHANGED vars => JobSetInv' BY DEF JobSetInv, vars, callVars, setVars
  <2> QED BY <2>1, CallsJobSet, ServerJobSet, ClientJobSet DEF Next
<1> QED BY <1>1, <1>2, JobsTypeCorrect, PTL DEF Spec

\* However many loops go over a JobSet, each of its jobs is asked at most once ...
THEOREM JobSetAsksOnceHolds == Spec => []JobSetAsksOnce
<1>1. JobSetInv => JobSetAsksOnce BY DEF JobSetInv, JobSetAsksOnce
<1> QED BY <1>1, JobSetAlways, PTL

\* ... and each of them once the iterator is at its end.
THEOREM JobSetAsksAllHolds == Spec => []JobSetAsksAll
<1>1. JobSetInv => JobSetAsksAll
  <2>1. {} # None BY JobsAssumption
  <2> QED BY <2>1 DEF JobSetInv, JobSetAsksAll
<1> QED BY <1>1, JobSetAlways, PTL

(***************************************************************************)
(* The jobs a client's requests name are of its project, but for those of  *)
(* JobQ.update: a Job is of its own project, cancel refuses other keys,    *)
(* and a JobSet was loaded with jobs of the project.                       *)
(***************************************************************************)
Changing == {"update", "move", "cancel"}
Checked(c, m) == m \in Changing /\ (m = "update" => loop[c] # "no")
Within(c) ==
  /\ Checked(c, op[c]) => args[c].keys \subseteq Own(c)
  /\ pc[c] = "idle" => op[c] = "none"
  /\ jobset[c] # None => jobset[c] \subseteq Own(c)
  /\ pc[c] # "answered" => answer[c].lines = {}
  /\ op[c] = "load" => \A x \in answer[c].lines : x[1] \in Own(c)
ProjectInv == \A c \in Clients : Within(c)

\* A step of one client leaves the others'.
LEMMA OthersWithin ==
  ASSUME ProjectInv, NEW c \in Clients, Within(c)',
         \A x \in Clients \ {c} : /\ pc'[x] = pc[x] /\ op'[x] = op[x] /\ args'[x] = args[x]
                                  /\ answer'[x] = answer[x] /\ jobset'[x] = jobset[x]
                                  /\ loop'[x] = loop[x]
  PROVE  ProjectInv'
<1> SUFFICES ASSUME NEW x \in Clients \ {c} PROVE Within(x)'
  BY DEF ProjectInv
<1>1. Within(x) BY DEF ProjectInv
<1> QED BY <1>1 DEF Within, Own, Checked

LEMMA BeginWithin ==
  ASSUME TypeOK, ProjectInv, NEW c \in Clients, NEW m, NEW a, Begin(c, m, a),
         m \in Changing \ {"update"} => a.keys \subseteq Own(c)
  PROVE  ProjectInv'
<1>1. /\ pc[c] = "idle" /\ pc' = [pc EXCEPT ![c] = "sent"] /\ op' = [op EXCEPT ![c] = m]
      /\ args' = [args EXCEPT ![c] = a] /\ answer' = answer /\ jobset' = jobset
      /\ loop' = loop /\ loop[c] = "no"
  BY DEF Begin, Send, setVars
<1>2. Within(c)
  BY DEF ProjectInv
<1>3. pc'[c] = "sent" /\ op'[c] = m /\ args'[c] = a BY <1>1 DEF TypeOK
<1>4. Within(c)' BY <1>1, <1>2, <1>3 DEF Within, Own, Checked
<1> QED BY <1>1, <1>4, OthersWithin DEF TypeOK

LEMMA CallsWithin ==
  ASSUME TypeOK, ProjectInv, NEW c \in Clients, Calls(c)
  PROVE  ProjectInv'
<1>1. \A K : [NoArgs EXCEPT !.keys = K].keys = K BY DEF NoArgs
<1>2. \A K, to : [NoArgs EXCEPT !.keys = K, !.to = to].keys = K BY DEF NoArgs
<1>3. ASSUME NEW u, Push(c, u) \/ Run(c, u) PROVE ProjectInv'
  BY <1>3, BeginWithin DEF Push, Run, Changing
<1>4. ASSUME StartNext(c) \/ List(c) \/ Count(c) \/ Summary(c) \/ IterLast(c) PROVE ProjectInv'
  BY <1>4, BeginWithin DEF StartNext, List, Count, Summary, IterLast, Changing
<1>5. ASSUME NEW K, NEW to, UpdateJobs(c, K, to) PROVE ProjectInv'
  BY <1>5, BeginWithin DEF UpdateJobs
<1>6. ASSUME NEW k \in Own(c), NEW to, MoveJob(c, k, to) PROVE ProjectInv'
  <2> DEFINE a == [NoArgs EXCEPT !.keys = {k}, !.to = to]
  <2>1. Begin(c, "move", a) BY <1>6 DEF MoveJob
  <2>2. a.keys \subseteq Own(c) BY <1>2
  <2> HIDE DEF a
  <2> QED BY <2>1, <2>2, BeginWithin
<1>7. ASSUME NEW k \in Own(c), RequestCancel(c, k) PROVE ProjectInv'
  BY <1>1, <1>7, BeginWithin DEF RequestCancel
<1>8. ASSUME NEW K \in SUBSET Keys, CancelKeys(c, K) PROVE ProjectInv'
  <2>1. K \subseteq Own(c) BY <1>8 DEF CancelKeys, AllOwned, Own
  <2> QED BY <1>1, <1>8, <2>1, BeginWithin DEF CancelKeys
<1>9. ASSUME NEW K, UpdateTags(c, K) PROVE ProjectInv'
  BY <1>9, BeginWithin DEF UpdateTags, Changing
<1>10. ASSUME NEW what, BeginLoop(c, what) PROVE ProjectInv'
  <2>1. jobset' = jobset /\ answer' = answer /\ pc[c] = "idle" BY <1>10 DEF BeginLoop, Send
  <2>2. /\ \/ pc'[c] = "sent" /\ op'[c] = "load"
           \/ pc'[c] = pc[c] /\ op'[c] = op[c] /\ args'[c] = args[c]
        /\ \A x \in Clients \ {c} : /\ pc'[x] = pc[x] /\ op'[x] = op[x] /\ args'[x] = args[x]
                                     /\ loop'[x] = loop[x]
    BY <1>10 DEF BeginLoop, Send, TypeOK
  <2>3. Within(c) BY DEF ProjectInv
  <2>4. Within(c)' BY <2>1, <2>2, <2>3 DEF Within, Own, Checked, Changing
  <2> QED BY <2>1, <2>2, <2>4, OthersWithin
<1> QED BY <1>3, <1>4, <1>5, <1>6, <1>7, <1>8, <1>9, <1>10 DEF Calls, UpdateJobTags

LEMMA NoAnswerLines ==
  ASSUME TypeOK, NEW c \in Clients, NoAnswerComes(c)
  PROVE  /\ answer'[c].lines = answer[c].lines
         /\ \A x \in Clients \ {c} : pc'[x] = pc[x] /\ answer'[x] = answer[x]
<1>1. CASE Retries(c) BY <1>1 DEF NoAnswerComes
<1>2. CASE ~Retries(c)
  <2>1. PICK code \in {0, 500} : answer' = [answer EXCEPT ![c].code = code]
    BY <1>2 DEF NoAnswerComes
  <2>2. answer'[c] = [answer[c] EXCEPT !.code = code] BY <2>1 DEF TypeOK
  <2>3. answer[c] \in Answers BY DEF TypeOK
  <2>4. [answer[c] EXCEPT !.code = code].lines = answer[c].lines BY <2>3 DEF Answers
  <2> QED BY <1>2, <2>1, <2>2, <2>4 DEF NoAnswerComes, TypeOK
<1> QED BY <1>1, <1>2

LEMMA NoAnswerPc ==
  ASSUME TypeOK, NEW c \in Clients, NoAnswerComes(c), pc[c] = "sent"
  PROVE  pc'[c] # "idle"
BY DEF NoAnswerComes, TypeOK

LEMMA ServedWithin ==
  ASSUME TypeOK, ProjectInv, NEW c \in Clients, pc[c] = "sent", NEW done, Served(c, done),
         op[c] = "load" => \A x \in done : x[1] \in Own(c)
  PROVE  ProjectInv'
<1>1. UNCHANGED <<op, args, jobset, loop>> BY DEF Served, setVars
<1>2. Within(c) BY DEF ProjectInv
<1>3. CASE NoAnswerComes(c)
  <2>1. Within(c)' BY <1>1, <1>2, <1>3, NoAnswerLines, NoAnswerPc DEF Within, Own, Checked
  <2> QED BY <1>1, <1>3, <2>1, NoAnswerLines, OthersWithin
<1>4. CASE AnswerWith(c, [code |-> 200, error |-> "no", lines |-> done])
  <2>1. pc'[c] = "answered" /\ answer'[c].lines = done BY <1>4 DEF AnswerWith, TypeOK
  <2>2. Within(c)' BY <1>1, <1>2, <2>1 DEF Within, Own, Checked
  <2> QED BY <1>1, <1>4, <2>2, OthersWithin DEF AnswerWith, TypeOK
<1> QED BY <1>3, <1>4 DEF Served

LEMMA ServerWithin ==
  ASSUME TypeOK, ProjectInv, NEW c \in Clients, Server(c)
  PROVE  ProjectInv'
<1>1. ASSUME ServePush(c) \/ ServeStart(c) \/ ServeUpdate(c) \/ ServeCancel(c) \/ ServeTags(c)
      PROVE  ProjectInv'
  <2>1. pc[c] = "sent" /\ op[c] # "load"
    BY <1>1 DEF ServePush, ServeStart, ServeUpdate, ServeCancel, ServeTags, Sent
  <2>2. PICK done : Served(c, done)
    BY <1>1 DEF ServePush, ServeStart, ServeUpdate, ServeCancel, ServeTags
  <2> QED BY <2>1, <2>2, ServedWithin
<1>2. ASSUME ServeList(c) PROVE ProjectInv'
  <2> DEFINE done == {<<k, state[k], state[k]>> : k \in Live(Own(c))}
  <2>1. pc[c] = "sent" /\ Served(c, done) BY <1>2 DEF ServeList, Sent
  <2>2. \A x \in done : x[1] \in Own(c) BY DEF Live
  <2> HIDE DEF done
  <2> QED BY <2>1, <2>2, ServedWithin
<1>3. ASSUME RequestLost(c) PROVE ProjectInv'
  <2>1. UNCHANGED <<op, args, jobset, loop>> /\ NoAnswerComes(c) /\ pc[c] = "sent"
    BY <1>3 DEF RequestLost, setVars
  <2>2. Within(c) BY DEF ProjectInv
  <2>3. Within(c)' BY <2>1, <2>2, NoAnswerLines, NoAnswerPc DEF Within, Own, Checked
  <2> QED BY <2>1, <2>3, NoAnswerLines, OthersWithin
<1>4. ASSUME NEW code, NEW error, Refuse(c, code, error) PROVE ProjectInv'
  <2>1. /\ UNCHANGED <<op, args, jobset, loop>>
        /\ AnswerWith(c, [code |-> code, error |-> error, lines |-> {}])
    BY <1>4 DEF Refuse, setVars
  <2>2. pc'[c] = "answered" /\ answer'[c].lines = {} BY <2>1 DEF AnswerWith, TypeOK
  <2>3. Within(c) BY DEF ProjectInv
  <2>4. Within(c)' BY <2>1, <2>2, <2>3 DEF Within, Own, Checked
  <2> QED BY <2>1, <2>4, OthersWithin DEF AnswerWith, TypeOK
<1> QED BY <1>1, <1>2, <1>3, <1>4 DEF Server

LEMMA ClientWithin ==
  ASSUME TypeOK, ProjectInv, NEW c \in Clients, Client(c)
  PROVE  ProjectInv'
<1>1. Within(c) BY DEF ProjectInv
<1>2. ASSUME Finish(c), jobset' = jobset \/ (\E K \in SUBSET Own(c) : jobset' = [jobset EXCEPT ![c] = K]),
             loop' = loop \/ loop' = [loop EXCEPT ![c] = "no"]
      PROVE  ProjectInv'
  <2>1. pc'[c] = "idle" /\ op'[c] = "none" /\ answer'[c].lines = {}
    BY <1>2 DEF Finish, TypeOK, NoAnswer
  <2>2. jobset'[c] # None => jobset'[c] \subseteq Own(c) BY <1>1, <1>2 DEF Within, TypeOK
  <2>3. Within(c)' BY <2>1, <2>2 DEF Within, Own, Checked, Changing
  <2> QED BY <1>2, <2>3, OthersWithin DEF Finish, TypeOK
<1>3. ASSUME Return(c) \/ LoopReturn(c) PROVE ProjectInv'
  BY <1>2, <1>3 DEF Return, LoopReturn, setVars
<1>4. ASSUME LoadJobs(c) PROVE ProjectInv'
  <2> DEFINE K == {x[1] : x \in answer[c].lines}
  <2>1. Finish(c) /\ op[c] = "load" BY <1>4 DEF LoadJobs
  <2>2. K \in SUBSET Own(c) BY <1>1, <2>1 DEF Within
  <2>3. /\ jobset' = jobset \/ jobset' = [jobset EXCEPT ![c] = K]
        /\ loop' = loop \/ loop' = [loop EXCEPT ![c] = "no"]
    BY <1>4 DEF LoadJobs, AfterStatus
  <2> HIDE DEF K
  <2> QED BY <1>2, <2>1, <2>2, <2>3
<1>5. ASSUME LoopJob(c) PROVE ProjectInv'
  <2>1. jobset[c] \subseteq Own(c) /\ pc[c] = "idle" BY <1>1, <1>5 DEF LoopJob, Within
  <2>2. PICK k \in jobset[c] : \E m, to :
          /\ Send(c, m, [NoArgs EXCEPT !.keys = {k}, !.to = to])
          /\ jobset' = [jobset EXCEPT ![c] = @ \ {k}]
          /\ m \in Changing
    BY <1>5 DEF LoopJob, Consumed, Changing
  <2>3. PICK m, g :
          m \in Changing /\ Send(c, m, g) /\ g.keys = {k} /\ jobset' = [jobset EXCEPT ![c] = @ \ {k}]
    BY <2>2 DEF NoArgs
  <2>4. /\ pc'[c] = "sent" /\ op'[c] = m /\ args'[c].keys = {k} /\ answer' = answer
        /\ jobset'[c] = jobset[c] \ {k} /\ loop' = loop
    BY <1>5, <2>3 DEF LoopJob, Send, TypeOK
  <2>5. answer[c].lines = {} BY <1>1, <2>1 DEF Within
  <2>6. Within(c)' BY <2>1, <2>2, <2>3, <2>4, <2>5 DEF Within, Own, Checked
  <2> QED BY <2>3, <2>4, <2>6, OthersWithin DEF Send, TypeOK
<1>6. ASSUME LoopEnds(c) \/ LoopBreaks(c) PROVE ProjectInv'
  <2>1. UNCHANGED <<pc, op, args, answer>> BY <1>6 DEF LoopEnds, LoopBreaks, callVars
  <2>2. /\ jobset'[c] = jobset[c] \/ jobset'[c] = {}
        /\ \A x \in Clients \ {c} : jobset'[x] = jobset[x] /\ loop'[x] = loop[x]
        /\ loop'[c] = "no"
    BY <1>6 DEF LoopEnds, LoopBreaks, TypeOK
  <2>3. Within(c)' BY <1>1, <2>1, <2>2 DEF Within, Own, Checked
  <2> QED BY <2>1, <2>2, <2>3, OthersWithin
<1> QED BY <1>3, <1>4, <1>5, <1>6 DEF Client

LEMMA ProjectAlways == Spec => []ProjectInv
<1>1. Init => ProjectInv BY DEF Init, ProjectInv, Within, Checked, NoAnswer, Changing
<1>2. TypeOK /\ ProjectInv /\ [Next]_vars => ProjectInv'
  <2>1. ProjectInv /\ UNCHANGED vars => ProjectInv'
    BY DEF ProjectInv, Within, Own, Checked, vars, callVars, setVars
  <2> QED BY <2>1, CallsWithin, ServerWithin, ClientWithin DEF Next
<1> QED BY <1>1, <1>2, JobsTypeCorrect, PTL DEF Spec

\* What the server does for a client changes a job of another project only if the
\* client named it to JobQ.update: cancel and the loops over a JobSet name none.
THEOREM StaysInProjectHolds == Spec => StaysInProject
<1> DEFINE Step == \A c \in Clients : (pc[c] = "sent" /\ effects'[c] # effects[c]) =>
                     \A k \in Keys \ Own(c) :
                       state'[k] = state[k] \/ (op[c] = "update" /\ loop[c] = "no" /\ k \in args[c].keys)
<1>1. ASSUME TypeOK, ProjectInv, Next PROVE Step
  <2>1. SUFFICES ASSUME NEW c \in Clients, pc[c] = "sent", effects'[c] # effects[c],
                        NEW k \in Keys \ Own(c),
                        ~(op[c] = "update" /\ loop[c] = "no" /\ k \in args[c].keys)
                 PROVE  state'[k] = state[k]
    OBVIOUS
  <2>2. ASSUME NEW x \in Clients, Calls(x) PROVE state' = state
    BY <2>2 DEF Calls, Push, Run, StartNext, List, Count, Summary, IterLast, UpdateJobs,
                MoveJob, RequestCancel, CancelKeys, UpdateTags, UpdateJobTags, BeginLoop, Begin,
                Send, serverVars
  <2>3. ASSUME NEW x \in Clients, Client(x) PROVE state' = state
    BY <2>3 DEF Client, Return, LoadJobs, LoopJob, LoopReturn, LoopBreaks, LoopEnds, Finish,
                Send, serverVars
  <2>4. ASSUME NEW x \in Clients, Server(x) PROVE state'[k] = state[k]
    <3>1. x = c
      <4>1. (\E done : Served(x, done)) \/ effects' = effects
        BY <2>4 DEF Server, ServePush, ServeStart, ServeUpdate, ServeCancel, ServeTags,
                    ServeList, RequestLost, Refuse
      <4>2. \A y \in Clients \ {x} : effects'[y] = effects[y]
        BY <1>1, <4>1 DEF Served, TypeOK
      <4> QED BY <2>1, <4>2
    <3>2. op[c] \in Changing => k \notin args[c].keys BY <1>1, <2>1 DEF ProjectInv, Within, Checked, Changing
    <3>3. CASE ServePush(c) \/ ServeStart(c) BY <1>1, <3>3 DEF ServePush, ServeStart, TypeOK
    <3>4. CASE ServeUpdate(c) BY <3>2, <3>4 DEF ServeUpdate, Sent, Live, Changing
    <3>5. CASE ServeCancel(c) BY <3>2, <3>5 DEF ServeCancel, Sent, Active, Changing
    <3>6. CASE ServeTags(c) \/ ServeList(c) \/ RequestLost(c)
      BY <3>6 DEF ServeTags, ServeList, RequestLost, serverVars
    <3>7. ASSUME NEW code, NEW error, Refuse(c, code, error) PROVE state' = state
      BY <3>7 DEF Refuse, serverVars
    <3> QED BY <2>4, <3>1, <3>3, <3>4, <3>5, <3>6, <3>7 DEF Server
  <2> QED BY <1>1, <2>2, <2>3, <2>4 DEF Next
<1>2. ASSUME UNCHANGED vars PROVE Step BY <1>2 DEF vars, callVars
<1>3. TypeOK /\ ProjectInv /\ [Next]_vars => [Step]_vars BY <1>1, <1>2
<1> QED BY <1>3, JobsTypeCorrect, ProjectAlways, PTL DEF Spec, StaysInProject
=============================================================================
