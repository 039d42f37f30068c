--------------------------- MODULE MappingProofs ---------------------------
(***************************************************************************)
(* For any number of handles, proxies, keys, values and attempts: the      *)
(* variables of Mapping.tla keep their types, a save that returns has      *)
(* synchronised the handle's copy with the server, and no field of the     *)
(* platform is changed by who did not name it.                             *)
(***************************************************************************)
EXTENDS Mapping, TLAPS

LEMMA AppliedMapping ==
  ASSUME NEW m \in Mappings, NEW r \in Requests
  PROVE  Applied(m, r) \in Mappings
BY MappingAssumption DEF Applied, Mappings, Requests

LEMMA RequestTypes ==
  /\ Nothing \in Requests
  /\ \A k \in Keys, v \in Values \cup {Absent} : [Nothing EXCEPT ![k] = v] \in Requests
  /\ \A m \in Mappings : Posted(m) \in Requests
  /\ Given \subseteq Requests
BY DEF Nothing, Requests, Mappings, Posted, Given

LEMMA InitTypeOK == Init => TypeOK
<1> SUFFICES ASSUME Init PROVE TypeOK OBVIOUS
<1>1. 0 \in 0..(MaxRequests - 1) BY MappingAssumption
<1>2. Nothing \in Requests BY RequestTypes
<1>3. unseen \in [Handles -> SUBSET Keys] BY DEF Init, Having
<1>4. cached \in [Handles -> Mappings \cup {NoCache}]
  BY DEF Init
<1> QED BY <1>1, <1>2, <1>3, <1>4 DEF Init, TypeOK, Stands

\* What a change of a handle's copy does to the types.
LEMMA ChangeTypes ==
  ASSUME TypeOK, NEW h \in Handles, NEW m \in Requests, Change(h, m)
  PROVE  /\ cached' \in [Handles -> Mappings \cup {NoCache}]
         /\ deleted' \in [Handles -> SUBSET Keys]
         /\ unseen' \in [Handles -> SUBSET Keys]
<1>1. Data(h) \in Mappings BY DEF TypeOK, Data
<1>2. Applied(Data(h), m) \in Mappings BY <1>1, AppliedMapping
<1> QED BY <1>2 DEF TypeOK, Change

LEMMA SendTypes ==
  ASSUME TypeOK, NEW u \in Users, NEW r \in Requests, NEW at \in Stands, Send(u, r, at)
  PROVE  /\ pc' \in [Users -> Stands] /\ req' \in [Users -> Requests]
         /\ tries' \in [Users -> 0..(MaxRequests - 1)]
<1>1. 0 \in 0..(MaxRequests - 1) BY MappingAssumption
<1> QED BY <1>1 DEF TypeOK, Send

LEMMA LeaveTypes ==
  ASSUME TypeOK, NEW u \in Users, NEW at \in Stands, Leave(u, at)
  PROVE  /\ pc' \in [Users -> Stands] /\ req' \in [Users -> Requests]
         /\ tries' \in [Users -> 0..(MaxRequests - 1)]
         /\ rest' \in [Handles -> SUBSET Keys] /\ expires' \in [Handles -> BOOLEAN]
         /\ own' \in [Proxies -> SUBSET Keys]
<1>1. 0 \in 0..(MaxRequests - 1) BY MappingAssumption
<1>2. Nothing \in Requests BY RequestTypes
<1>3. expires' = [h \in Handles |-> h # u /\ expires[h]] BY DEF Leave
<1>4. expires' \in [Handles -> BOOLEAN] BY <1>3
<1> QED BY <1>1, <1>2, <1>4 DEF TypeOK, Leave

LEMMA ServeTypes ==
  ASSUME TypeOK, NEW u \in Users, MayServe(u)
  PROVE  remote' \in Mappings /\ unseen' \in [Handles -> SUBSET Keys]
<1>1. Applied(remote, req[u]) \in Mappings BY AppliedMapping DEF TypeOK
<1> QED BY <1>1 DEF TypeOK, MayServe, Serves, Becomes, Having

LEMMA NextTypeOK == TypeOK /\ [Next]_vars => TypeOK'
<1> SUFFICES ASSUME TypeOK, [Next]_vars PROVE TypeOK' OBVIOUS
<1> USE RequestTypes
<1>1. ASSUME NEW h \in Handles, NEW k \in Keys, NEW v \in Values, SetItem(h, k, v) PROVE TypeOK'
  <2> DEFINE m == [Nothing EXCEPT ![k] = v]
  <2>1. m \in Requests /\ Change(h, m)
    BY <1>1 DEF SetItem
  <2>2. UNCHANGED <<remote, rest, expires, requestVars, own>> BY <1>1 DEF SetItem
  <2> HIDE DEF m
  <2> QED BY <2>1, <2>2, ChangeTypes DEF TypeOK, requestVars
<1>2. ASSUME NEW h \in Handles, NEW k \in Keys, DelItem(h, k) PROVE TypeOK'
  <2> DEFINE m == [Nothing EXCEPT ![k] = Absent]
  <2>1. m \in Requests /\ Change(h, m)
    BY <1>2 DEF DelItem
  <2>2. UNCHANGED <<remote, rest, expires, requestVars, own>> BY <1>2 DEF DelItem
  <2> HIDE DEF m
  <2> QED BY <2>1, <2>2, ChangeTypes DEF TypeOK, requestVars
<1>3. ASSUME NEW h \in Handles, NEW m \in Given, UpdateMetadata(h, m) PROVE TypeOK'
  <2>1. m \in Requests /\ Change(h, m)
    BY <1>3 DEF UpdateMetadata
  <2>2. deleted' \in [Handles -> SUBSET Keys] BY <2>1, ChangeTypes
  <2>3. pc' \in [Users -> Stands] /\ rest' \in [Handles -> SUBSET Keys]
        /\ expires' \in [Handles -> BOOLEAN]
    BY <1>3, <2>2 DEF UpdateMetadata, Begin, TypeOK, Stands
  <2> QED BY <1>3, <2>1, <2>3, ChangeTypes DEF UpdateMetadata, Begin, TypeOK
<1>4. ASSUME NEW h \in Handles, Expire(h) PROVE TypeOK'
  BY <1>4 DEF Expire, TypeOK, requestVars
<1>5. ASSUME NEW h \in Handles, Save(h) PROVE TypeOK'
  BY <1>5 DEF Save, Begin, TypeOK, Stands
<1>6. ASSUME NEW h \in Handles, NEW k \in Keys, DeleteNext(h, k) PROVE TypeOK'
  <2>1. [Nothing EXCEPT ![k] = Absent] \in Requests /\ h \in Users /\ "deleting" \in Stands
    BY DEF Users, Stands
  <2> QED BY <1>6, <2>1, SendTypes DEF DeleteNext, TypeOK
<1>7. ASSUME NEW h \in Handles, PostRest(h) PROVE TypeOK'
  <2>1. h \in Users /\ "posting" \in Stands /\ "idle" \in Stands BY DEF Users, Stands
  <2>2. CASE cached[h] # NoCache /\ Having(cached[h]) # {}
    <3>1. Posted(cached[h]) \in Requests BY <2>2 DEF TypeOK
    <3> QED BY <1>7, <2>1, <2>2, <3>1, SendTypes DEF PostRest, TypeOK
  <2>3. CASE ~(cached[h] # NoCache /\ Having(cached[h]) # {})
    <3>1. Return(h) BY <1>7, <2>3 DEF PostRest
    <3>2. cached' \in [Handles -> Mappings \cup {NoCache}] BY <3>1 DEF Return, TypeOK
    <3> QED BY <1>7, <2>1, <3>1, <3>2, LeaveTypes DEF PostRest, Return, TypeOK
  <2> QED BY <2>2, <2>3
<1>8. ASSUME NEW p \in Proxies, NEW k \in Keys, NEW v \in Values \cup {Absent},
             SetOrDelete(p, k, v)
      PROVE  TypeOK'
  <2>1. [Nothing EXCEPT ![k] = v] \in Requests /\ p \in Users /\ "calling" \in Stands
    BY DEF Users, Stands
  <2>2. own' \in [Proxies -> SUBSET Keys] BY <1>8 DEF SetOrDelete, TypeOK
  <2> QED BY <1>8, <2>1, <2>2, SendTypes DEF SetOrDelete, TypeOK, localVars
<1>9. ASSUME NEW p \in Proxies, NEW m \in Given, Update(p, m) PROVE TypeOK'
  <2>1. Applied(remote, m) \in Mappings BY AppliedMapping DEF TypeOK
  <2>2. Posted(Applied(remote, m)) \in Requests /\ p \in Users /\ "calling" \in Stands
    BY <2>1 DEF Users, Stands
  <2> QED BY <1>9, <2>2, SendTypes DEF Update, TypeOK, localVars
<1>10. ASSUME NEW u \in Users, Answer(u) PROVE TypeOK'
  <2>1. remote' \in Mappings /\ unseen' \in [Handles -> SUBSET Keys]
    BY <1>10, ServeTypes DEF Answer, MayServe
  <2>2. CASE pc[u] = "deleting"
    BY <1>10, <2>1, <2>2, SendTypes DEF Answer, TypeOK, Stands
  <2>3. CASE pc[u] # "deleting"
    <3>1. Return(u) BY <1>10, <2>3 DEF Answer
    <3>2. cached' \in [Handles -> Mappings \cup {NoCache}] BY <3>1 DEF Return, TypeOK
    <3>3. "idle" \in Stands BY DEF Stands
    <3> QED BY <1>10, <2>1, <3>1, <3>2, <3>3, LeaveTypes DEF Answer, Return, TypeOK
  <2> QED BY <2>2, <2>3
<1>11. ASSUME NEW u \in Users, Again(u) PROVE TypeOK'
  <2>1. tries[u] + 1 \in 0..(MaxRequests - 1)
    BY <1>11, MappingAssumption DEF Again, AttemptsLeft, TypeOK
  <2>2. tries' \in [Users -> 0..(MaxRequests - 1)] BY <1>11, <2>1 DEF Again, TypeOK
  <2> QED BY <1>11, <2>2, ServeTypes DEF Again, TypeOK, localVars
<1>12. ASSUME NEW u \in Users, Raise(u) PROVE TypeOK'
  <2>1. deleted' \in [Handles -> SUBSET Keys] BY <1>12 DEF Raise, StillDeleted, TypeOK
  <2>2. "raised" \in Stands BY DEF Stands
  <2> QED BY <1>12, <2>1, <2>2, ServeTypes, LeaveTypes DEF Raise, TypeOK
<1>13. ASSUME NEW k \in Ignored, NEW v \in Values, Platform(k, v) PROVE TypeOK'
  <2>1. remote' \in Mappings BY <1>13, MappingAssumption DEF Platform, Becomes, TypeOK, Mappings
  <2>2. unseen' \in [Handles -> SUBSET Keys] BY <1>13 DEF Platform, Becomes, Having, TypeOK
  <2> QED BY <1>13, <2>1, <2>2 DEF Platform, TypeOK, localVars, requestVars
<1>14. CASE UNCHANGED vars BY <1>14 DEF vars, localVars, requestVars, TypeOK
<1>15. ASSUME NEW h \in Handles, HandleStep(h) PROVE TypeOK'
  <2>1. \A k \in Keys, v \in Values : SetItem(h, k, v) => TypeOK' BY <1>1
  <2>2. Look(h) => TypeOK'
    BY <1>14, ChangeTypes, MappingAssumption DEF Look, Nothing, TypeOK, requestVars
  <2> QED BY <1>15, <2>1, <2>2, <1>2, <1>3, <1>4, <1>5, <1>6, <1>7 DEF HandleStep
<1>16. ASSUME NEW p \in Proxies, ProxyStep(p) PROVE TypeOK'
  BY <1>16, <1>8, <1>9 DEF ProxyStep
<1> QED BY <1>10, <1>11, <1>12, <1>13, <1>14, <1>15, <1>16 DEF Next

\* The variables keep their types.
THEOREM TypeCorrect == Spec => []TypeOK
  BY InitTypeOK, NextTypeOK, PTL DEF Spec

----------------------------------------------------------------------------
LEMMA InitSync == Init => SyncInv
<1> SUFFICES ASSUME Init PROVE SyncInv OBVIOUS
<1>1. TypeOK BY InitTypeOK
<1>2. RequestsOfSave BY DEF Init, RequestsOfSave, RequestOfSave, Users
<1>3. RequestsKeep BY MappingAssumption DEF Init, RequestsKeep, Nothing
<1>4. DeletionsKept
  <2> SUFFICES ASSUME NEW h \in Handles, cached[h] # NoCache, NEW k \in OnlyThere(h)
               PROVE  k \in unseen[h]
    BY DEF DeletionsKept
  <2>1. k \in Keys BY MappingAssumption DEF OnlyThere, Fields
  <2> QED BY <2>1 DEF Init, OnlyThere, Having
<1> QED BY <1>1, <1>2, <1>3, <1>4 DEF SyncInv

LEMMA PostedKeeps ==
  \A m \in Mappings : \A k \in Ignored : Posted(m)[k] = Keep
BY MappingAssumption DEF Posted

\* What a step of another handle, or of another user's request, leaves alone.
LEMMA OtherHandleStep ==
  ASSUME TypeOK, NEW h \in Handles, NEW g \in Handles \ {h}, HandleStep(g)
  PROVE  /\ UNCHANGED <<cached[h], deleted[h], rest[h], pc[h], req[h]>>
         /\ remote' = remote /\ unseen'[h] = unseen[h]
<1>0. h \in Users BY DEF Users
<1> DEFINE Local == UNCHANGED <<deleted[h], cached[h], unseen[h]>>
           Sent  == UNCHANGED <<pc[h], req[h], rest[h], remote>>
<1>1. \A m : Change(g, m) => Local BY DEF Change, TypeOK
<1>2. requestVars' = requestVars /\ rest' = rest /\ remote' = remote => Sent BY DEF requestVars
<1>3. \A k, t : Begin(g, k, t) => Sent BY <1>0 DEF Begin, TypeOK
<1>4. \A r, at : Send(g, r, at) => UNCHANGED <<pc[h], req[h]>> BY <1>0 DEF Send, TypeOK
<1>5. \A k \in Keys, v \in Values : SetItem(g, k, v) => Local /\ Sent
  BY <1>1, <1>2 DEF SetItem
<1>6. \A k \in Keys : DelItem(g, k) => Local /\ Sent BY <1>1, <1>2 DEF DelItem
<1>7. \A m \in Given : UpdateMetadata(g, m) => Local /\ Sent
  BY <1>1, <1>3 DEF UpdateMetadata
<1>8. Expire(g) => Local /\ Sent BY <1>2 DEF Expire, TypeOK
<1>9. Save(g) => Local /\ Sent BY <1>3 DEF Save
<1>10. \A k \in Keys : DeleteNext(g, k) => Local /\ Sent
  BY <1>4 DEF DeleteNext, TypeOK
<1>11. Return(g) => UNCHANGED <<pc[h], req[h], rest[h], cached[h]>>
  BY <1>0 DEF Return, Leave, TypeOK
<1>12. PostRest(g) => Local /\ Sent BY <1>4, <1>11 DEF PostRest, TypeOK
<1>13. Look(g) => Local /\ Sent BY <1>1, <1>2 DEF Look
<1> QED BY <1>5, <1>6, <1>7, <1>8, <1>9, <1>10, <1>12, <1>13 DEF HandleStep

LEMMA OtherRequestStep ==
  ASSUME TypeOK, NEW h \in Handles, NEW u \in Users \ {h}, Answer(u) \/ Again(u) \/ Raise(u)
  PROVE  UNCHANGED <<cached[h], deleted[h], rest[h], pc[h], req[h]>>
<1>0. h \in Users BY DEF Users
<1>1. CASE Answer(u) BY <1>0, <1>1 DEF Answer, Send, Return, Leave, TypeOK
<1>2. CASE Again(u) BY <1>2 DEF Again, localVars
<1>3. CASE Raise(u)
  <2>1. deleted'[h] = deleted[h] BY <1>3 DEF Raise, TypeOK
  <2> QED BY <1>0, <1>3, <2>1 DEF Raise, Leave, TypeOK
<1> QED BY <1>1, <1>2, <1>3

\* A request changes a platform's field only as its user named it.
LEMMA NextKeep == SyncInv /\ [Next]_vars => RequestsKeep'
<1> SUFFICES ASSUME TypeOK, RequestsOfSave, RequestsKeep, [Next]_vars,
                    NEW u \in Users, NEW k \in Ignored, req'[u][k] # Keep
             PROVE  MayChange(u, k)'
  BY DEF SyncInv, RequestsKeep
<1>0. k \in Keys BY MappingAssumption
<1>1. req[u][k] # Keep => MayChange(u, k) BY DEF RequestsKeep
<1>2. ASSUME req[u] = req'[u], pc[u] = pc'[u], own = own',
             u \in Handles /\ pc[u] = "deleting" => deleted[u] = deleted'[u]
      PROVE  MayChange(u, k)'
  BY <1>1, <1>2 DEF MayChange
<1>3. Nothing[k] = Keep BY <1>0 DEF Nothing
<1>4. \A at : ~Leave(u, at) BY <1>3 DEF Leave, TypeOK
<1>5. ASSUME NEW h \in Handles, HandleStep(h), u = h PROVE MayChange(u, k)'
  <2>1. ASSUME NEW i \in Keys, DeleteNext(h, i) PROVE MayChange(u, k)'
    <3>1. req'[u] = [Nothing EXCEPT ![i] = Absent] /\ pc'[u] = "deleting"
      BY <1>5, <2>1 DEF DeleteNext, Send, TypeOK
    <3>2. i = k BY <1>0, <1>3, <3>1 DEF Nothing
    <3>3. k \in deleted'[u]
      BY <1>5, <2>1, <3>2 DEF DeleteNext, RequestsOfSave, RequestOfSave
    <3> QED BY <1>5, <3>1, <3>3 DEF MayChange
  <2>2. ~PostRest(h)
    <3>1. CASE cached[h] # NoCache /\ Having(cached[h]) # {}
      <4>1. Posted(cached[h])[k] = Keep BY <3>1, PostedKeeps DEF TypeOK
      <4> QED BY <1>5, <3>1, <4>1 DEF PostRest, Send, TypeOK
    <3>2. CASE ~(cached[h] # NoCache /\ Having(cached[h]) # {})
      BY <1>4, <1>5, <3>2 DEF PostRest, Return
    <3> QED BY <3>1, <3>2
  <2>3. ASSUME Ready(h), requestVars' = requestVars, own' = own PROVE MayChange(u, k)'
    BY <1>2, <1>5, <2>3 DEF Ready, requestVars
  <2>4. ASSUME Ready(h), req' = req PROVE MayChange(u, k)'
    BY <1>1, <1>5, <2>4, MappingAssumption DEF Ready, MayChange
  <2> QED BY <1>5, <2>1, <2>2, <2>3, <2>4
          DEF HandleStep, Look, SetItem, DelItem, Expire, Save, UpdateMetadata, Change, Begin
<1>6. ASSUME NEW h \in Handles, HandleStep(h), u # h PROVE MayChange(u, k)'
  <2>1. u \in Handles => UNCHANGED <<pc[u], req[u], deleted[u]>>
    BY <1>6, OtherHandleStep
  <2>2. CASE u \in Proxies
    <3>1. req'[u] = req[u] /\ own'[u] = own[u]
      <4>1. \A r, at : Send(h, r, at) => req'[u] = req[u] BY <1>6 DEF Send, TypeOK
      <4>2. Return(h) => req'[u] = req[u] /\ own'[u] = own[u]
        BY <1>6, <2>2 DEF Return, Leave, TypeOK
      <4>3. \A i \in Keys : DeleteNext(h, i) => req'[u] = req[u] /\ own'[u] = own[u]
        BY <4>1 DEF DeleteNext
      <4>4. PostRest(h) => req'[u] = req[u] /\ own'[u] = own[u]
        BY <4>1, <4>2 DEF PostRest
      <4> QED BY <1>6, <4>3, <4>4 DEF HandleStep, Look, SetItem, DelItem, Expire, Save,
                 UpdateMetadata, Begin, requestVars
    <3>2. u \notin Handles BY <2>2, MappingAssumption
    <3> QED BY <1>1, <2>2, <3>1, <3>2 DEF MayChange
  <2>3. CASE u \in Handles
    BY <1>1, <2>1, <2>3, MappingAssumption DEF MayChange
  <2> QED BY <2>2, <2>3 DEF Users
<1>7. ASSUME NEW p \in Proxies, ProxyStep(p) PROVE MayChange(u, k)'
  <2>0. p \in Users /\ p \notin Handles BY MappingAssumption DEF Users
  <2>1. CASE u = p
    <3>1. ASSUME NEW i \in Keys, NEW v \in Values \cup {Absent}, SetOrDelete(p, i, v)
          PROVE  MayChange(u, k)'
      <4>1. req'[u] = [Nothing EXCEPT ![i] = v] /\ own'[p] = {i}
        BY <2>0, <2>1, <3>1 DEF SetOrDelete, Send, TypeOK
      <4>2. i = k BY <1>0, <1>3, <4>1 DEF Nothing
      <4> QED BY <2>1, <4>1, <4>2 DEF MayChange
    <3>2. ASSUME NEW m \in Given, Update(p, m) PROVE MayChange(u, k)'
      <4>1. Applied(remote, m) \in Mappings BY AppliedMapping, RequestTypes DEF TypeOK
      <4>2. req'[u] = Posted(Applied(remote, m)) BY <2>0, <2>1, <3>2 DEF Update, Send, TypeOK
      <4> QED BY <4>1, <4>2, PostedKeeps
    <3> QED BY <1>7, <3>1, <3>2 DEF ProxyStep
  <2>2. CASE u # p
    <3>1. req[u] = req'[u] /\ pc[u] = pc'[u] /\ deleted' = deleted
      BY <1>7, <2>0, <2>2 DEF ProxyStep, SetOrDelete, Update, Send, TypeOK, localVars
    <3>2. u \in Proxies => own'[u] = own[u]
      BY <1>7, <2>2 DEF ProxyStep, SetOrDelete, Update, TypeOK
    <3> QED BY <1>1, <3>1, <3>2 DEF MayChange
  <2> QED BY <2>1, <2>2
<1>8. ASSUME NEW w \in Users, Answer(w) \/ Again(w) \/ Raise(w) PROVE MayChange(u, k)'
  <2>1. CASE Again(w) BY <1>2, <2>1, <1>8 DEF Again, localVars
  <2>2. CASE Answer(w) \/ Raise(w)
    <3>1. u # w BY <1>3, <1>4, <2>2 DEF Answer, Return, Raise, Send, TypeOK
    <3>2. req[u] = req'[u] /\ pc[u] = pc'[u]
      BY <2>2, <3>1 DEF Answer, Return, Leave, Raise, Send, TypeOK
    <3>3. u \in Proxies => own'[u] = own[u]
      BY <2>2, <3>1 DEF Answer, Return, Leave, Raise, TypeOK
    <3>4. u \in Handles => deleted'[u] = deleted[u]
      BY <2>2, <3>1 DEF Answer, Raise, TypeOK
    <3> QED BY <1>1, <3>2, <3>3, <3>4 DEF MayChange
  <2> QED BY <1>8, <2>1, <2>2
<1>9. ASSUME NEW i \in Ignored, NEW v \in Values, Platform(i, v) PROVE MayChange(u, k)'
  BY <1>9, <1>2 DEF Platform, requestVars, localVars
<1>10. CASE UNCHANGED vars BY <1>10, <1>2 DEF vars, requestVars, localVars
<1> QED BY <1>5, <1>6, <1>7, <1>8, <1>9, <1>10 DEF Next

\* A handle sends the requests of its save.
LEMMA NextRequests == SyncInv /\ [Next]_vars => RequestsOfSave'
<1> SUFFICES ASSUME TypeOK, RequestsOfSave, [Next]_vars, NEW h \in Handles
             PROVE  RequestOfSave(h)'
  BY DEF SyncInv, RequestsOfSave
<1> USE DEF RequestsOfSave, RequestOfSave
<1>0. h \in Users BY DEF Users
<1>1. ASSUME UNCHANGED <<pc[h], req[h], rest[h], deleted[h], cached[h]>>
      PROVE  RequestOfSave(h)'
  BY <1>1
<1>2. ASSUME HandleStep(h) PROVE RequestOfSave(h)'
  <2>1. ASSUME NEW m \in Requests, Change(h, m), pc'[h] = pc[h] PROVE RequestOfSave(h)'
    BY <2>1 DEF Change, Ready
  <2>2. CASE Look(h) \/ \E k \in Keys, v \in Values : SetItem(h, k, v)
    BY <2>2, <1>0 DEF Look, SetItem, Change, Ready, requestVars
  <2>3. CASE \E k \in Keys : DelItem(h, k)
    BY <2>3, <1>0 DEF DelItem, Change, Ready, requestVars
  <2>4. CASE \E m \in Given : UpdateMetadata(h, m)
    BY <2>4, <1>0 DEF UpdateMetadata, Begin, Change, TypeOK
  <2>5. CASE Expire(h) BY <2>5 DEF Expire, Ready, requestVars
  <2>6. CASE Save(h) BY <2>6, <1>0 DEF Save, Begin, TypeOK
  <2>7. ASSUME NEW k \in Keys, DeleteNext(h, k) PROVE RequestOfSave(h)'
    BY <2>7, <1>0 DEF DeleteNext, Send, TypeOK
  <2>8. CASE PostRest(h)
    BY <2>8, <1>0 DEF PostRest, Send, Return, Leave, TypeOK
  <2> QED BY <1>2, <2>2, <2>3, <2>4, <2>5, <2>6, <2>7, <2>8 DEF HandleStep
<1>3. CASE Answer(h) BY <1>3, <1>0 DEF Answer, Send, Return, Leave, TypeOK, Sending
<1>4. CASE Again(h) BY <1>4 DEF Again, localVars
<1>5. CASE Raise(h) BY <1>5, <1>0 DEF Raise, Leave, TypeOK
<1>6. ASSUME NEW g \in Handles \ {h}, HandleStep(g) PROVE RequestOfSave(h)'
  BY <1>1, <1>6, OtherHandleStep
<1>7. ASSUME NEW p \in Proxies, ProxyStep(p) PROVE RequestOfSave(h)'
  <2>1. UNCHANGED <<pc[h], req[h], rest[h], deleted[h], cached[h]>>
    BY <1>7, <1>0, MappingAssumption DEF ProxyStep, SetOrDelete, Update, Send, localVars, TypeOK
  <2> QED BY <2>1, <1>1
<1>8. ASSUME NEW u \in Users \ {h}, Answer(u) \/ Again(u) \/ Raise(u) PROVE RequestOfSave(h)'
  BY <1>1, <1>8, OtherRequestStep
<1>9. ASSUME NEW k \in Ignored, NEW v \in Values, Platform(k, v) PROVE RequestOfSave(h)'
  BY <1>9, <1>1 DEF Platform, localVars, requestVars
<1>10. CASE UNCHANGED vars BY <1>10, <1>1 DEF vars, localVars, requestVars
<1> QED BY <1>2, <1>3, <1>4, <1>5, <1>6, <1>7, <1>8, <1>9, <1>10 DEF Next, Users

\* A request of a handle's save stores nothing that its copy has not got.
LEMMA ServedByHandle ==
  ASSUME TypeOK, NEW h \in Handles, RequestOfSave(h), Sending(h), MayServe(h),
         cached[h] # NoCache, NEW k \in Fields, cached[h][k] = Absent, remote'[k] # Absent
  PROVE  /\ remote[k] # Absent /\ unseen'[h] = unseen[h]
         /\ pc[h] = "deleting" /\ Serves(h) => req[h][k] # Absent
<1>1. k \in Keys BY DEF Fields
<1>2. unseen'[h] = unseen[h] BY DEF MayServe, Serves, Becomes, TypeOK
<1>3. remote'[k] = remote[k] \/ (Serves(h) /\ remote'[k] = IF req[h][k] = Keep THEN remote[k] ELSE req[h][k])
  BY <1>1 DEF MayServe, Serves, Becomes, Applied
<1>4. CASE pc[h] = "posting"
  <2>1. req[h][k] = Keep BY <1>1, <1>4 DEF RequestOfSave, Posted
  <2> QED BY <1>2, <1>3, <1>4, <2>1
<1>5. CASE pc[h] = "deleting"
  <2>1. req[h][k] \in {Keep, Absent}
    BY <1>1, <1>5, MappingAssumption DEF RequestOfSave, Nothing
  <2>2. Serves(h) => req[h][k] # Absent
    BY <1>1, <2>1, MappingAssumption DEF Serves, Becomes, Applied
  <2> QED BY <1>2, <1>3, <1>5, <2>1, <2>2
<1> QED BY <1>4, <1>5 DEF Sending, RequestOfSave

\* What only the server still has was added by others or will be deleted.
LEMMA NextDeletions == SyncInv /\ [Next]_vars => DeletionsKept'
<1> SUFFICES ASSUME TypeOK, RequestsOfSave, DeletionsKept, [Next]_vars,
                    NEW h \in Handles, cached'[h] # NoCache,
                    NEW k \in Fields, cached'[h][k] = Absent, remote'[k] # Absent
             PROVE  k \in unseen'[h] \cup Unsent(h)'
  BY DEF SyncInv, DeletionsKept, OnlyThere
<1>0. h \in Users /\ k \in Keys /\ RequestOfSave(h) BY DEF Users, Fields, RequestsOfSave
<1>1. ASSUME cached[h] # NoCache, cached[h][k] = Absent, remote[k] # Absent
      PROVE  k \in unseen[h] \cup Unsent(h)
  BY <1>1 DEF DeletionsKept, OnlyThere
<1> DEFINE Local == UNCHANGED <<cached[h], deleted[h], rest[h], pc[h], req[h]>>
<1>2. ASSUME Local, remote' = remote, unseen' = unseen PROVE k \in unseen'[h] \cup Unsent(h)'
  BY <1>1, <1>2 DEF Unsent, Ready
<1>3. ASSUME Local, NEW m, NEW S, Becomes(m, S), h \notin S PROVE k \in unseen'[h] \cup Unsent(h)'
  <2>1. Unsent(h)' = Unsent(h) BY <1>3 DEF Unsent, Ready
  <2>2. unseen'[h] = unseen[h] \cup {i \in Having(m) : m[i] # remote[i]} BY <1>3 DEF Becomes
  <2>3. remote[k] = Absent => k \in unseen'[h] BY <1>0, <1>3, <2>2 DEF Becomes, Having
  <2> QED BY <1>1, <1>3, <2>1, <2>2, <2>3
<1>4. ASSUME NEW m, Change(h, m), remote' = remote, Unsent(h)' = deleted'[h]
      PROVE  k \in unseen'[h] \cup Unsent(h)'
  <2>1. cached'[h][k] = IF m[k] = Keep THEN Data(h)[k] ELSE m[k]
    BY <1>0, <1>4 DEF Change, Applied, TypeOK
  <2>2. deleted'[h] = {i \in Keys : m[i] = Absent \/ (m[i] = Keep /\ i \in deleted[h])}
    BY <1>4 DEF Change, TypeOK
  <2>3. CASE m[k] # Keep BY <1>0, <1>4, <2>1, <2>2, <2>3
  <2>4. CASE m[k] = Keep
    <3>1. Data(h)[k] = Absent BY <2>1, <2>4
    <3>2. cached[h] # NoCache BY <1>4, <3>1 DEF Data
    <3>3. unseen'[h] = unseen[h] /\ Unsent(h) = deleted[h]
      BY <1>4, <3>2 DEF Change, TypeOK, Unsent
    <3> QED BY <1>0, <1>1, <1>4, <2>2, <2>4, <3>1, <3>2, <3>3 DEF Data
  <2> QED BY <2>3, <2>4
<1>5. ASSUME HandleStep(h) PROVE k \in unseen'[h] \cup Unsent(h)'
  <2>1. ASSUME NEW m, Change(h, m), UNCHANGED <<remote, rest, expires, requestVars, own>>
        PROVE  k \in unseen'[h] \cup Unsent(h)'
    BY <1>4, <2>1 DEF Change, Unsent, Ready, requestVars
  <2>2. \A i \in Keys, v \in Values : SetItem(h, i, v) => k \in unseen'[h] \cup Unsent(h)'
    BY <2>1 DEF SetItem
  <2>3. Look(h) \/ (\E i \in Keys : DelItem(h, i)) => k \in unseen'[h] \cup Unsent(h)'
    BY <2>1 DEF Look, DelItem
  <2>4. ASSUME NEW m \in Given, UpdateMetadata(h, m) PROVE k \in unseen'[h] \cup Unsent(h)'
    <3>1. Unsent(h)' = deleted'[h] BY <1>0, <2>4 DEF UpdateMetadata, Begin, Unsent, Ready, TypeOK
    <3> QED BY <1>4, <2>4, <3>1 DEF UpdateMetadata, Begin
  <2>5. CASE Expire(h) BY <2>5 DEF Expire, TypeOK
  <2>6. CASE Save(h)
    <3>1. Unsent(h)' = Unsent(h) BY <1>0, <2>6 DEF Save, Begin, Unsent, Ready, TypeOK
    <3> QED BY <1>1, <2>6, <3>1 DEF Save, Begin
  <2>7. ASSUME NEW i \in Keys, DeleteNext(h, i) PROVE k \in unseen'[h] \cup Unsent(h)'
    <3>1. /\ rest'[h] = rest[h] \ {i} /\ pc'[h] = "deleting" /\ pc[h] = "save"
          /\ req'[h] = [Nothing EXCEPT ![i] = Absent]
      BY <1>0, <2>7 DEF DeleteNext, Send, TypeOK
    <3>2. req'[h][i] = Absent BY <3>1 DEF Nothing
    <3>3. k \in Unsent(h) => k \in Unsent(h)' BY <3>1, <3>2 DEF Unsent, Ready
    <3> QED BY <1>1, <2>7, <3>3 DEF DeleteNext
  <2>8. CASE PostRest(h)
    <3>1. Unsent(h) = {} BY <2>8 DEF PostRest, Unsent, Ready
    <3>2. cached[h] = cached'[h] BY <2>8 DEF PostRest, Return, TypeOK
    <3> QED BY <1>1, <2>8, <3>1, <3>2 DEF PostRest
  <2> QED BY <1>5, <2>2, <2>3, <2>4, <2>5, <2>6, <2>7, <2>8 DEF HandleStep
<1>6. ASSUME Answer(h) \/ Again(h) \/ Raise(h) PROVE k \in unseen'[h] \cup Unsent(h)'
  <2>1. Sending(h) /\ MayServe(h) BY <1>6 DEF Answer, Again, Raise, MayServe
  <2>2. cached[h] = cached'[h] BY <1>6 DEF Answer, Again, Raise, Return, TypeOK, localVars
  <2>3. /\ remote[k] # Absent /\ unseen'[h] = unseen[h]
        /\ pc[h] = "deleting" /\ Serves(h) => req[h][k] # Absent
    BY <1>0, <2>1, <2>2, ServedByHandle
  <2>4. k \in unseen[h] \cup Unsent(h) BY <1>1, <2>2, <2>3
  <2>5. CASE pc[h] = "posting"
    <3>1. Unsent(h) = {} BY <2>5 DEF Unsent, Ready
    <3> QED BY <2>3, <2>4, <3>1
  <2>6. CASE pc[h] = "deleting"
    <3>1. Unsent(h) = rest[h] \cup {i \in Fields : req[h][i] = Absent}
      BY <2>6 DEF Unsent, Ready
    <3>2. CASE Answer(h)
      <4>1. pc'[h] = "save" /\ rest' = rest BY <1>0, <2>6, <3>2 DEF Answer, Send, TypeOK
      <4>2. Unsent(h)' = rest[h] BY <4>1 DEF Unsent, Ready
      <4>3. req[h][k] # Absent BY <2>3, <2>6, <3>2 DEF Answer
      <4> QED BY <2>3, <2>4, <3>1, <4>2, <4>3
    <3>3. CASE Again(h)
      <4>1. Unsent(h)' = Unsent(h) BY <3>3 DEF Again, localVars, Unsent, Ready
      <4> QED BY <2>3, <2>4, <4>1
    <3>4. CASE Raise(h)
      <4>1. pc'[h] = "raised" /\ deleted'[h] = deleted[h]
        BY <1>0, <3>4 DEF Raise, Leave, StillDeleted, TypeOK
      <4>2. Unsent(h)' = deleted[h] BY <4>1 DEF Unsent, Ready
      <4>3. Unsent(h) \subseteq deleted[h]
        <5>1. PICK i \in deleted[h] : req[h] = [Nothing EXCEPT ![i] = Absent]
          BY <1>0, <2>6 DEF RequestOfSave
        <5>2. \A j \in Fields : req[h][j] = Absent => j = i
          BY <5>1, MappingAssumption DEF Nothing, Fields
        <5>3. rest[h] \subseteq deleted[h] BY <1>0, <2>6 DEF RequestOfSave
        <5> QED BY <3>1, <5>1, <5>2, <5>3
      <4> QED BY <2>3, <2>4, <4>2, <4>3
    <3> QED BY <1>6, <3>2, <3>3, <3>4
  <2> QED BY <1>0, <2>1, <2>5, <2>6 DEF Sending, RequestOfSave
<1>7. ASSUME NEW g \in Handles \ {h}, HandleStep(g) PROVE k \in unseen'[h] \cup Unsent(h)'
  <2>1. Local /\ remote' = remote /\ unseen'[h] = unseen[h]
    BY <1>0, <1>7, OtherHandleStep
  <2> QED BY <1>1, <2>1 DEF Unsent, Ready
<1>8. ASSUME NEW p \in Proxies, ProxyStep(p) PROVE k \in unseen'[h] \cup Unsent(h)'
  <2>1. Local /\ remote' = remote /\ unseen' = unseen
    BY <1>8, <1>0, MappingAssumption DEF ProxyStep, SetOrDelete, Update, Send, localVars, TypeOK
  <2> QED BY <2>1, <1>2
<1>9. ASSUME NEW u \in Users \ {h}, Answer(u) \/ Again(u) \/ Raise(u)
      PROVE  k \in unseen'[h] \cup Unsent(h)'
  <2>1. Local BY <1>9, OtherRequestStep
  <2>2. Serves(u) \/ UNCHANGED <<remote, unseen>> BY <1>9 DEF Answer, Again, Raise, MayServe
  <2> QED BY <1>2, <1>3, <2>1, <2>2 DEF Serves
<1>10. ASSUME NEW i \in Ignored, NEW v \in Values, Platform(i, v)
       PROVE  k \in unseen'[h] \cup Unsent(h)'
  BY <1>10, <1>3 DEF Platform, localVars, requestVars
<1>11. CASE UNCHANGED vars BY <1>11, <1>2 DEF vars, localVars, requestVars
<1> QED BY <1>5, <1>6, <1>7, <1>8, <1>9, <1>10, <1>11 DEF Next, Users

LEMMA NextSync == SyncInv /\ [Next]_vars => SyncInv'
  BY NextTypeOK, NextRequests, NextKeep, NextDeletions DEF SyncInv

\* The copies, the deletions not yet saved and the requests under way account for all
\* that the server has.
THEOREM Sync == Spec => []SyncInv
  BY InitSync, NextSync, PTL DEF Spec

\* The two steps by which a save returns.
LEMMA ReturnSteps ==
  ASSUME SyncInv, Next, NEW h \in Handles, SaveReturns(h)
  PROVE  PostRest(h) \/ (Answer(h) /\ pc[h] = "posting")
<1>0. TypeOK /\ h \in Users BY DEF SyncInv, Users
<1>1. ASSUME pc'[h] = pc[h] PROVE FALSE BY <1>1 DEF SaveReturns
<1>2. ASSUME HandleStep(h) PROVE PostRest(h)
  BY <1>0, <1>2 DEF HandleStep, Look, SetItem, DelItem, UpdateMetadata, Change, Ready, Begin, Expire,
                    Save, DeleteNext, Send, SaveReturns, TypeOK
<1>3. ~Again(h) BY <1>1 DEF Again
<1>4. ~Raise(h) BY <1>0 DEF Raise, Leave, SaveReturns, TypeOK
<1>5. Answer(h) => pc[h] = "posting" BY DEF Answer, Sending, SaveReturns
<1>6. \A g \in Handles \ {h} : ~HandleStep(g) BY <1>0, <1>1, OtherHandleStep
<1>7. \A p \in Proxies : ~ProxyStep(p)
  BY <1>0, <1>1, MappingAssumption DEF ProxyStep, SetOrDelete, Update, Send, TypeOK
<1>8. \A u \in Users \ {h} : ~(Answer(u) \/ Again(u) \/ Raise(u)) BY <1>0, <1>1, OtherRequestStep
<1>9. \A k \in Ignored, v \in Values : ~Platform(k, v) BY <1>1 DEF Platform, requestVars
<1> QED BY <1>2, <1>3, <1>4, <1>5, <1>6, <1>7, <1>8, <1>9 DEF Next, Users

\* A save that returns has made the server's mapping the handle's copy, but for what
\* others added meanwhile.
THEOREM SavesSynchronise == Spec => SaveSynchronises
<1> DEFINE B == \A h \in Handles : SaveReturns(h) /\ cached[h] # NoCache =>
                  \A k \in Fields : \/ remote'[k] = cached[h][k]
                                    \/ cached[h][k] = Absent /\ k \in unseen[h]
<1>1. SyncInv /\ [Next]_vars => [B]_vars
  <2> SUFFICES ASSUME SyncInv, Next, NEW h \in Handles, SaveReturns(h), cached[h] # NoCache,
                      NEW k \in Fields
               PROVE  remote'[k] = cached[h][k] \/ (cached[h][k] = Absent /\ k \in unseen[h])
    BY DEF vars, SaveReturns, requestVars
  <2>1. TypeOK /\ RequestOfSave(h) /\ h \in Users /\ k \in Keys
    BY DEF SyncInv, RequestsOfSave, Users, Fields
  <2>2. cached[h][k] = Absent /\ remote[k] # Absent => k \in unseen[h] \cup Unsent(h)
    BY DEF SyncInv, DeletionsKept, OnlyThere
  <2>3. PostRest(h) \/ (Answer(h) /\ pc[h] = "posting") BY ReturnSteps DEF SyncInv
  <2>4. CASE PostRest(h)
    <3>1. Unsent(h) = {} BY <2>4 DEF PostRest, Unsent, Ready
    <3>2. cached[h][k] = Absent
      BY <2>1, <2>4 DEF PostRest, Send, SaveReturns, Having, TypeOK
    <3> QED BY <2>2, <2>4, <3>1, <3>2 DEF PostRest
  <2>5. CASE Answer(h) /\ pc[h] = "posting"
    <3>1. Unsent(h) = {} BY <2>5 DEF Unsent, Ready
    <3>2. remote'[k] = IF req[h][k] = Keep THEN remote[k] ELSE req[h][k]
      BY <2>1, <2>5 DEF Answer, Serves, Becomes, Applied
    <3>3. req[h][k] = IF cached[h][k] = Absent THEN Keep ELSE cached[h][k]
      BY <2>1, <2>5 DEF RequestOfSave, Posted, Fields
    <3>4. cached[h] \in Mappings BY <2>1 DEF TypeOK
    <3>5. cached[h][k] # Keep BY <2>1, <3>4, MappingAssumption DEF Mappings
    <3> QED BY <2>2, <3>1, <3>2, <3>3, <3>5
  <2> QED BY <2>3, <2>4, <2>5
<1> QED BY Sync, <1>1, PTL DEF Spec, SaveSynchronises

\* A handle or a proxy changes a field that the platform keeps only as its user named
\* that field; nothing stale is written back.
THEOREM PlatformFields == Spec => PlatformFieldsKept
<1> DEFINE B == \A u \in Users, k \in Ignored : Steps(u) /\ remote'[k] # remote[k] => MayChange(u, k)
<1>1. SyncInv /\ [Next]_vars => [B]_vars
  <2> SUFFICES ASSUME SyncInv, Next, NEW u \in Users, NEW k \in Ignored,
                      Steps(u), remote'[k] # remote[k]
               PROVE  MayChange(u, k)
    OBVIOUS
  <2>0. TypeOK /\ k \in Keys BY MappingAssumption DEF SyncInv
  <2>1. ASSUME NEW h \in Handles, HandleStep(h) PROVE FALSE
    BY <2>1 DEF HandleStep, Look, SetItem, DelItem, UpdateMetadata, Begin, Expire, Save,
                DeleteNext, PostRest
  <2>2. ASSUME NEW p \in Proxies, ProxyStep(p) PROVE FALSE
    BY <2>2 DEF ProxyStep, SetOrDelete, Update
  <2>3. ASSUME NEW w \in Users, Answer(w) \/ Again(w) \/ Raise(w) PROVE MayChange(u, k)
    <3>1. u = w
      BY <2>0, <2>3 DEF Steps, Answer, Again, Raise, Return, Leave, Send, TypeOK
    <3>2. MayServe(u) BY <2>3, <3>1 DEF Answer, Again, Raise, MayServe
    <3>3. req[u][k] # Keep BY <2>0, <3>2 DEF MayServe, Serves, Becomes, Applied
    <3> QED BY <3>3 DEF SyncInv, RequestsKeep
  <2>4. ASSUME NEW i \in Ignored, NEW v \in Values, Platform(i, v) PROVE FALSE
    BY <2>4 DEF Platform, requestVars, Steps
  <2> QED BY <2>1, <2>2, <2>3, <2>4 DEF Next
<1>2. SyncInv /\ [Next]_vars => [\A u \in Users, k \in Ignored :
         Steps(u) /\ remote'[k] # remote[k] => MayChange(u, k)]_vars
  BY <1>1
<1> QED BY Sync, <1>2, PTL DEF Spec, PlatformFieldsKept
=============================================================================
