------------------------------- MODULE Mapping -------------------------------
(***************************************************************************)
(* A mapping kept by the storage server (the metadata of a job, the        *)
(* settings of a project) and those who change it: handles, objects of     *)
(* MappingResourceType (hubstorage/resourcetype.py), with a local copy     *)
(* that save() writes back key by key; proxies, objects of _MappingProxy   *)
(* (client/proxy.py), with none; and the platform, which sets the fields   *)
(* that JobMeta ignores.                                                   *)
(*                                                                         *)
(* A request is what it does to each key: a value to store, Absent to      *)
(* delete it, Keep to leave it alone.                                      *)
(***************************************************************************)
EXTENDS Naturals

CONSTANTS
  Handles, Proxies,
  Keys, Values,
  Ignored,      \* the class's ignore_fields
  Absent, Keep, NoCache,
  MaxRequests   \* the retrier's stop_max_attempt_number

Users == Handles \cup Proxies
Fields == Keys \ Ignored
Mappings == [Keys -> Values \cup {Absent}]
Requests == [Keys -> Values \cup {Absent, Keep}]

ASSUME MappingAssumption ==
  /\ Handles \cap Proxies = {} /\ Ignored \subseteq Keys
  /\ Absent \notin Values /\ Keep \notin Values /\ Absent # Keep
  /\ NoCache \notin Mappings
  /\ MaxRequests \in Nat \ {0}

VARIABLES
  remote,     \* the server's mapping
  cached,     \* MappingResourceType._cached
  deleted,    \* MappingResourceType._deleted
  rest,       \* save: the keys of _deleted its loop has not come to
  expires,    \* the save is update_metadata's, an expire follows
  pc,         \* where a user stands
  req,        \* the request it is sending
  tries,      \* Retrying: attempts at that request that failed
  own,        \* history: the key that a proxy's set or delete was called with
  unseen      \* history: what the server has and the handle's copy cannot have

localVars   == <<cached, deleted, rest, expires>>
requestVars == <<pc, req, tries>>
vars == <<remote, localVars, requestVars, own, unseen>>

Nothing == [k \in Keys |-> Keep]
Having(m) == {k \in Keys : m[k] # Absent}
Applied(m, r) == [k \in Keys |-> IF r[k] = Keep THEN m[k] ELSE r[k]]

\* A handle starts without a copy, or with the part of it a list of jobs gave.
Init ==
  /\ remote \in Mappings
  /\ cached \in [Handles -> {NoCache} \cup {m \in Mappings : \A k \in Having(m) : m[k] = remote[k]}]
  /\ deleted = [h \in Handles |-> {}] /\ rest = deleted
  /\ expires = [h \in Handles |-> FALSE]
  /\ pc = [u \in Users |-> "idle"]
  /\ req = [u \in Users |-> Nothing] /\ tries = [u \in Users |-> 0]
  /\ own = [p \in Proxies |-> {}]
  /\ unseen = [h \in Handles |->
       IF cached[h] = NoCache THEN {} ELSE Having(remote) \ Having(cached[h])]

\* The server's mapping changes: what it newly has, only the handles of S know.
Becomes(m, S) ==
  /\ remote' = m
  /\ unseen' = [h \in Handles |->
       IF h \in S THEN unseen[h] ELSE unseen[h] \cup {k \in Having(m) : m[k] # remote[k]}]

Ready(u) == pc[u] \in {"idle", "raised"}

Send(u, r, at) ==
  /\ req' = [req EXCEPT ![u] = r]
  /\ tries' = [tries EXCEPT ![u] = 0]
  /\ pc' = [pc EXCEPT ![u] = at]

(***************************************************************************)
(* A handle's copy                                                         *)
(***************************************************************************)
\* The property _data, which gets the mapping when there is no copy of it.
Data(h) == IF cached[h] = NoCache THEN remote ELSE cached[h]

\* The caller's changes m to some keys: __setitem__, __delitem__ (a KeyError for
\* a key the copy has not), update, or none, for what only looks at the copy.
Change(h, m) ==
  /\ Ready(h) /\ \A k \in Keys : m[k] = Absent => Data(h)[k] # Absent
  /\ cached' = [cached EXCEPT ![h] = Applied(Data(h), m)]
  /\ deleted' = [deleted EXCEPT ![h] =
       {k \in Keys : m[k] = Absent \/ (m[k] = Keep /\ k \in @)}]
  /\ unseen' = [unseen EXCEPT ![h] = IF cached[h] = NoCache THEN {} ELSE @]

Look(h) ==
  /\ Change(h, Nothing)
  /\ UNCHANGED <<remote, rest, expires, requestVars, own>>

SetItem(h, k, v) ==
  /\ Change(h, [Nothing EXCEPT ![k] = v])
  /\ UNCHANGED <<remote, rest, expires, requestVars, own>>

DelItem(h, k) ==
  /\ Change(h, [Nothing EXCEPT ![k] = Absent])
  /\ UNCHANGED <<remote, rest, expires, requestVars, own>>

Expire(h) ==
  /\ Ready(h)
  /\ cached' = [cached EXCEPT ![h] = NoCache]
  /\ UNCHANGED <<remote, deleted, rest, expires, requestVars, own, unseen>>

(***************************************************************************)
(* save                                                                    *)
(***************************************************************************)
\* save(), and update_metadata: update() of the copy, save() and expire().
Begin(h, keys, then) ==
  /\ pc' = [pc EXCEPT ![h] = "save"]
  /\ rest' = [rest EXCEPT ![h] = keys]
  /\ expires' = [expires EXCEPT ![h] = then]
  /\ UNCHANGED <<remote, req, tries, own>>

Save(h) ==
  /\ Ready(h)
  /\ Begin(h, deleted[h], FALSE)
  /\ UNCHANGED <<cached, deleted, unseen>>

UpdateMetadata(h, m) ==
  /\ Change(h, m)
  /\ Begin(h, deleted'[h], TRUE)

\* `for key in self._deleted: self.apidelete(key)`
DeleteNext(h, k) ==
  /\ pc[h] = "save" /\ k \in rest[h]
  /\ rest' = [rest EXCEPT ![h] = @ \ {k}]
  /\ Send(h, [Nothing EXCEPT ![k] = Absent], "deleting")
  /\ UNCHANGED <<remote, cached, deleted, expires, own, unseen>>

\* A mutant posts every field.
Unfiltered(m) == [k \in Keys |-> IF m[k] = Absent THEN Keep ELSE m[k]]
Posted(m) == [k \in Keys |-> IF m[k] = Absent \/ k \in Ignored THEN Keep ELSE m[k]]

\* Its call is over, and leaves nothing of itself.
Leave(u, at) ==
  /\ pc' = [pc EXCEPT ![u] = at]
  /\ req' = [req EXCEPT ![u] = Nothing] /\ tries' = [tries EXCEPT ![u] = 0]
  /\ rest' = [h \in Handles |-> IF h = u THEN {} ELSE rest[h]]
  /\ expires' = [h \in Handles |-> h # u /\ expires[h]]
  /\ own' = [p \in Proxies |-> IF p = u THEN {} ELSE own[p]]

Return(u) ==
  /\ Leave(u, "idle")
  /\ cached' = [h \in Handles |-> IF h = u /\ expires[h] THEN NoCache ELSE cached[h]]

\* `self._deleted.clear()`; a copy that is missing or empty is not posted.
PostRest(h) ==
  /\ pc[h] = "save" /\ rest[h] = {}
  /\ deleted' = [deleted EXCEPT ![h] = {}]
  /\ IF cached[h] # NoCache /\ Having(cached[h]) # {}
     THEN Send(h, Posted(cached[h]), "posting") /\ UNCHANGED <<cached, rest, expires, own>>
     ELSE Return(h)
  /\ UNCHANGED <<remote, unseen>>

(***************************************************************************)
(* A proxy's calls                                                         *)
(***************************************************************************)
\* set and delete: one request.
SetOrDelete(p, k, v) ==
  /\ Ready(p)
  /\ Send(p, [Nothing EXCEPT ![k] = v], "calling")
  /\ own' = [own EXCEPT ![p] = {k}]
  /\ UNCHANGED <<remote, localVars, unseen>>

\* update: gets the whole mapping, and will post it with the values replaced.
Update(p, m) ==
  /\ Ready(p)
  /\ Send(p, Posted(Applied(remote, m)), "calling")
  /\ UNCHANGED <<remote, localVars, own, unseen>>

(***************************************************************************)
(* Requests, under the retrier, and the platform                           *)
(***************************************************************************)
Sending(u) == pc[u] \in {"deleting", "posting", "calling"}
Serves(u) == Becomes(Applied(remote, req[u]), {u})
MayServe(u) == Serves(u) \/ UNCHANGED <<remote, unseen>>

Answer(u) ==
  /\ Sending(u)
  /\ Serves(u)
  /\ IF pc[u] = "deleting"
     THEN Send(u, Nothing, "save") /\ UNCHANGED <<cached, rest, expires, own>>
     ELSE Return(u)
  /\ UNCHANGED deleted

\* The attempt fails, whether or not the server served it, and is made again.
AttemptsLeft(u) == tries[u] + 1 < MaxRequests

Again(u) ==
  /\ Sending(u) /\ AttemptsLeft(u)
  /\ MayServe(u)
  /\ tries' = [tries EXCEPT ![u] = @ + 1]
  /\ UNCHANGED <<localVars, pc, req, own>>

\* It fails for good: save raises where it stands. A mutant has taken each key
\* from _deleted before its request.
TakenAsSent(h) == rest[h]
StillDeleted(h) == deleted[h]

Raise(u) ==
  /\ Sending(u)
  /\ MayServe(u)
  /\ Leave(u, "raised")
  /\ deleted' = IF pc[u] = "deleting" THEN [deleted EXCEPT ![u] = StillDeleted(u)] ELSE deleted
  /\ UNCHANGED cached

Platform(k, v) ==
  /\ Becomes([remote EXCEPT ![k] = v], {})
  /\ UNCHANGED <<localVars, requestVars, own>>

----------------------------------------------------------------------------
Given == [Keys -> Values \cup {Keep}]

HandleStep(h) ==
  \/ Look(h) \/ Expire(h) \/ Save(h) \/ PostRest(h)
  \/ \E k \in Keys, v \in Values : SetItem(h, k, v)
  \/ \E k \in Keys : DelItem(h, k) \/ DeleteNext(h, k)
  \/ \E m \in Given \ {Nothing} : UpdateMetadata(h, m)

ProxyStep(p) ==
  \/ \E k \in Keys, v \in Values \cup {Absent} : SetOrDelete(p, k, v)
  \/ \E m \in Given : Update(p, m)

Next ==
  \/ \E h \in Handles : HandleStep(h)
  \/ \E p \in Proxies : ProxyStep(p)
  \/ \E u \in Users : Answer(u) \/ Again(u) \/ Raise(u)
  \/ \E k \in Ignored, v \in Values : Platform(k, v)

Spec == Init /\ [][Next]_vars

----------------------------------------------------------------------------
\* The types of the variables.
Stands == {"idle", "raised", "save", "deleting", "posting", "calling"}
TypeOK ==
  /\ remote \in Mappings
  /\ cached \in [Handles -> Mappings \cup {NoCache}]
  /\ deleted \in [Handles -> SUBSET Keys] /\ rest \in [Handles -> SUBSET Keys]
  /\ expires \in [Handles -> BOOLEAN]
  /\ pc \in [Users -> Stands] /\ req \in [Users -> Requests]
  /\ tries \in [Users -> 0..(MaxRequests - 1)]
  /\ own \in [Proxies -> SUBSET Keys]
  /\ unseen \in [Handles -> SUBSET Keys]

\* When a save returns, however many of its requests or of those of earlier saves
\* failed, were served twice or were served and not answered, the server has what the
\* handle's copy has and nothing else, but for what others added and it has not seen.
SaveReturns(h) == pc[h] \in {"save", "posting"} /\ pc'[h] = "idle"
SaveSynchronises ==
  [][\A h \in Handles : SaveReturns(h) /\ cached[h] # NoCache =>
       \A k \in Fields :
         \/ remote'[k] = cached[h][k]
         \/ cached[h][k] = Absent /\ k \in unseen[h]]_vars

\* A user changes a field that the platform keeps only by naming it: by deleting the
\* key from a handle's copy and saving, or by a proxy's set or delete of that key.
\* What save and update post, a whole copy that may be stale, undoes none of them.
Steps(u) == <<pc[u], tries[u]>>' # <<pc[u], tries[u]>>
MayChange(u, k) ==
  \/ u \in Handles /\ pc[u] = "deleting" /\ k \in deleted[u]
  \/ u \in Proxies /\ own[u] = {k}
PlatformFieldsKept ==
  [][\A u \in Users, k \in Ignored : Steps(u) /\ remote'[k] # remote[k] => MayChange(u, k)]_vars

----------------------------------------------------------------------------
\* What makes SaveSynchronises and PlatformFieldsKept inductive: the requests of a
\* handle are those of its save, they change a platform's field only as the user
\* named it (MayChange), and the deletions its save has yet to ask for, or will ask
\* for again, are those of the keys that only the server still has.
RequestOfSave(h) ==
  /\ pc[h] # "calling"
  /\ pc[h] \in {"save", "deleting"} => rest[h] \subseteq deleted[h]
  /\ pc[h] = "deleting" => \E k \in deleted[h] : req[h] = [Nothing EXCEPT ![k] = Absent]
  /\ pc[h] = "posting" => cached[h] # NoCache /\ req[h] = Posted(cached[h])
RequestsOfSave == \A h \in Handles : RequestOfSave(h)
RequestsKeep == \A u \in Users : \A k \in Ignored : req[u][k] # Keep => MayChange(u, k)
Unsent(h) ==
  IF Ready(h) THEN deleted[h]
  ELSE IF pc[h] = "save" THEN rest[h]
  ELSE IF pc[h] = "deleting" THEN rest[h] \cup {k \in Fields : req[h][k] = Absent}
  ELSE {}
OnlyThere(h) == {k \in Fields : cached[h][k] = Absent /\ remote[k] # Absent}
DeletionsKept ==
  \A h \in Handles : cached[h] # NoCache => OnlyThere(h) \subseteq unseen[h] \cup Unsent(h)
SyncInv == TypeOK /\ RequestsOfSave /\ RequestsKeep /\ DeletionsKept
=============================================================================
