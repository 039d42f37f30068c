-------------------------- MODULE MCResourceWriters --------------------------
(***************************************************************************)
(* Instances of ResourceWriters: one slot and two objects for one log; and *)
(* client/jobs.py Job, whose close_writers closes the resources of its own *)
(* hubstorage Job while its users write through the proxies' origins.      *)
(***************************************************************************)
EXTENDS ResourceWritersProperties, TLC

CONSTANTS t1, t2, slot1, log1, log2, items1, items2

LogTarget == [r \in {slot1, log1, log2} |-> IF r = slot1 THEN "slot" ELSE "log"]
\* Both threads use the slot, and may make its writer at once.
LogUses == (t1 :> {slot1, log1, log2}) @@ (t2 :> {slot1})

ItemsUses == [t \in {t1} |-> {items1}]
ItemsTarget == [r \in {items1, items2} |-> "items"]
=============================================================================
