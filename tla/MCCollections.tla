--------------------------- MODULE MCCollections ---------------------------
(***************************************************************************)
(* A client with max_retries=1 and one with max_retries=0, max_retry_time. *)
(***************************************************************************)
EXTENDS CollectionsProperties, TLC

CONSTANTS c1, c2

Retries == c1 :> 1 @@ c2 :> 0
Bounds == c1 :> 2 @@ c2 :> 1
=============================================================================
