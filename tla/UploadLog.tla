----------------------------- MODULE UploadLog -----------------------------
(***************************************************************************)
(* What the batch uploader promises, whatever its threads, queues, retries *)
(* and failures: an append-only log of accepted items for each writer, of  *)
(* which a prefix is settled.  A settled item was stored at its own        *)
(* position or was given up; the server holds accepted items only, each at *)
(* the position at which it was accepted.                                  *)
(***************************************************************************)
EXTENDS Integers, Sequences

CONSTANTS Writers, Data, Start

VARIABLES
  log,        \* the items accepted, in order
  settled,    \* how many of them are settled
  stored,     \* <<writer, position, item>>: what the server holds
  discarded   \* <<writer, position>>: what was given up

vars == <<log, settled, stored, discarded>>

Init ==
  /\ log = [w \in Writers |-> <<>>]
  /\ settled = [w \in Writers |-> 0]
  /\ stored = {} /\ discarded = {}

Accept(w, d) ==
  /\ log' = [log EXCEPT ![w] = Append(@, d)]
  /\ UNCHANGED <<settled, stored, discarded>>

\* The server gets some accepted items; it may have them already.
Store(w, S) ==
  /\ stored' = stored \cup {<<w, Start + i - 1, log[w][i]>> : i \in S}
  /\ UNCHANGED <<log, settled, discarded>>

\* Only what is not settled yet can be given up.
GiveUp(w, S) ==
  /\ \A i \in S : i > settled[w]
  /\ discarded' = discarded \cup {<<w, Start + i - 1>> : i \in S}
  /\ UNCHANGED <<log, settled, stored>>

\* The settled prefix grows over items that were stored or given up.
Settle(w, n) ==
  /\ n >= settled[w]
  /\ \A i \in settled[w] + 1..n :
       \/ <<w, Start + i - 1, log[w][i]>> \in stored
       \/ <<w, Start + i - 1>> \in discarded
  /\ settled' = [settled EXCEPT ![w] = n]
  /\ UNCHANGED <<log, stored, discarded>>

Next ==
  \E w \in Writers :
    \/ \E d \in Data : Accept(w, d)
    \/ \E S \in SUBSET (1..Len(log[w])) : Store(w, S) \/ GiveUp(w, S)
    \/ \E n \in 0..Len(log[w]) : Settle(w, n)

Spec == Init /\ [][Next]_vars
=============================================================================
