------------------------------ MODULE ReadCall ------------------------------
(***************************************************************************)
(* What one call of a reader promises, whatever its lists, retries and     *)
(* failures: the caller is handed the items of the job in order from the   *)
(* one it asked for on, and only such as the job has by then.  The call    *)
(* ends by an exception, after it gave up (which only the log tells), or   *)
(* with all that the job had when it was made, up to the caller's count;   *)
(* or it goes astray: it takes for items what is none, and promises        *)
(* nothing from there on.                                                  *)
(* The item at position i is the number i.                                 *)
(***************************************************************************)
EXTENDS Integers, Sequences

CONSTANTS Firsts, Limits

VARIABLES
  size,     \* how many items the job has by now
  call,     \* what was asked for, and how many items there were then
  got,      \* what the caller was handed
  gaveup,   \* some attempts ran out
  status    \* "idle", "reading", "done", "raised", "astray"

vars == <<size, call, got, gaveup, status>>

NoCall == [first |-> 0, limit |-> 0, exact |-> TRUE, had |-> 0]

Init ==
  /\ size \in Nat
  /\ call = NoCall /\ got = <<>> /\ gaveup = FALSE /\ status = "idle"

Grow ==
  /\ size' = size + 1
  /\ UNCHANGED <<call, got, gaveup, status>>

\* exact tells whether the reader keeps to the count through failures.
Ask(a, n, exact) ==
  /\ status = "idle" /\ status' = "reading"
  /\ call' = [first |-> a, limit |-> n, exact |-> exact, had |-> size]
  /\ UNCHANGED <<size, got, gaveup>>

\* The caller is handed the next n items.
Upcoming(n) == [i \in 1..n |-> call.first + Len(got) + i - 1]
Take(n) ==
  /\ status = "reading"
  /\ n > 0 => call.first + Len(got) + n <= size
  /\ call.exact => Len(got) + n <= call.limit
  /\ got' = got \o Upcoming(n)
  /\ UNCHANGED <<size, call, gaveup>>

Deliver(n) == Take(n) /\ UNCHANGED status

Complete == Len(got') >= call.limit \/ call.first + Len(got') >= call.had
Finish(n) == Take(n) /\ (gaveup \/ Complete) /\ status' = "done"

GiveUp ==
  /\ status = "reading" /\ gaveup' = TRUE
  /\ UNCHANGED <<size, call, got, status>>

Break(how) ==
  /\ status = "reading" /\ status' = how
  /\ UNCHANGED <<size, call, got, gaveup>>

Next ==
  \/ Grow \/ GiveUp \/ Break("raised") \/ Break("astray")
  \/ \E a \in Firsts, n \in Limits, exact \in BOOLEAN : Ask(a, n, exact)
  \/ \E n \in 0..size : Deliver(n) \/ Finish(n)

Spec == Init /\ [][Next]_vars
=============================================================================
