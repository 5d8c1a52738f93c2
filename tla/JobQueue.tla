------------------------------ MODULE JobQueue ------------------------------
(***************************************************************************)
(* What the task manager promises about the jobs it accepts, with neither  *)
(* a table nor a channel: each key is waiting at most once, jobs are taken *)
(* first come first served, one at a time, and a job leaves the queue only *)
(* by being taken or when a start of the program forgets the old queue.    *)
(***************************************************************************)
EXTENDS Naturals

CONSTANTS
  Keys,      \* the jobs that can be asked for
  Tickets    \* the numbers that order the requests

VARIABLES
  pending,   \* the accepted requests: a set of <<ticket, key>>
  current    \* the request being executed, as a set of at most one

vars == <<pending, current>>

Init == pending = {} /\ current = {}

KeysOf(R) == {r[2] : r \in R}

Submit(k) ==
  \E t \in Tickets :
    /\ k \notin KeysOf(pending) \cup KeysOf(current)
    /\ \A r \in pending \cup current : r[1] < t
    /\ pending' = pending \cup {<<t, k>>}
    /\ UNCHANGED current

Take ==
  \E r \in pending :
    /\ current = {}
    /\ \A q \in pending : r[1] <= q[1]
    /\ pending' = pending \ {r}
    /\ current' = {r}

(* The execution ends, or dies with the process.                           *)
End == current # {} /\ current' = {} /\ UNCHANGED pending

Forget == current = {} /\ pending' = {} /\ UNCHANGED current

Next == Take \/ End \/ Forget \/ \E k \in Keys : Submit(k)

Spec == Init /\ [][Next]_vars
=============================================================================
