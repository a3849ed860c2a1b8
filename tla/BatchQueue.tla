----------------------------- MODULE BatchQueue -----------------------------
(***************************************************************************)
(* What the router expects of the queue between its main thread and its    *)
(* workers: packets leave in the order in which they came, each exactly    *)
(* once, in batches that libmemcached can run with one call.  A batch is   *)
(* either one packet that is not a GET, or GET packets only.  A batch is   *)
(* empty only when the queue was told to release its callers.              *)
(***************************************************************************)
EXTENDS Naturals, Sequences

CONSTANTS
  Threads,   \* the threads that take batches
  Packets,   \* what can be queued
  NumKeys    \* NumKeys[p]: the number of GET keys of p, 0 for other packets

VARIABLES
  queue,     \* packets not yet taken
  held,      \* held[t]: the batch thread t took last
  released   \* callers are being released, whether there are packets or not

vars == <<queue, held, released>>

IsBatch(b) ==
  \/ Len(b) = 1 /\ NumKeys[b[1]] = 0
  \/ Len(b) >= 1 /\ \A i \in 1..Len(b) : NumKeys[b[i]] > 0

Init ==
  /\ queue = <<>>
  /\ held = [t \in Threads |-> <<>>]
  /\ released = FALSE

Put(p) ==
  /\ queue' = Append(queue, p)
  /\ UNCHANGED <<held, released>>

\* Thread t takes the first n packets.
Take(t, n) ==
  /\ IsBatch(SubSeq(queue, 1, n))
  /\ held' = [held EXCEPT ![t] = SubSeq(queue, 1, n)]
  /\ queue' = SubSeq(queue, n + 1, Len(queue))
  /\ UNCHANGED released

\* Thread t drops the batch it was working on and asks for another.
Ask(t) ==
  /\ held' = [held EXCEPT ![t] = <<>>]
  /\ UNCHANGED <<queue, released>>

Release ==
  /\ released' = TRUE
  /\ UNCHANGED <<queue, held>>

Reopen ==
  /\ released' = FALSE
  /\ UNCHANGED <<queue, held>>

Next ==
  \/ \E p \in Packets : Put(p)
  \/ \E t \in Threads : Ask(t) \/ \E n \in 1..Len(queue) : Take(t, n)
  \/ Release
  \/ Reopen

Spec == Init /\ [][Next]_vars
=============================================================================
