----------------------------- MODULE AbstractSem -----------------------------
(***************************************************************************)
(* What kernel/ipc/sem.c promises, without the scheduler: semaphores in    *)
(* the style of Dijkstra.  A semaphore's value falls by one with every P   *)
(* and rises by one with every V.  While it is negative, it counts the     *)
(* tasks that are waiting, and they are served in the order they came.     *)
(***************************************************************************)
EXTENDS Integers, Sequences

CONSTANTS Tasks, Sems, InitValue

VARIABLES
  value,  \* units the semaphore has, or minus the units it owes
  queue   \* the tasks it owes one unit each

Waiting == UNION {{queue[s][k] : k \in DOMAIN queue[s]} : s \in Sems}

Init ==
  /\ value = InitValue
  /\ queue = [s \in Sems |-> <<>>]

P(t, s) ==
  /\ t \notin Waiting
  /\ value' = [value EXCEPT ![s] = @ - 1]
  /\ queue' = IF value[s] > 0 THEN queue
              ELSE [queue EXCEPT ![s] = Append(@, t)]

V(s) ==
  /\ value' = [value EXCEPT ![s] = @ + 1]
  /\ queue' = IF value[s] >= 0 THEN queue
              ELSE [queue EXCEPT ![s] = Tail(@)]

Next == \E s \in Sems : V(s) \/ \E t \in Tasks : P(t, s)

Spec == Init /\ [][Next]_<<value, queue>>

=============================================================================
