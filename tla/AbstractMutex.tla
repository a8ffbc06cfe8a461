---------------------------- MODULE AbstractMutex ----------------------------
(***************************************************************************)
(* What kernel/ipc/mutex.c promises, without the scheduler: each mutex is  *)
(* held by one task at a time, any number of times over; a task that finds *)
(* it held by another one waits its turn, and turns go in order.           *)
(***************************************************************************)
EXTENDS Integers, Sequences

CONSTANTS Tasks, Mutexes

VARIABLES
  held,  \* held[m][t]: lock calls of t on m that it has not undone yet
  turns  \* the tasks waiting for the mutex

Waiting == UNION {{turns[m][k] : k \in DOMAIN turns[m]} : m \in Mutexes}

Free(m) == \A t \in Tasks : held[m][t] = 0

Init ==
  /\ held = [m \in Mutexes |-> [t \in Tasks |-> 0]]
  /\ turns = [m \in Mutexes |-> <<>>]

Lock(t, m) ==
  /\ t \notin Waiting
  /\ Free(m) \/ held[m][t] > 0
  /\ held' = [held EXCEPT ![m][t] = @ + 1]
  /\ UNCHANGED turns

Wait(t, m) ==
  /\ t \notin Waiting
  /\ \E u \in Tasks \ {t} : held[m][u] > 0
  /\ turns' = [turns EXCEPT ![m] = Append(@, t)]
  /\ UNCHANGED held

Unlock(t, m) ==
  /\ t \notin Waiting
  /\ held[m][t] > 0
  /\ held[m][t] > 1 \/ turns[m] = <<>>
  /\ held' = [held EXCEPT ![m][t] = @ - 1]
  /\ UNCHANGED turns

\* The last unlock gives the mutex to the task whose turn it is.
HandOver(t, m) ==
  /\ t \notin Waiting
  /\ held[m][t] = 1
  /\ turns[m] # <<>>
  /\ held' = [held EXCEPT ![m] = [@ EXCEPT ![t] = 0, ![Head(turns[m])] = 1]]
  /\ turns' = [turns EXCEPT ![m] = Tail(@)]

Next ==
  \E t \in Tasks, m \in Mutexes :
    Lock(t, m) \/ Wait(t, m) \/ Unlock(t, m) \/ HandOver(t, m)

Spec == Init /\ [][Next]_<<held, turns>>

=============================================================================
