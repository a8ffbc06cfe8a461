------------------------------- MODULE Mutex --------------------------------
(***************************************************************************)
(* The reentrant mutex, kernel/ipc/mutex.c.  Its wait_list is kept with    *)
(* the task manager's lists in module Task.  unlock hands the mutex to the *)
(* longest waiter, which then owns it before it runs again.                *)
(*                                                                         *)
(* Callers respect the two ASSERTs of rein_mutex_unlock: only the owner    *)
(* unlocks.  (A caller that does not reaches panic, which prints and halts *)
(* the machine.)                                                           *)
(***************************************************************************)
EXTENDS Task

CONSTANT MaxLocker  \* bound: how deep a task nests its locks

ASSUME MutexAssumption == MaxLocker \in Nat \ {0}

VARIABLES
  locker,  \* lock() calls of the owner not yet matched by unlock()
  owner    \* the task holding the mutex, or NULL

mutexVars == <<locker, owner>>

rein_mutex_init ==
  /\ locker = [m \in Mutexes |-> 0]
  /\ owner = [m \in Mutexes |-> NULL]

rein_mutex_lock(m) ==
  /\ TaskRuns
  /\ \/ /\ locker[m] = 0
        /\ locker' = [locker EXCEPT ![m] = @ + 1]
        /\ owner' = [owner EXCEPT ![m] = curr_task]
        /\ UNCHANGED taskVars
     \/ /\ locker[m] # 0
        /\ owner[m] = curr_task
        /\ locker[m] < MaxLocker
        /\ locker' = [locker EXCEPT ![m] = @ + 1]
        /\ UNCHANGED <<owner, taskVars>>
     \/ /\ locker[m] # 0
        /\ owner[m] # curr_task
        /\ BlockOn(m)
        /\ UNCHANGED mutexVars

\* mutants of new_owner: the hand-over forgotten; the owner reset after it
new_owner_same(m) == curr_task
new_owner_null(m) == NULL

new_owner(m) == Head(wait_list[m])

rein_mutex_unlock(m) ==
  /\ TaskRuns
  /\ locker[m] # 0
  /\ owner[m] = curr_task
  /\ \/ /\ locker[m] > 1
        /\ locker' = [locker EXCEPT ![m] = @ - 1]
        /\ UNCHANGED <<owner, taskVars>>
     \/ /\ locker[m] = 1
        /\ wait_list[m] = <<>>
        /\ locker' = [locker EXCEPT ![m] = 0]
        /\ owner' = [owner EXCEPT ![m] = NULL]
        /\ UNCHANGED taskVars
     \/ /\ locker[m] = 1
        /\ wait_list[m] # <<>>
        /\ WakeFirst(m)
        /\ state' = ready_state(state, Head(wait_list[m]))
        /\ owner' = [owner EXCEPT ![m] = new_owner(m)]
        /\ UNCHANGED <<locker, curr_task>>

MutexNext == \E m \in Mutexes : rein_mutex_lock(m) \/ rein_mutex_unlock(m)

-----------------------------------------------------------------------------

\* A mutex has an owner exactly when it is locked, nobody waits for a free
\* mutex, and no owner waits for the mutex it owns.
MutexNoLostWakeup ==
  \A m \in Mutexes :
    /\ owner[m] = NULL <=> locker[m] = 0
    /\ locker[m] = 0 => wait_list[m] = <<>>
    /\ owner[m] \notin Range(wait_list[m])

=============================================================================
