-------------------------------- MODULE Sem ---------------------------------
(***************************************************************************)
(* Counting semaphores, kernel/ipc/sem.c.  A semaphore's wait_list is kept *)
(* with the task manager's lists in module Task; its counter is here.      *)
(* sem_count only reads the counter and changes nothing.                   *)
(***************************************************************************)
EXTENDS Task

CONSTANTS
  InitCount,  \* the init_count each semaphore is given by sem_init
  MaxCount    \* bound: sem_notify is not called beyond this count

ASSUME SemAssumption ==
  /\ InitCount \in [Sems -> Nat]
  /\ MaxCount \in Nat

VARIABLE count

sem_init == count = InitCount

\* mutants of sem_available: off by one, both ways
sem_available_0(s) == count[s] >= 0
sem_available_2(s) == count[s] > 1

sem_available(s) == count[s] > 0

sem_wait(s) ==
  /\ TaskRuns
  /\ \/ /\ sem_available(s)
        /\ count' = [count EXCEPT ![s] = @ - 1]
        /\ UNCHANGED taskVars
     \/ /\ ~sem_available(s)
        /\ BlockOn(s)
        /\ UNCHANGED count

\* mutant of sem_notify: counts the unit that a waiter takes, too
sem_notify_both(s) ==
  /\ TaskRuns
  /\ count[s] < MaxCount
  /\ count' = [count EXCEPT ![s] = @ + 1]
  /\ \/ /\ wait_list[s] # <<>>
        /\ WakeFirst(s)
        /\ task_dispatch(ready_list',
                         ready_state(state, Head(wait_list[s])))
     \/ wait_list[s] = <<>> /\ UNCHANGED taskVars

\* With a waiter the counter is not touched: the waiter takes the unit.
sem_notify(s) ==
  /\ TaskRuns
  /\ \/ /\ wait_list[s] # <<>>
        /\ WakeFirst(s)
        /\ task_dispatch(ready_list',
                         ready_state(state, Head(wait_list[s])))
        /\ UNCHANGED count
     \/ /\ wait_list[s] = <<>>
        /\ count[s] < MaxCount
        /\ count' = [count EXCEPT ![s] = @ + 1]
        /\ UNCHANGED taskVars

SemNext == \E s \in Sems : sem_wait(s) \/ sem_notify(s)

-----------------------------------------------------------------------------

\* No lost wakeup: nobody waits for a semaphore that has units left.
SemNoLostWakeup == \A s \in Sems : count[s] > 0 => wait_list[s] = <<>>

=============================================================================
