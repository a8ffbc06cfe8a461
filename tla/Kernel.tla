------------------------------- MODULE Kernel -------------------------------
(***************************************************************************)
(* The kernel's task manager, semaphores and mutexes together, used by     *)
(* tasks that may call anything at any time: at each step the running task *)
(* makes some system call, or the timer interrupts it.                     *)
(***************************************************************************)
EXTENDS Sem, Mutex

vars == <<taskVars, count, mutexVars>>

Init == TaskInit /\ sem_init /\ rein_mutex_init

Next ==
  \/ TaskNext  /\ UNCHANGED <<count, mutexVars>>
  \/ SemNext   /\ UNCHANGED mutexVars
  \/ MutexNext /\ UNCHANGED count

Spec == Init /\ [][Next]_vars

\* The interval timer keeps interrupting, and its handler, which runs with
\* interrupts off, runs to its end.  Nothing is assumed of the tasks.
Ticks == task_time_tick /\ UNCHANGED <<count, mutexVars>>

FairSpec == Spec /\ WF_vars(Ticks)

-----------------------------------------------------------------------------

TypeOK ==
  /\ TaskTypeOK
  /\ count \in [Sems -> Nat]
  /\ locker \in [Mutexes -> Nat]
  /\ owner \in [Mutexes -> Tasks \cup {NULL}]

Before(l, t, u) == \E i, j \in DOMAIN l : i < j /\ l[i] = t /\ l[j] = u

-----------------------------------------------------------------------------
(* What no step may do.                                                    *)

\* No task leaves the sleep list before the time it asked for has passed.
NoEarlyWake ==
  [][\A t \in Range(sleep_list) :
       t \notin Range(sleep_list)' => owed[t] <= 0]_vars

\* A task stops being runnable only through a call of its own.
OnlySelfBlocks ==
  [][\A t \in Range(ready_list) :
       t \notin Range(ready_list)' => t = curr_task /\ ~in_tick]_vars

\* The ready list and every wait list are first come, first served: only the
\* running task may be put behind a task it was ahead of, and a waiter is
\* never woken while another one has waited longer.
FirstComeFirstServed ==
  [][/\ \A t, u \in Range(ready_list) \cap Range(ready_list)' :
          Before(ready_list, t, u) /\ t # curr_task
            => Before(ready_list', t, u)
     /\ \A o \in Waitables : \A t, u \in Range(wait_list[o]) :
          Before(wait_list[o], t, u) /\ t \in Range(wait_list[o])'
            => Before(wait_list'[o], t, u)]_vars

-----------------------------------------------------------------------------
(* What the semaphores and mutexes promise.                                *)

Semaphores ==
  INSTANCE AbstractSem WITH
    InitValue <- InitCount,
    value <- [s \in Sems |-> count[s] - Len(wait_list[s])],
    queue <- [s \in Sems |-> wait_list[s]]

\* sem.c keeps count and wait_list so that together they behave like one
\* integer that every sem_wait lowers and every sem_notify raises, with the
\* waiters served in order, whatever the scheduler does in between.
SemSpec == Semaphores!Spec

ReentrantMutexes ==
  INSTANCE AbstractMutex WITH
    held <- [m \in Mutexes |-> [t \in Tasks |->
                IF t = owner[m] THEN locker[m] ELSE 0]],
    turns <- [m \in Mutexes |-> wait_list[m]]

\* mutex.c is a reentrant lock: one holder at a time, which has it until it
\* has undone each of its lock calls, and then the longest waiter has it.
MutexSpec == ReentrantMutexes!Spec

-----------------------------------------------------------------------------
(* What must happen, whatever the tasks do.                                *)

\* Round robin: every runnable task gets the CPU.
NoStarvation ==
  \A t \in Tasks : t \in Range(ready_list) ~> curr_task = t

\* Every call of sys_sleep returns.
SleepersRun ==
  \A t \in Tasks : t \in Range(sleep_list) ~> curr_task = t

=============================================================================
