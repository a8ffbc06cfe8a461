-------------------------------- MODULE Task --------------------------------
(***************************************************************************)
(* The task manager of the kernel: kernel/core/task.c and the timer        *)
(* interrupt of kernel/dev/timer.c that drives it.                         *)
(*                                                                         *)
(* One CPU.  Every system call below runs between irq_enter_protection and *)
(* irq_leave_protection, so it is one action.  The timer handler also runs *)
(* with interrupts off, but its loop over the sleepers reads the next node *)
(* of a list it is changing; it is modelled one iteration per step, and    *)
(* in_tick keeps everything else out until the handler has dispatched.     *)
(*                                                                         *)
(* A list_t is the sequence of the tasks whose nodes it links (module      *)
(* DList shows that the pointer code behaves like these sequences).  A     *)
(* task's run_node is linked by ready_list or sleep_list, its wait_node by *)
(* the wait_list of one semaphore or mutex.                                *)
(***************************************************************************)
EXTENDS Integers, SequencesExt

CONSTANTS
  Tasks,                    \* every task_t except the idle one
  main_task,                \* task_manager.main_task
  idle_task,                \* task_manager.idle_task, never on a list
  NULL,                     \* the null pointer
  Sems,                     \* the sem_t objects
  Mutexes,                  \* the rein_mutex_t objects
  TASK_TIME_SLICE_DEFAULT,  \* ticks a task may run before it is moved back
  OS_TICKS_MS,              \* milliseconds between two timer interrupts
  UINT_MOD,                 \* 2^32 in the code: where a uint32_t wraps
  SleepMs                   \* the arguments sys_sleep is called with

ASSUME TaskAssumption ==
  /\ main_task \in Tasks
  /\ idle_task \notin Tasks
  /\ NULL \notin Tasks
  /\ NULL # idle_task
  /\ TASK_TIME_SLICE_DEFAULT \in Nat \ {0}
  /\ OS_TICKS_MS \in Nat \ {0, 1}
  /\ UINT_MOD \in Nat
  /\ UINT_MOD > OS_TICKS_MS
  /\ SleepMs \subseteq 0 .. UINT_MOD - 1
  /\ Sems \cap Mutexes = {}

Waitables == Sems \cup Mutexes

VARIABLES
  task_list,    \* every task created so far, in order of creation
  ready_list,   \* the runnable tasks; the running one is the first
  sleep_list,   \* the tasks inside sys_sleep
  wait_list,    \* per semaphore and mutex, the tasks blocked on it
  curr_task,    \* the task the CPU runs
  state,        \* task_t.state
  slice_ticks,  \* ticks left of the task's time slice
  sleep_ticks,  \* ticks left to sleep
  in_tick,      \* TRUE while the timer handler runs
  curr_node,    \* the sleeper the handler's loop looks at next
  owed          \* auxiliary: milliseconds a sleeper must still be kept

listVars  == <<task_list, ready_list, sleep_list, wait_list>>
tickVars  == <<in_tick, curr_node>>
sleepVars == <<sleep_list, sleep_ticks, owed>>
taskVars  == <<listVars, curr_task, state, slice_ticks, sleep_ticks, tickVars,
               owed>>

TaskStates == {"TASK_CREATED", "TASK_RUNNING", "TASK_SLEEP", "TASK_READY",
               "TASK_WAITTING"}

Created == Range(task_list)

-----------------------------------------------------------------------------
(* The list operations the task manager uses, on sequences.                *)

\* mutant of list_pop: takes out the last node instead of the one given
list_pop_wrong(l, n) == SubSeq(l, 1, Len(l) - 1)

list_pop(l, n) == RemoveAt(l, CHOOSE k \in DOMAIN l : l[k] = n)

list_first(l) == IF l = <<>> THEN NULL ELSE l[1]

\* n->next for a node n of l
list_node_next(l, n) ==
  LET k == CHOOSE k \in DOMAIN l : l[k] = n
  IN  IF k = Len(l) THEN NULL ELSE l[k + 1]

\* mutant of task_set_ready: list_insert_first
task_set_ready_first(l, t) == <<t>> \o l

task_set_ready(l, t) == Append(l, t)

\* mutant of ready_state: the assignment to state forgotten
ready_state_kept(st, t) == st

\* task_set_ready's effect on the task states
ready_state(st, t) == [st EXCEPT ![t] = "TASK_READY"]

task_set_block(l, t) == list_pop(l, t)

\* mutant of task_set_wakeup: the sleeper is left on the list
task_set_wakeup_not(l, t) == l

task_set_wakeup(l, t) == list_pop(l, t)

\* mutants of to_tail: the task is not put back; the task is not moved
to_tail_lost(l, t) == task_set_block(l, t)
to_tail_not(l, t) == l

\* the running task gives up its turn
to_tail(l, t) == task_set_ready(task_set_block(l, t), t)

\* task_dispatch, reached with ready list rl and task states st: run the first
\* ready task, or the idle task when there is none.  Jumping to the task that
\* already runs is skipped, and then its state is not touched either.
task_dispatch(rl, st) ==
  LET to == IF rl = <<>> THEN idle_task ELSE Head(rl)
  IN  /\ curr_task' = to
      /\ state' = IF to \in {curr_task, idle_task} THEN st
                  ELSE [st EXCEPT ![to] = "TASK_RUNNING"]

\* mutants of TicksOf: rounds down; leaves out the tick under way, too
TicksOf_down(ms) == ms \div OS_TICKS_MS + 1
TicksOf_short(ms) == ms \div OS_TICKS_MS

\* (ms + OS_TICKS_MS - 1) / OS_TICKS_MS + 1, in uint32_t arithmetic: only the
\* first sum can pass UINT_MOD
TicksOf(ms) == ((ms + OS_TICKS_MS - 1) % UINT_MOD) \div OS_TICKS_MS + 1

-----------------------------------------------------------------------------
(* What irq_enable_global in init_main starts from: task_manager_init and  *)
(* task_main_init have run, so the main task is current and ready.         *)

TaskInit ==
  /\ task_list = <<main_task>>
  /\ ready_list = <<main_task>>
  /\ sleep_list = <<>>
  /\ wait_list = [o \in Waitables |-> <<>>]
  /\ curr_task = main_task
  /\ state = [t \in Tasks |-> IF t = main_task THEN "TASK_READY"
                                               ELSE "TASK_CREATED"]
  /\ slice_ticks = [t \in Tasks |-> IF t = main_task
                                    THEN TASK_TIME_SLICE_DEFAULT ELSE 0]
  /\ sleep_ticks = [t \in Tasks |-> 0]
  /\ in_tick = FALSE
  /\ curr_node = NULL
  /\ owed = [t \in Tasks |-> 0]

\* A task, and not the timer handler or the idle loop, has the CPU.
TaskRuns == ~in_tick /\ curr_task # idle_task

\* The running task creates task t.  (Allocation of its TSS descriptor, which
\* precedes this, is not part of the task manager.)
task_init(t) ==
  /\ TaskRuns
  /\ t \notin Created
  /\ task_list' = Append(task_list, t)
  /\ ready_list' = task_set_ready(ready_list, t)
  /\ state' = ready_state(state, t)
  /\ slice_ticks' = [slice_ticks EXCEPT ![t] = TASK_TIME_SLICE_DEFAULT]
  /\ sleep_ticks' = [sleep_ticks EXCEPT ![t] = 0]
  /\ UNCHANGED <<sleep_list, wait_list, curr_task, tickVars, owed>>

\* A lone ready task keeps the CPU and nothing changes.
sys_sched_yield ==
  /\ TaskRuns
  /\ Len(ready_list) > 1
  /\ ready_list' = to_tail(ready_list, curr_task)
  /\ task_dispatch(ready_list', ready_state(state, curr_task))
  /\ UNCHANGED <<task_list, sleepVars, wait_list, slice_ticks, tickVars>>

\* task_set_sleep's early return, for 0 ticks, cannot be taken from here:
\* TicksOf(ms) is at least 1 whatever ms is.
sys_sleep(ms) ==
  /\ TaskRuns
  /\ ready_list' = task_set_block(ready_list, curr_task)
  /\ sleep_list' = Append(sleep_list, curr_task)
  /\ sleep_ticks' = [sleep_ticks EXCEPT ![curr_task] = TicksOf(ms)]
  /\ task_dispatch(ready_list', [state EXCEPT ![curr_task] = "TASK_SLEEP"])
  /\ owed' = [owed EXCEPT ![curr_task] = ms + OS_TICKS_MS]
  /\ UNCHANGED <<task_list, wait_list, slice_ticks, tickVars>>

\* mutant of tick_first: the sleepers are only looked at when a task runs
tick_first_busy == IF curr_task = idle_task THEN NULL
                   ELSE list_first(sleep_list)

tick_first == list_first(sleep_list)

\* The timer interrupt, up to the loop: charge the running task one tick, and
\* move it to the back of the ready list when its slice is used up.
tick_slice ==
  /\ ~in_tick
  /\ in_tick' = TRUE
  /\ \/ /\ curr_task = idle_task
        /\ UNCHANGED <<ready_list, state, slice_ticks>>
     \/ /\ curr_task # idle_task
        /\ slice_ticks[curr_task] # 1
        /\ slice_ticks' = [slice_ticks EXCEPT ![curr_task] = @ - 1]
        /\ UNCHANGED <<ready_list, state>>
     \/ /\ curr_task # idle_task
        /\ slice_ticks[curr_task] = 1
        /\ slice_ticks' = [slice_ticks EXCEPT
                             ![curr_task] = TASK_TIME_SLICE_DEFAULT]
        /\ ready_list' = to_tail(ready_list, curr_task)
        /\ state' = ready_state(state, curr_task)
  /\ curr_node' = tick_first
  /\ owed' = [t \in Tasks |-> IF owed[t] > OS_TICKS_MS
                              THEN owed[t] - OS_TICKS_MS ELSE 0]
  /\ UNCHANGED <<task_list, sleep_list, wait_list, curr_task, sleep_ticks>>

\* mutant of tick_next: read after the node has been moved to the end of
\* the ready list, where its next pointer is null
tick_next_late(t) == IF sleep_ticks[t] = 1 THEN NULL
                     ELSE list_node_next(sleep_list, t)

\* The node after the one looked at is read before that one can be moved.
tick_next(t) == list_node_next(sleep_list, t)

\* One iteration of the handler's loop over the sleepers.
tick_sleeper ==
  /\ in_tick
  /\ curr_node # NULL
  /\ sleep_ticks' = [sleep_ticks EXCEPT ![curr_node] = @ - 1]
  /\ \/ /\ sleep_ticks[curr_node] = 1
        /\ sleep_list' = task_set_wakeup(sleep_list, curr_node)
        /\ ready_list' = task_set_ready(ready_list, curr_node)
        /\ state' = ready_state(state, curr_node)
        /\ owed' = [owed EXCEPT ![curr_node] = 0]
     \/ /\ sleep_ticks[curr_node] # 1
        /\ UNCHANGED <<sleep_list, ready_list, state, owed>>
  /\ curr_node' = tick_next(curr_node)
  /\ UNCHANGED <<task_list, wait_list, curr_task, slice_ticks, in_tick>>

\* The end of the handler.
tick_dispatch ==
  /\ in_tick
  /\ curr_node = NULL
  /\ in_tick' = FALSE
  /\ task_dispatch(ready_list, state)
  /\ UNCHANGED <<listVars, slice_ticks, sleep_ticks, curr_node, owed>>

task_time_tick == tick_slice \/ tick_sleeper \/ tick_dispatch

TaskNext ==
  \/ \E t \in Tasks : task_init(t)
  \/ sys_sched_yield
  \/ \E ms \in SleepMs : sys_sleep(ms)
  \/ task_time_tick

-----------------------------------------------------------------------------
(* What sem.c and mutex.c do with the task manager.                        *)

\* mutant of BlockOn: task_dispatch forgotten
BlockOn_stay(o) ==
  /\ ready_list' = task_set_block(ready_list, curr_task)
  /\ wait_list' = [wait_list EXCEPT ![o] = Append(@, curr_task)]
  /\ UNCHANGED <<task_list, sleepVars, slice_ticks, tickVars, curr_task, state>>

\* Block the running task on o and run another one.
BlockOn(o) ==
  /\ ready_list' = task_set_block(ready_list, curr_task)
  /\ wait_list' = [wait_list EXCEPT ![o] = Append(@, curr_task)]
  /\ task_dispatch(ready_list', state)
  /\ UNCHANGED <<task_list, sleepVars, slice_ticks, tickVars>>

\* mutant of WakeFirst: list_pop_last
WakeLast(o) ==
  /\ ready_list' = task_set_ready(ready_list, Last(wait_list[o]))
  /\ wait_list' = [wait_list EXCEPT ![o] = Front(@)]
  /\ UNCHANGED <<task_list, sleepVars, slice_ticks, tickVars>>

\* Take the longest waiter of o off its wait list and make it ready.
WakeFirst(o) ==
  /\ ready_list' = task_set_ready(ready_list, Head(wait_list[o]))
  /\ wait_list' = [wait_list EXCEPT ![o] = Tail(@)]
  /\ UNCHANGED <<task_list, sleepVars, slice_ticks, tickVars>>

-----------------------------------------------------------------------------
(* What the task manager keeps up, whatever calls it.                      *)

TaskTypeOK ==
  /\ task_list \in Seq(Tasks)
  /\ ready_list \in Seq(Tasks)
  /\ sleep_list \in Seq(Tasks)
  /\ wait_list \in [Waitables -> Seq(Tasks)]
  /\ curr_task \in Tasks \cup {idle_task}
  /\ state \in [Tasks -> TaskStates]
  /\ slice_ticks \in [Tasks -> 0 .. TASK_TIME_SLICE_DEFAULT]
  /\ sleep_ticks \in [Tasks -> Nat]
  /\ in_tick \in BOOLEAN
  /\ curr_node \in Tasks \cup {NULL}
  /\ owed \in [Tasks -> Nat]

\* The lists of the kernel: run_node is in at most one of ready_list and
\* sleep_list, wait_node in at most one wait_list, a task is never runnable
\* and blocked at once, and a task that was created is never lost.  This is
\* what makes each list_pop of task.c remove a node that is on the list it
\* names, and each insertion insert a node that is on no list.
NoRepeats ==
  /\ IsInjective(ready_list)
  /\ IsInjective(sleep_list)
  /\ \A o \in Waitables : IsInjective(wait_list[o])

Disjoint ==
  /\ Range(ready_list) \cap Range(sleep_list) = {}
  /\ \A o \in Waitables :
       /\ Range(wait_list[o]) \cap Range(ready_list) = {}
       /\ Range(wait_list[o]) \cap Range(sleep_list) = {}
  /\ \A o, p \in Waitables :
       o # p => Range(wait_list[o]) \cap Range(wait_list[p]) = {}

NoneLost ==
  \A t \in Tasks :
    t \in Created <=> \/ t \in Range(ready_list)
                      \/ t \in Range(sleep_list)
                      \/ \E o \in Waitables : t \in Range(wait_list[o])

OneQueue == NoRepeats /\ Disjoint /\ NoneLost

\* Outside the timer handler the running task is the first of ready_list, and
\* the idle task runs exactly when ready_list is empty.  task_set_block and
\* task_dispatch rely on it: the task that blocks is on ready_list, and the
\* task jumped to never has the busy TSS of the one that runs.
CurrIsHead ==
  ~in_tick => curr_task = IF ready_list = <<>> THEN idle_task
                                               ELSE Head(ready_list)

\* Inside the handler the interrupted task may have been moved, and sleepers
\* may have been made ready, but a task that was running is still ready, and
\* the node the loop is about to visit is still a sleeper.
TickConsistent ==
  /\ curr_task # idle_task => curr_task \in Range(ready_list)
  /\ curr_node # NULL => in_tick /\ curr_node \in Range(sleep_list)

\* task_t.state tells the truth about sleepers and about ready tasks that do
\* not run.  (It says nothing reliable of the running task, which may be
\* TASK_READY, or of the tasks blocked on a semaphore or mutex.)
StateAgrees ==
  \A t \in Tasks :
    /\ state[t] = "TASK_SLEEP" <=> t \in Range(sleep_list)
    /\ t \in Range(ready_list) /\ t # curr_task => state[t] = "TASK_READY"

\* A sleeper is kept until the first tick at which the milliseconds it asked
\* for have certainly passed.  The tick under way when it calls sys_sleep may
\* be almost over, so that one more tick than ms / OS_TICKS_MS is owed.
SleepPunctual ==
  ~in_tick => \A t \in Range(sleep_list) : owed[t] > 0

\* A created task has ticks left of its slice and a sleeper has ticks left to
\* sleep, so that the decrements of task_time_tick never pass zero.
TicksLeft ==
  /\ \A t \in Created : slice_ticks[t] > 0
  /\ \A t \in Range(sleep_list) : sleep_ticks[t] > 0

=============================================================================
