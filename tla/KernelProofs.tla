---------------------------- MODULE KernelProofs ----------------------------
(***************************************************************************)
(* Proofs about modules Task, Sem, Mutex and Kernel, for any number of     *)
(* tasks, semaphores and mutexes and any slice and tick length.            *)
(*                                                                         *)
(* First, each call of the task manager, the semaphores and the mutexes    *)
(* keeps the kernel's lists consistent and loses no wakeup, whatever       *)
(* program makes the calls; then the theorems about the kernel as a whole: *)
(* tasks that call anything at any time, and the timer.                    *)
(*                                                                         *)
(* No conjunct of IInv is inductive alone.  That a task is on one list     *)
(* only (OneQueue) needs that the task that blocks is on ready_list, hence *)
(* CurrIsHead, and inside the timer handler TickConsistent; that the loop  *)
(* of the handler stays on sleep_list needs OneQueue; the types of the     *)
(* counters need TicksLeft.                                                *)
(***************************************************************************)
EXTENDS Kernel, ListLemmas

\* What the task manager keeps up by itself.
SchedInv ==
  /\ TaskTypeOK
  /\ OneQueue
  /\ CurrIsHead
  /\ TickConsistent
  /\ TicksLeft

\* What sem.c and mutex.c keep up on top of it.
IpcInv ==
  /\ count \in [Sems -> Nat]
  /\ locker \in [Mutexes -> Nat]
  /\ owner \in [Mutexes -> Tasks \cup {NULL}]
  /\ SemNoLostWakeup
  /\ MutexNoLostWakeup

IInv == SchedInv /\ IpcInv

-----------------------------------------------------------------------------
(* The list operations of task.c.                                          *)

\* list_pop takes exactly the node it is given off a list that holds it.
LEMMA ListPop ==
  ASSUME NEW l \in Seq(Tasks), IsInjective(l), NEW n \in Range(l)
  PROVE  /\ list_pop(l, n) \in Seq(Tasks)
         /\ IsInjective(list_pop(l, n))
         /\ Range(list_pop(l, n)) = Range(l) \ {n}
<1> DEFINE k == CHOOSE k \in DOMAIN l : l[k] = n
<1>1. k \in DOMAIN l /\ l[k] = n
  BY DEF Range
<1>2. DOMAIN l = 1 .. Len(l)
  BY LenProperties
<1>3. list_pop(l, n) = RemoveAt(l, k)
  BY DEF list_pop
<1> HIDE DEF k
<1> QED
  BY <1>1, <1>2, <1>3, RemoveAtProperties, RemoveAtInjective

\* The node after one of a list is another node of that list, or none.
LEMMA ListNodeNext ==
  ASSUME NEW l \in Seq(Tasks), IsInjective(l), NEW n \in Range(l)
  PROVE  list_node_next(l, n) \in (Range(l) \ {n}) \cup {NULL}
<1> DEFINE k == CHOOSE k \in DOMAIN l : l[k] = n
<1>1. k \in DOMAIN l /\ l[k] = n
  BY DEF Range
<1>2. DOMAIN l = 1 .. Len(l) /\ Len(l) \in Nat
  BY LenProperties
<1>3. list_node_next(l, n) = IF k = Len(l) THEN NULL ELSE l[k + 1]
  BY DEF list_node_next
<1> HIDE DEF k
<1>4. k # Len(l) => k + 1 \in DOMAIN l
  BY <1>1, <1>2
<1>5. k + 1 # k
  BY <1>1, <1>2
<1> QED
  BY <1>1, <1>3, <1>4, <1>5 DEF Range, IsInjective

\* Moving a task to the tail keeps the members of the list.
LEMMA ToTail ==
  ASSUME NEW l \in Seq(Tasks), IsInjective(l), NEW n \in Range(l)
  PROVE  /\ to_tail(l, n) \in Seq(Tasks)
         /\ IsInjective(to_tail(l, n))
         /\ Range(to_tail(l, n)) = Range(l)
         /\ to_tail(l, n) # <<>>
<1> DEFINE r == list_pop(l, n)
<1>1. r \in Seq(Tasks) /\ IsInjective(r) /\ Range(r) = Range(l) \ {n}
  BY ListPop
<1>2. n \in Tasks
  BY RangeOfSeq
<1>3. to_tail(l, n) = Append(r, n)
  BY DEF to_tail, task_set_ready, task_set_block
<1> HIDE DEF r
<1>4. /\ Append(r, n) \in Seq(Tasks)
      /\ Append(r, n) # <<>>
      /\ Range(Append(r, n)) = Range(r) \cup {n}
  BY <1>1, <1>2, AppendRange
<1>5. IsInjective(Append(r, n))
  BY <1>1, <1>2, AppendInjectiveSeq
<1> QED
  BY <1>1, <1>3, <1>4, <1>5

\* task_dispatch runs the head of the ready list, or the idle task.
LEMMA Dispatch ==
  ASSUME NEW rl \in Seq(Tasks), NEW st \in [Tasks -> TaskStates],
         task_dispatch(rl, st)
  PROVE  /\ curr_task' = IF rl = <<>> THEN idle_task ELSE Head(rl)
         /\ curr_task' \in Tasks \cup {idle_task}
         /\ curr_task' # idle_task => curr_task' \in Range(rl)
         /\ state' \in [Tasks -> TaskStates]
<1>1. curr_task' = IF rl = <<>> THEN idle_task ELSE Head(rl)
  BY DEF task_dispatch
<1>2. rl # <<>> => Head(rl) \in Tasks /\ Head(rl) \in Range(rl)
  <2>1. rl # <<>> => Len(rl) \in Nat \ {0}
    BY EmptySeq
  <2>2. rl # <<>> => 1 \in DOMAIN rl /\ Head(rl) = rl[1]
    BY <2>1, LenProperties
  <2> QED
    BY <2>2, HeadTailProperties DEF Range
<1>3. state' \in [Tasks -> TaskStates]
  BY DEF task_dispatch, TaskStates
<1> QED
  BY <1>1, <1>2, <1>3

\* The running task is the head of the ready list, and on no other list.
LEMMA RunningIsReady ==
  ASSUME SchedInv, TaskRuns
  PROVE  /\ curr_task \in Tasks
         /\ curr_task \in Range(ready_list)
         /\ ready_list \in Seq(Tasks)
         /\ ready_list # <<>>
         /\ IsInjective(ready_list)
         /\ curr_task = Head(ready_list)
         /\ curr_task \notin Range(sleep_list)
         /\ \A o \in Waitables : curr_task \notin Range(wait_list[o])
BY TaskAssumption
   DEF SchedInv, TaskTypeOK, TaskRuns, TickConsistent, CurrIsHead,
       OneQueue, NoRepeats, Disjoint

\* The lists are sequences of tasks, without repetitions.
LEMMA ListTypes ==
  ASSUME SchedInv
  PROVE  /\ ready_list \in Seq(Tasks) /\ IsInjective(ready_list)
         /\ Range(ready_list) \subseteq Tasks
         /\ sleep_list \in Seq(Tasks) /\ IsInjective(sleep_list)
         /\ Range(sleep_list) \subseteq Tasks
         /\ Range(ready_list) \cap Range(sleep_list) = {}
         /\ \A o \in Waitables :
              /\ wait_list[o] \in Seq(Tasks) /\ IsInjective(wait_list[o])
              /\ Range(wait_list[o]) \subseteq Tasks
<1>1. /\ ready_list \in Seq(Tasks) /\ IsInjective(ready_list)
      /\ sleep_list \in Seq(Tasks) /\ IsInjective(sleep_list)
      /\ Range(ready_list) \cap Range(sleep_list) = {}
      /\ \A o \in Waitables :
           wait_list[o] \in Seq(Tasks) /\ IsInjective(wait_list[o])
  BY DEF SchedInv, TaskTypeOK, OneQueue, NoRepeats, Disjoint
<1>2. \A l \in Seq(Tasks) : Range(l) \subseteq Tasks
  BY RangeOfSeq
<1> QED
  BY <1>1, <1>2

\* sys_sleep always sleeps for at least one tick.
LEMMA TicksOfPositive ==
  ASSUME NEW ms \in SleepMs
  PROVE  TicksOf(ms) \in Nat /\ TicksOf(ms) > 0
<1>1. /\ ms \in Nat
      /\ OS_TICKS_MS \in Nat /\ OS_TICKS_MS > 0
      /\ UINT_MOD \in Nat /\ UINT_MOD > 0
  BY TaskAssumption
<1> DEFINE sum == (ms + OS_TICKS_MS - 1) % UINT_MOD
<1>2. sum \in Nat
  BY <1>1
<1> HIDE DEF sum
<1>3. sum \div OS_TICKS_MS \in Nat
  BY <1>1, <1>2
<1>4. TicksOf(ms) = sum \div OS_TICKS_MS + 1
  BY DEF TicksOf, sum
<1> QED
  BY <1>3, <1>4

-----------------------------------------------------------------------------
(* The state in which init_main enables interrupts.                        *)

\* The first state satisfies the invariant.
LEMMA InitIInv == TaskInit /\ sem_init /\ rein_mutex_init => IInv
<1> SUFFICES ASSUME TaskInit, sem_init, rein_mutex_init PROVE IInv
  OBVIOUS
<1> USE TaskAssumption, SemAssumption, MutexAssumption
        DEF TaskInit, sem_init, rein_mutex_init
<1>1. <<main_task>> \in Seq(Tasks) /\ <<>> \in Seq(Tasks)
  OBVIOUS
<1>2. Range(<<main_task>>) = {main_task}
  BY DEF Range
<1>3. IsInjective(<<main_task>>)
  BY DEF IsInjective
<1>4. TaskTypeOK
  <2>1. in_tick \in BOOLEAN
    OBVIOUS
  <2>2. state \in [Tasks -> TaskStates]
    BY DEF TaskStates
  <2>3. slice_ticks \in [Tasks -> 0 .. TASK_TIME_SLICE_DEFAULT]
    OBVIOUS
  <2>4. /\ task_list \in Seq(Tasks)
        /\ ready_list \in Seq(Tasks)
        /\ sleep_list \in Seq(Tasks)
        /\ wait_list \in [Waitables -> Seq(Tasks)]
        /\ curr_task \in Tasks \cup {idle_task}
    BY <1>1
  <2>5. /\ sleep_ticks \in [Tasks -> Nat]
        /\ curr_node \in Tasks \cup {NULL}
        /\ owed \in [Tasks -> Nat]
    OBVIOUS
  <2> QED
    BY <2>1, <2>2, <2>3, <2>4, <2>5 DEF TaskTypeOK
<1>5. OneQueue
  BY <1>2, <1>3, EmptyList DEF OneQueue, NoRepeats, Disjoint, NoneLost, Created
<1>6. CurrIsHead /\ TickConsistent
  BY <1>2 DEF CurrIsHead, TickConsistent
<1>7. TicksLeft
  BY <1>2, EmptyList DEF TicksLeft, Created
<1>8. /\ count \in [Sems -> Nat]
      /\ locker \in [Mutexes -> Nat]
      /\ owner \in [Mutexes -> Tasks \cup {NULL}]
  OBVIOUS
<1>9. SemNoLostWakeup /\ MutexNoLostWakeup
  BY EmptyList DEF SemNoLostWakeup, MutexNoLostWakeup, Waitables
<1> QED
  BY <1>4, <1>5, <1>6, <1>7, <1>8, <1>9 DEF IInv, SchedInv, IpcInv

-----------------------------------------------------------------------------
(* Each action of the task manager keeps SchedInv.                         *)

\* Creating a task.
LEMMA TaskInitStep ==
  ASSUME SchedInv, NEW t \in Tasks, task_init(t)
  PROVE  SchedInv'
<1> USE DEF SchedInv
<1>1. curr_task \in Range(ready_list) /\ ready_list # <<>>
  BY RunningIsReady DEF task_init
<1>2. /\ ready_list \in Seq(Tasks) /\ IsInjective(ready_list)
      /\ task_list \in Seq(Tasks)
      /\ t \notin Range(ready_list) /\ t \notin Range(sleep_list)
      /\ \A o \in Waitables : t \notin Range(wait_list[o])
  BY DEF TaskTypeOK, OneQueue, NoRepeats, NoneLost, task_init
<1>3. /\ ready_list' = Append(ready_list, t)
      /\ task_list' = Append(task_list, t)
  BY DEF task_init, task_set_ready
<1>4. /\ ready_list' \in Seq(Tasks)
      /\ ready_list' # <<>>
      /\ IsInjective(ready_list')
      /\ Range(ready_list') = Range(ready_list) \cup {t}
      /\ Head(ready_list') = Head(ready_list)
  BY <1>1, <1>2, <1>3, AppendRange, AppendInjectiveSeq
<1>5. task_list' \in Seq(Tasks) /\ Range(task_list') = Range(task_list) \cup {t}
  BY <1>2, <1>3, AppendRange
<1>6. TaskTypeOK'
  <2>1. state' \in [Tasks -> TaskStates]
    BY DEF TaskTypeOK, task_init, ready_state, TaskStates
  <2>2. slice_ticks' \in [Tasks -> 0 .. TASK_TIME_SLICE_DEFAULT]
    BY TaskAssumption DEF TaskTypeOK, task_init
  <2>3. sleep_ticks' \in [Tasks -> Nat]
    BY DEF TaskTypeOK, task_init
  <2> QED
    BY <1>4, <1>5, <2>1, <2>2, <2>3 DEF TaskTypeOK, task_init, tickVars
<1>7. OneQueue'
  <2>1. NoRepeats'
    BY <1>4 DEF OneQueue, NoRepeats, task_init
  <2>2. Disjoint'
    BY <1>2, <1>4 DEF OneQueue, Disjoint, task_init
  <2>3. NoneLost'
    BY <1>4, <1>5 DEF OneQueue, NoneLost, Created, task_init
  <2> QED
    BY <2>1, <2>2, <2>3 DEF OneQueue
<1>8. CurrIsHead' /\ TickConsistent'
  BY <1>1, <1>4 DEF CurrIsHead, TickConsistent, task_init, tickVars
<1>9. TicksLeft'
  BY <1>2, <1>5, TaskAssumption DEF TicksLeft, Created, task_init, TaskTypeOK
<1> QED
  BY <1>6, <1>7, <1>8, <1>9

\* Giving up the CPU.
LEMMA YieldStep ==
  ASSUME SchedInv, sys_sched_yield
  PROVE  SchedInv'
<1> USE DEF SchedInv
<1>1. /\ ready_list' \in Seq(Tasks)
      /\ IsInjective(ready_list')
      /\ Range(ready_list') = Range(ready_list)
      /\ ready_list' # <<>>
  BY RunningIsReady, ToTail DEF sys_sched_yield
<1>2. ready_state(state, curr_task) \in [Tasks -> TaskStates]
  BY RunningIsReady DEF sys_sched_yield, TaskTypeOK, ready_state, TaskStates
<1>3. /\ curr_task' = Head(ready_list')
      /\ curr_task' \in Tasks \cup {idle_task}
      /\ curr_task' # idle_task => curr_task' \in Range(ready_list')
      /\ state' \in [Tasks -> TaskStates]
  BY <1>1, <1>2, Dispatch DEF sys_sched_yield
<1>4. TaskTypeOK'
  BY <1>1, <1>3 DEF TaskTypeOK, sys_sched_yield, sleepVars, tickVars
<1>5. OneQueue'
  BY <1>1 DEF OneQueue, NoRepeats, Disjoint, NoneLost, Created,
              sys_sched_yield, sleepVars
<1>6. CurrIsHead' /\ TickConsistent'
  BY <1>1, <1>3 DEF CurrIsHead, TickConsistent, sys_sched_yield, sleepVars,
                    tickVars
<1>7. TicksLeft'
  BY DEF TicksLeft, Created, sys_sched_yield, sleepVars
<1> QED
  BY <1>4, <1>5, <1>6, <1>7

\* Going to sleep.
LEMMA SleepStep ==
  ASSUME SchedInv, NEW ms \in SleepMs, sys_sleep(ms)
  PROVE  SchedInv'
<1> USE DEF SchedInv
<1>1. /\ curr_task \in Tasks
      /\ curr_task \in Range(ready_list)
      /\ curr_task \notin Range(sleep_list)
      /\ \A o \in Waitables : curr_task \notin Range(wait_list[o])
  BY RunningIsReady DEF sys_sleep
<1>2. /\ ready_list' \in Seq(Tasks)
      /\ IsInjective(ready_list')
      /\ Range(ready_list') = Range(ready_list) \ {curr_task}
  BY RunningIsReady, ListPop DEF sys_sleep, task_set_block
<1>3. /\ sleep_list' \in Seq(Tasks)
      /\ IsInjective(sleep_list')
      /\ Range(sleep_list') = Range(sleep_list) \cup {curr_task}
  BY <1>1, AppendRange, AppendInjectiveSeq
     DEF sys_sleep, TaskTypeOK, OneQueue, NoRepeats
<1>4. /\ curr_task' = IF ready_list' = <<>> THEN idle_task
                                            ELSE Head(ready_list')
      /\ curr_task' \in Tasks \cup {idle_task}
      /\ curr_task' # idle_task => curr_task' \in Range(ready_list')
      /\ state' \in [Tasks -> TaskStates]
  <2>1. [state EXCEPT ![curr_task] = "TASK_SLEEP"] \in [Tasks -> TaskStates]
    BY <1>1 DEF TaskTypeOK, TaskStates
  <2> QED
    BY <2>1, <1>2, Dispatch DEF sys_sleep
<1>5. /\ sleep_ticks' \in [Tasks -> Nat]
      /\ owed' \in [Tasks -> Nat]
  <2>1. ms \in Nat /\ OS_TICKS_MS \in Nat
    BY TaskAssumption
  <2> QED
    BY <2>1, <1>1, TicksOfPositive DEF sys_sleep, TaskTypeOK
<1>6. TaskTypeOK'
  BY <1>2, <1>3, <1>4, <1>5 DEF TaskTypeOK, sys_sleep, tickVars
<1>7. OneQueue'
  <2>1. NoRepeats'
    BY <1>2, <1>3 DEF OneQueue, NoRepeats, sys_sleep
  <2>2. Disjoint'
    BY <1>1, <1>2, <1>3 DEF OneQueue, Disjoint, sys_sleep
  <2>3. NoneLost'
    BY <1>1, <1>2, <1>3 DEF OneQueue, NoneLost, Created, sys_sleep
  <2> QED
    BY <2>1, <2>2, <2>3 DEF OneQueue
<1>8. CurrIsHead' /\ TickConsistent'
  BY <1>3, <1>4 DEF CurrIsHead, TickConsistent, sys_sleep, tickVars
<1>9. TicksLeft'
  BY <1>1, <1>3, TicksOfPositive
     DEF TicksLeft, Created, sys_sleep, TaskTypeOK
<1> QED
  BY <1>6, <1>7, <1>8, <1>9

\* The timer handler up to its loop.
LEMMA TickSliceStep ==
  ASSUME SchedInv, tick_slice
  PROVE  SchedInv'
<1> USE DEF SchedInv
<1>1. /\ ready_list' \in Seq(Tasks)
      /\ IsInjective(ready_list')
      /\ Range(ready_list') = Range(ready_list)
      /\ state' \in [Tasks -> TaskStates]
      /\ slice_ticks' \in [Tasks -> 0 .. TASK_TIME_SLICE_DEFAULT]
      /\ \A t \in Created : slice_ticks'[t] > 0
  <2>1. CASE UNCHANGED <<ready_list, state, slice_ticks>>
    BY <2>1 DEF TaskTypeOK, OneQueue, NoRepeats, TicksLeft
  <2> SUFFICES ASSUME curr_task # idle_task,
                      ~UNCHANGED <<ready_list, state, slice_ticks>>
               PROVE  <1>1!:
    BY <2>1 DEF tick_slice
  <2>2. /\ curr_task \in Tasks
        /\ curr_task \in Range(ready_list)
        /\ curr_task \in Created
        /\ slice_ticks[curr_task] \in 1 .. TASK_TIME_SLICE_DEFAULT
    BY TaskAssumption
       DEF TaskTypeOK, TickConsistent, OneQueue, NoneLost, TicksLeft
  <2>3. CASE slice_ticks[curr_task] # 1
    <3>1. /\ slice_ticks' = [slice_ticks EXCEPT ![curr_task] = @ - 1]
          /\ UNCHANGED <<ready_list, state>>
      BY <2>3 DEF tick_slice
    <3>2. slice_ticks[curr_task] - 1 \in 1 .. TASK_TIME_SLICE_DEFAULT
      BY <2>2, <2>3, TaskAssumption
    <3> QED
      BY <3>1, <3>2, <2>2 DEF TaskTypeOK, OneQueue, NoRepeats, TicksLeft
  <2>4. CASE slice_ticks[curr_task] = 1
    <3>1. /\ slice_ticks' = [slice_ticks EXCEPT
                               ![curr_task] = TASK_TIME_SLICE_DEFAULT]
          /\ ready_list' = to_tail(ready_list, curr_task)
          /\ state' = ready_state(state, curr_task)
      BY <2>4 DEF tick_slice
    <3>2. /\ ready_list' \in Seq(Tasks)
          /\ IsInjective(ready_list')
          /\ Range(ready_list') = Range(ready_list)
      BY <3>1, <2>2, ToTail DEF TaskTypeOK, OneQueue, NoRepeats
    <3>3. state' \in [Tasks -> TaskStates]
      BY <3>1, <2>2 DEF TaskTypeOK, ready_state, TaskStates
    <3>4. /\ slice_ticks' \in [Tasks -> 0 .. TASK_TIME_SLICE_DEFAULT]
          /\ \A t \in Created : slice_ticks'[t] > 0
      BY <3>1, <2>2, TaskAssumption DEF TaskTypeOK, TicksLeft
    <3> QED
      BY <3>2, <3>3, <3>4
  <2> QED
    BY <2>3, <2>4
<1>2. /\ curr_node' \in Tasks \cup {NULL}
      /\ curr_node' # NULL => curr_node' \in Range(sleep_list)
  <2>1. CASE sleep_list = <<>>
    BY <2>1 DEF tick_slice, tick_first, list_first
  <2>2. CASE sleep_list # <<>>
    <3>1. curr_node' = Head(sleep_list)
      BY <2>2 DEF tick_slice, tick_first, list_first, TaskTypeOK
    <3> QED
      BY <3>1, <2>2, TailInjective, HeadTailProperties
         DEF TaskTypeOK, OneQueue, NoRepeats
  <2> QED
    BY <2>1, <2>2
<1>3. owed' \in [Tasks -> Nat]
  <2>1. \A t \in Tasks :
          (IF owed[t] > OS_TICKS_MS THEN owed[t] - OS_TICKS_MS ELSE 0) \in Nat
    BY TaskAssumption DEF TaskTypeOK
  <2> QED
    BY <2>1 DEF tick_slice
<1>4. TaskTypeOK'
  BY <1>1, <1>2, <1>3 DEF TaskTypeOK, tick_slice
<1>5. OneQueue'
  BY <1>1 DEF OneQueue, NoRepeats, Disjoint, NoneLost, Created, tick_slice
<1>6. CurrIsHead' /\ TickConsistent'
  BY <1>1, <1>2 DEF CurrIsHead, TickConsistent, tick_slice
<1>7. TicksLeft'
  BY <1>1 DEF TicksLeft, Created, tick_slice
<1> QED
  BY <1>4, <1>5, <1>6, <1>7

\* One iteration of the handler's loop.
LEMMA TickSleeperStep ==
  ASSUME SchedInv, tick_sleeper
  PROVE  SchedInv'
<1> USE DEF SchedInv
<1>1. /\ in_tick
      /\ curr_node \in Tasks
      /\ curr_node \in Range(sleep_list)
      /\ sleep_ticks[curr_node] \in Nat \ {0}
      /\ sleep_list \in Seq(Tasks) /\ IsInjective(sleep_list)
      /\ ready_list \in Seq(Tasks) /\ IsInjective(ready_list)
      /\ curr_node \notin Range(ready_list)
      /\ \A o \in Waitables : curr_node \notin Range(wait_list[o])
  BY DEF tick_sleeper, TaskTypeOK, TickConsistent, OneQueue, NoRepeats,
         Disjoint, TicksLeft
<1>2. curr_node' \in (Range(sleep_list) \ {curr_node}) \cup {NULL}
  BY <1>1, ListNodeNext DEF tick_sleeper, tick_next
<1>3. curr_node' \in Tasks \cup {NULL}
  BY <1>1, <1>2, RangeOfSeq
<1>4. /\ sleep_ticks' \in [Tasks -> Nat]
      /\ sleep_ticks'[curr_node] = sleep_ticks[curr_node] - 1
      /\ \A t \in Tasks \ {curr_node} : sleep_ticks'[t] = sleep_ticks[t]
  BY <1>1 DEF tick_sleeper, TaskTypeOK
<1>5. CASE sleep_ticks[curr_node] # 1
  <2>1. UNCHANGED <<sleep_list, ready_list, state, owed>>
    BY <1>5 DEF tick_sleeper
  <2>2. TaskTypeOK'
    BY <2>1, <1>3, <1>4 DEF TaskTypeOK, tick_sleeper
  <2>3. OneQueue'
    BY <2>1 DEF OneQueue, NoRepeats, Disjoint, NoneLost, Created, tick_sleeper
  <2>4. CurrIsHead' /\ TickConsistent'
    BY <2>1, <1>1, <1>2 DEF CurrIsHead, TickConsistent, tick_sleeper
  <2>5. TicksLeft'
    <3>1. sleep_ticks'[curr_node] > 0
      BY <1>1, <1>4, <1>5
    <3>2. Range(sleep_list) \subseteq Tasks
      BY <1>1, RangeOfSeq
    <3> QED
      BY <2>1, <3>1, <3>2, <1>4 DEF TicksLeft, Created, tick_sleeper
  <2> QED
    BY <2>2, <2>3, <2>4, <2>5
<1>6. CASE sleep_ticks[curr_node] = 1
  <2>1. /\ sleep_list' = list_pop(sleep_list, curr_node)
        /\ ready_list' = Append(ready_list, curr_node)
        /\ state' = ready_state(state, curr_node)
        /\ owed' = [owed EXCEPT ![curr_node] = 0]
    BY <1>6 DEF tick_sleeper, task_set_wakeup, task_set_ready
  <2>2. /\ sleep_list' \in Seq(Tasks)
        /\ IsInjective(sleep_list')
        /\ Range(sleep_list') = Range(sleep_list) \ {curr_node}
    BY <2>1, <1>1, ListPop
  <2>3. /\ ready_list' \in Seq(Tasks)
        /\ IsInjective(ready_list')
        /\ Range(ready_list') = Range(ready_list) \cup {curr_node}
    BY <2>1, <1>1, AppendRange, AppendInjectiveSeq
  <2>4. state' \in [Tasks -> TaskStates] /\ owed' \in [Tasks -> Nat]
    BY <2>1, <1>1 DEF TaskTypeOK, ready_state, TaskStates
  <2>5. TaskTypeOK'
    BY <2>2, <2>3, <2>4, <1>3, <1>4 DEF TaskTypeOK, tick_sleeper
  <2>6. OneQueue'
    <3>1. NoRepeats'
      BY <2>2, <2>3 DEF OneQueue, NoRepeats, tick_sleeper
    <3>2. Disjoint'
      <4>1. UNCHANGED wait_list
        BY DEF tick_sleeper
      <4> QED
        BY <4>1, <2>2, <2>3, <1>1 DEF OneQueue, Disjoint
    <3>3. NoneLost'
      BY <2>2, <2>3, <1>1 DEF OneQueue, NoneLost, Created, tick_sleeper
    <3> QED
      BY <3>1, <3>2, <3>3 DEF OneQueue
  <2>7. CurrIsHead' /\ TickConsistent'
    BY <2>2, <2>3, <1>1, <1>2 DEF CurrIsHead, TickConsistent, tick_sleeper
  <2>8. TicksLeft'
    <3>1. Range(sleep_list) \subseteq Tasks
      BY <1>1, RangeOfSeq
    <3> QED
      BY <2>2, <3>1, <1>4 DEF TicksLeft, Created, tick_sleeper
  <2> QED
    BY <2>5, <2>6, <2>7, <2>8
<1> QED
  BY <1>5, <1>6

\* The end of the handler.
LEMMA TickDispatchStep ==
  ASSUME SchedInv, tick_dispatch
  PROVE  SchedInv'
<1> USE DEF SchedInv
<1>1. /\ curr_task' = IF ready_list = <<>> THEN idle_task ELSE Head(ready_list)
      /\ curr_task' \in Tasks \cup {idle_task}
      /\ curr_task' # idle_task => curr_task' \in Range(ready_list)
      /\ state' \in [Tasks -> TaskStates]
  BY Dispatch DEF tick_dispatch, TaskTypeOK
<1>2. TaskTypeOK'
  BY <1>1 DEF TaskTypeOK, tick_dispatch, listVars
<1>3. OneQueue'
  BY DEF OneQueue, NoRepeats, Disjoint, NoneLost, Created, tick_dispatch,
         listVars
<1>4. CurrIsHead' /\ TickConsistent'
  BY <1>1 DEF CurrIsHead, TickConsistent, tick_dispatch, listVars
<1>5. TicksLeft'
  BY DEF TicksLeft, Created, tick_dispatch, listVars
<1> QED
  BY <1>2, <1>3, <1>4, <1>5

\* Blocking on a semaphore or mutex.
LEMMA BlockOnStep ==
  ASSUME SchedInv, TaskRuns, NEW o \in Waitables, BlockOn(o)
  PROVE  SchedInv'
<1> USE DEF SchedInv
<1>1. /\ curr_task \in Tasks
      /\ curr_task \in Range(ready_list)
      /\ curr_task \notin Range(sleep_list)
      /\ \A p \in Waitables : curr_task \notin Range(wait_list[p])
  BY RunningIsReady
<1>2. /\ ready_list' \in Seq(Tasks)
      /\ IsInjective(ready_list')
      /\ Range(ready_list') = Range(ready_list) \ {curr_task}
  BY RunningIsReady, ListPop DEF BlockOn, task_set_block
<1>3. /\ wait_list' \in [Waitables -> Seq(Tasks)]
      /\ IsInjective(wait_list'[o])
      /\ Range(wait_list'[o]) = Range(wait_list[o]) \cup {curr_task}
      /\ \A p \in Waitables \ {o} : wait_list'[p] = wait_list[p]
  <2>1. wait_list[o] \in Seq(Tasks) /\ IsInjective(wait_list[o])
    BY DEF TaskTypeOK, OneQueue, NoRepeats
  <2>2. /\ Append(wait_list[o], curr_task) \in Seq(Tasks)
        /\ IsInjective(Append(wait_list[o], curr_task))
        /\ Range(Append(wait_list[o], curr_task))
             = Range(wait_list[o]) \cup {curr_task}
    BY <2>1, <1>1, AppendRange, AppendInjectiveSeq
  <2> QED
    BY <2>2 DEF BlockOn, TaskTypeOK
<1>4. /\ curr_task' = IF ready_list' = <<>> THEN idle_task
                                            ELSE Head(ready_list')
      /\ curr_task' \in Tasks \cup {idle_task}
      /\ curr_task' # idle_task => curr_task' \in Range(ready_list')
      /\ state' \in [Tasks -> TaskStates]
  BY <1>2, Dispatch DEF BlockOn, TaskTypeOK
<1>5. TaskTypeOK'
  BY <1>2, <1>3, <1>4 DEF TaskTypeOK, BlockOn, sleepVars, tickVars
<1>6. OneQueue'
  <2>1. NoRepeats'
    BY <1>2, <1>3 DEF OneQueue, NoRepeats, BlockOn, sleepVars
  <2>2. Disjoint'
    BY <1>1, <1>2, <1>3 DEF OneQueue, Disjoint, BlockOn, sleepVars
  <2>3. NoneLost'
    BY <1>1, <1>2, <1>3 DEF OneQueue, NoneLost, Created, BlockOn, sleepVars
  <2> QED
    BY <2>1, <2>2, <2>3 DEF OneQueue
<1>7. CurrIsHead' /\ TickConsistent'
  BY <1>4 DEF CurrIsHead, TickConsistent, BlockOn, sleepVars, tickVars
<1>8. TicksLeft'
  BY DEF TicksLeft, Created, BlockOn, sleepVars
<1> QED
  BY <1>5, <1>6, <1>7, <1>8

\* Waking the longest waiter, whether or not a dispatch follows.
LEMMA WakeFirstStep ==
  ASSUME SchedInv, TaskRuns, NEW o \in Waitables, wait_list[o] # <<>>,
         WakeFirst(o),
         \/ /\ state' = ready_state(state, Head(wait_list[o]))
            /\ UNCHANGED curr_task
         \/ task_dispatch(ready_list', ready_state(state, Head(wait_list[o])))
  PROVE  SchedInv'
<1> USE DEF SchedInv
<1> DEFINE w == Head(wait_list[o])
<1>1. /\ wait_list[o] \in Seq(Tasks)
      /\ IsInjective(wait_list[o])
  BY DEF TaskTypeOK, OneQueue, NoRepeats
<1>2. /\ w \in Tasks
      /\ w \in Range(wait_list[o])
      /\ Tail(wait_list[o]) \in Seq(Tasks)
      /\ IsInjective(Tail(wait_list[o]))
      /\ Range(Tail(wait_list[o])) = Range(wait_list[o]) \ {w}
  BY <1>1, TailInjective, HeadTailProperties
<1>3. w \notin Range(ready_list) /\ w \notin Range(sleep_list)
  BY <1>2 DEF OneQueue, Disjoint
<1>4. /\ wait_list' \in [Waitables -> Seq(Tasks)]
      /\ IsInjective(wait_list'[o])
      /\ Range(wait_list'[o]) = Range(wait_list[o]) \ {w}
      /\ \A p \in Waitables \ {o} : wait_list'[p] = wait_list[p]
  BY <1>2 DEF WakeFirst, TaskTypeOK
<1>5. ready_list' = Append(ready_list, w)
  BY DEF WakeFirst, task_set_ready
<1>6. ready_state(state, w) \in [Tasks -> TaskStates]
  BY DEF TaskTypeOK, ready_state, TaskStates
<1> HIDE DEF w
<1>7. /\ ready_list' \in Seq(Tasks)
      /\ IsInjective(ready_list')
      /\ Range(ready_list') = Range(ready_list) \cup {w}
      /\ ready_list' # <<>>
      /\ Head(ready_list') = Head(ready_list)
  BY <1>2, <1>3, <1>5, RunningIsReady, AppendRange, AppendInjectiveSeq
<1>8. /\ curr_task' = Head(ready_list')
      /\ curr_task' \in Tasks \cup {idle_task}
      /\ curr_task' # idle_task => curr_task' \in Range(ready_list')
      /\ state' \in [Tasks -> TaskStates]
  <2>1. CASE state' = ready_state(state, w) /\ UNCHANGED curr_task
    BY <2>1, <1>6, <1>7, RunningIsReady
  <2>2. CASE task_dispatch(ready_list', ready_state(state, w))
    BY <2>2, <1>6, <1>7, Dispatch
  <2> QED
    BY <2>1, <2>2 DEF w
<1>9. TaskTypeOK'
  BY <1>4, <1>7, <1>8 DEF TaskTypeOK, WakeFirst, sleepVars, tickVars
<1>10. OneQueue'
  <2>1. NoRepeats'
    BY <1>4, <1>7 DEF OneQueue, NoRepeats, WakeFirst, sleepVars
  <2>2. Disjoint'
    BY <1>2, <1>3, <1>4, <1>7 DEF OneQueue, Disjoint, WakeFirst, sleepVars
  <2>3. NoneLost'
    BY <1>2, <1>4, <1>7
       DEF OneQueue, NoneLost, Created, WakeFirst, sleepVars
  <2> QED
    BY <2>1, <2>2, <2>3 DEF OneQueue
<1>11. CurrIsHead' /\ TickConsistent'
  BY <1>7, <1>8 DEF CurrIsHead, TickConsistent, WakeFirst, sleepVars, tickVars
<1>12. TicksLeft'
  BY DEF TicksLeft, Created, WakeFirst, sleepVars
<1> QED
  BY <1>9, <1>10, <1>11, <1>12

\* Nothing the scheduler looks at changes.
LEMMA SchedStutter ==
  ASSUME SchedInv, UNCHANGED taskVars
  PROVE  SchedInv'
BY DEF SchedInv, TaskTypeOK, OneQueue, NoRepeats, Disjoint, NoneLost, Created,
       CurrIsHead, TickConsistent, TicksLeft, taskVars, listVars, tickVars

-----------------------------------------------------------------------------
(* Each action of sem.c and mutex.c keeps IpcInv.                          *)

\* Actions of the task manager leave the wait lists alone.
LEMMA TaskNextIpc ==
  ASSUME IpcInv, TaskNext, UNCHANGED <<count, mutexVars>>
  PROVE  IpcInv'
<1>1. UNCHANGED wait_list
  BY DEF TaskNext, task_init, sys_sched_yield, sys_sleep, task_time_tick,
         tick_slice, tick_sleeper, tick_dispatch, listVars
<1> QED
  BY <1>1 DEF IpcInv, SemNoLostWakeup, MutexNoLostWakeup, mutexVars

\* Waiting for a semaphore.
LEMMA SemWaitStep ==
  ASSUME IInv, NEW s \in Sems, sem_wait(s), UNCHANGED mutexVars
  PROVE  IInv'
<1> USE DEF IInv
<1>1. s \in Waitables /\ \A m \in Mutexes : m \in Waitables \ {s}
  BY TaskAssumption DEF Waitables
<1>2. CASE sem_available(s)
  <2>1. UNCHANGED taskVars /\ count' = [count EXCEPT ![s] = @ - 1]
    BY <1>2 DEF sem_wait
  <2>2. SchedInv'
    BY <2>1, SchedStutter
  <2>3. UNCHANGED wait_list
    BY <2>1 DEF taskVars, listVars
  <2>4. IpcInv'
    BY <1>2, <2>1, <2>3 DEF IpcInv, SemNoLostWakeup, MutexNoLostWakeup,
                            mutexVars, sem_available
  <2> QED
    BY <2>2, <2>4
<1>3. CASE ~sem_available(s)
  <2>1. TaskRuns /\ BlockOn(s) /\ UNCHANGED count
    BY <1>3 DEF sem_wait
  <2>2. SchedInv'
    BY <2>1, <1>1, BlockOnStep
  <2>3. \A p \in Waitables \ {s} : wait_list'[p] = wait_list[p]
    BY <2>1 DEF BlockOn, SchedInv, TaskTypeOK
  <2>4. \A p \in Sems \ {s} : p \in Waitables \ {s}
    BY DEF Waitables
  <2>5. IpcInv'
    BY <1>1, <1>3, <2>1, <2>3, <2>4
       DEF IpcInv, SemNoLostWakeup, MutexNoLostWakeup, mutexVars, sem_available
  <2> QED
    BY <2>2, <2>5
<1> QED
  BY <1>2, <1>3

\* Notifying a semaphore.
LEMMA SemNotifyStep ==
  ASSUME IInv, NEW s \in Sems, sem_notify(s), UNCHANGED mutexVars
  PROVE  IInv'
<1> USE DEF IInv
<1>1. s \in Waitables /\ \A m \in Mutexes : m \in Waitables \ {s}
  BY TaskAssumption DEF Waitables
<1>2. CASE wait_list[s] = <<>>
  <2>1. UNCHANGED taskVars /\ count' = [count EXCEPT ![s] = @ + 1]
    BY <1>2 DEF sem_notify
  <2>2. SchedInv'
    BY <2>1, SchedStutter
  <2>3. UNCHANGED wait_list
    BY <2>1 DEF taskVars, listVars
  <2>4. IpcInv'
    BY <1>2, <2>1, <2>3 DEF IpcInv, SemNoLostWakeup, MutexNoLostWakeup,
                            mutexVars
  <2> QED
    BY <2>2, <2>4
<1>3. CASE wait_list[s] # <<>>
  <2>1. /\ TaskRuns
        /\ WakeFirst(s)
        /\ task_dispatch(ready_list', ready_state(state, Head(wait_list[s])))
        /\ UNCHANGED count
    BY <1>3 DEF sem_notify
  <2>2. SchedInv'
    BY <2>1, <1>1, <1>3, WakeFirstStep
  <2>3. \A p \in Waitables \ {s} : wait_list'[p] = wait_list[p]
    BY <2>1 DEF WakeFirst, SchedInv, TaskTypeOK
  <2>4. \A p \in Sems \ {s} : p \in Waitables \ {s}
    BY DEF Waitables
  <2>5. IpcInv'
    BY <1>1, <1>3, <2>1, <2>3, <2>4
       DEF IpcInv, SemNoLostWakeup, MutexNoLostWakeup, mutexVars
  <2> QED
    BY <2>2, <2>5
<1> QED
  BY <1>2, <1>3

\* Locking a mutex.
LEMMA LockStep ==
  ASSUME IInv, NEW m \in Mutexes, rein_mutex_lock(m), UNCHANGED count
  PROVE  IInv'
<1> USE DEF IInv
<1>1. /\ m \in Waitables
      /\ \A s \in Sems : s \in Waitables \ {m}
      /\ \A p \in Mutexes \ {m} : p \in Waitables \ {m}
  BY TaskAssumption DEF Waitables
<1>2. /\ TaskRuns
      /\ curr_task \in Tasks
      /\ curr_task # NULL
      /\ curr_task \notin Range(wait_list[m])
  BY <1>1, RunningIsReady, TaskAssumption DEF rein_mutex_lock
<1>3. CASE UNCHANGED taskVars
  <2>1. SchedInv'
    BY <1>3, SchedStutter
  <2>2. UNCHANGED wait_list
    BY <1>3 DEF taskVars, listVars
  <2>3. CASE locker[m] = 0
    <3>1. /\ locker' = [locker EXCEPT ![m] = @ + 1]
          /\ owner' = [owner EXCEPT ![m] = curr_task]
      BY <2>3 DEF rein_mutex_lock
    <3>2. IpcInv'
      BY <3>1, <2>2, <2>3, <1>2
         DEF IpcInv, SemNoLostWakeup, MutexNoLostWakeup
    <3> QED
      BY <3>2, <2>1
  <2>4. CASE locker[m] # 0
    <3>1. /\ locker' = [locker EXCEPT ![m] = @ + 1] \/ UNCHANGED locker
          /\ UNCHANGED owner
      BY <2>4 DEF rein_mutex_lock, mutexVars
    <3>2. IpcInv'
      BY <3>1, <2>2, <2>4 DEF IpcInv, SemNoLostWakeup, MutexNoLostWakeup
    <3> QED
      BY <3>2, <2>1
  <2> QED
    BY <2>3, <2>4
<1>4. CASE /\ locker[m] # 0
           /\ owner[m] # curr_task
           /\ BlockOn(m)
           /\ UNCHANGED mutexVars
  <2>1. SchedInv'
    BY <1>1, <1>2, <1>4, BlockOnStep
  <2>2. /\ wait_list'[m] = Append(wait_list[m], curr_task)
        /\ \A p \in Waitables \ {m} : wait_list'[p] = wait_list[p]
    BY <1>1, <1>4 DEF BlockOn, SchedInv, TaskTypeOK
  <2>3. Range(wait_list'[m]) = Range(wait_list[m]) \cup {curr_task}
    BY <2>2, <1>1, <1>2, AppendRange DEF SchedInv, TaskTypeOK
  <2>4. IpcInv'
    BY <2>2, <2>3, <1>1, <1>4
       DEF IpcInv, SemNoLostWakeup, MutexNoLostWakeup, mutexVars
  <2> QED
    BY <2>1, <2>4
<1> QED
  BY <1>3, <1>4 DEF rein_mutex_lock

\* Unlocking a mutex.
LEMMA UnlockStep ==
  ASSUME IInv, NEW m \in Mutexes, rein_mutex_unlock(m), UNCHANGED count
  PROVE  IInv'
<1> USE DEF IInv
<1>1. /\ m \in Waitables
      /\ \A s \in Sems : s \in Waitables \ {m}
      /\ \A p \in Mutexes \ {m} : p \in Waitables \ {m}
  BY TaskAssumption DEF Waitables
<1>2. /\ locker[m] # 0
      /\ owner[m] = curr_task
      /\ TaskRuns
  BY DEF rein_mutex_unlock
<1>3. CASE locker[m] > 1
  <2>1. /\ locker' = [locker EXCEPT ![m] = @ - 1]
        /\ UNCHANGED <<owner, taskVars>>
    BY <1>3 DEF rein_mutex_unlock
  <2>2. SchedInv'
    BY <2>1, SchedStutter
  <2>3. UNCHANGED wait_list
    BY <2>1 DEF taskVars, listVars
  <2>4. IpcInv'
    BY <2>1, <2>3, <1>3 DEF IpcInv, SemNoLostWakeup, MutexNoLostWakeup
  <2> QED
    BY <2>2, <2>4
<1>4. CASE locker[m] = 1 /\ wait_list[m] = <<>>
  <2>1. /\ locker' = [locker EXCEPT ![m] = 0]
        /\ owner' = [owner EXCEPT ![m] = NULL]
        /\ UNCHANGED taskVars
    BY <1>4 DEF rein_mutex_unlock
  <2>2. SchedInv'
    BY <2>1, SchedStutter
  <2>3. UNCHANGED wait_list
    BY <2>1 DEF taskVars, listVars
  <2>4. NULL \notin Range(wait_list[m])
    BY <1>4, EmptyList
  <2>5. IpcInv'
    BY <2>1, <2>3, <2>4, <1>4 DEF IpcInv, SemNoLostWakeup, MutexNoLostWakeup
  <2> QED
    BY <2>2, <2>5
<1>5. CASE locker[m] = 1 /\ wait_list[m] # <<>>
  <2> DEFINE w == Head(wait_list[m])
  <2>1. /\ WakeFirst(m)
        /\ state' = ready_state(state, w)
        /\ owner' = [owner EXCEPT ![m] = w]
        /\ UNCHANGED <<locker, curr_task>>
    BY <1>5 DEF rein_mutex_unlock, new_owner
  <2>2. SchedInv'
    BY <2>1, <1>1, <1>2, <1>5, WakeFirstStep
  <2>3. /\ wait_list'[m] = Tail(wait_list[m])
        /\ \A p \in Waitables \ {m} : wait_list'[p] = wait_list[p]
    BY <2>1, <1>1 DEF WakeFirst, SchedInv, TaskTypeOK
  <2>4. w \in Tasks /\ w \notin Range(wait_list'[m])
    <3>1. wait_list[m] \in Seq(Tasks) /\ IsInjective(wait_list[m])
      BY <1>1 DEF SchedInv, TaskTypeOK, OneQueue, NoRepeats
    <3>2. w \in Tasks
      BY <3>1, <1>5, HeadTailProperties
    <3>3. w \notin Range(Tail(wait_list[m]))
      BY <3>1, <1>5, TailInjective
    <3> QED
      BY <2>3, <3>2, <3>3
  <2> HIDE DEF w
  <2>5. w # NULL
    BY <2>4, TaskAssumption
  <2>6. IpcInv'
    BY <2>1, <2>3, <2>4, <2>5, <1>1, <1>5
       DEF IpcInv, SemNoLostWakeup, MutexNoLostWakeup
  <2> QED
    BY <2>2, <2>6
<1>6. locker[m] \in Nat
  BY DEF IpcInv
<1> QED
  BY <1>2, <1>3, <1>4, <1>5, <1>6

-----------------------------------------------------------------------------
(* The invariant, and what it says.                                        *)

\* Every step keeps the invariant.
LEMMA NextIInv == IInv /\ [Next]_vars => IInv'
<1> SUFFICES ASSUME IInv, [Next]_vars PROVE IInv'
  OBVIOUS
<1>1. CASE TaskNext /\ UNCHANGED <<count, mutexVars>>
  <2>1. SchedInv'
    BY <1>1, TaskInitStep, YieldStep, SleepStep, TickSliceStep,
       TickSleeperStep, TickDispatchStep DEF TaskNext, task_time_tick, IInv
  <2>2. IpcInv'
    BY <1>1, TaskNextIpc DEF IInv
  <2> QED
    BY <2>1, <2>2 DEF IInv
<1>2. CASE SemNext /\ UNCHANGED mutexVars
  BY <1>2, SemWaitStep, SemNotifyStep DEF SemNext
<1>3. CASE MutexNext /\ UNCHANGED count
  BY <1>3, LockStep, UnlockStep DEF MutexNext
<1>4. CASE UNCHANGED vars
  <2>1. UNCHANGED <<taskVars, count, locker, owner, wait_list>>
    BY <1>4 DEF vars, taskVars, listVars, mutexVars
  <2>2. SchedInv'
    BY <2>1, SchedStutter DEF IInv
  <2>3. IpcInv'
    BY <2>1 DEF IInv, IpcInv, SemNoLostWakeup, MutexNoLostWakeup
  <2> QED
    BY <2>2, <2>3 DEF IInv
<1> QED
  BY <1>1, <1>2, <1>3, <1>4 DEF Next

\* The invariant holds in every reachable state of the kernel.
THEOREM Invariance == Spec => []IInv
<1>1. Init => IInv
  BY InitIInv DEF Init
<1> QED
  BY <1>1, NextIInv, PTL DEF Spec

\* Every variable of the kernel keeps its type.
THEOREM TypeCorrect == Spec => []TypeOK
<1>1. IInv => TypeOK
  BY DEF IInv, SchedInv, IpcInv, TypeOK
<1> QED
  BY <1>1, Invariance, PTL

\* Every created task is on exactly one list, once, whatever the tasks do and
\* whenever the timer interrupts them.
THEOREM TaskOnOneQueue == Spec => []OneQueue
<1>1. IInv => OneQueue
  BY DEF IInv, SchedInv
<1> QED
  BY <1>1, Invariance, PTL

\* The running task is the head of ready_list, and the idle task runs only
\* when nothing is ready.
THEOREM RunningIsHead == Spec => []CurrIsHead
<1>1. IInv => CurrIsHead
  BY DEF IInv, SchedInv
<1> QED
  BY <1>1, Invariance, PTL

\* The loop of task_time_tick, which moves nodes off the list it walks, never
\* leaves that list.
THEOREM TickWalksSleepers == Spec => []TickConsistent
<1>1. IInv => TickConsistent
  BY DEF IInv, SchedInv
<1> QED
  BY <1>1, Invariance, PTL

\* A tick counter that task_time_tick decrements is never zero already.
THEOREM CountersPositive == Spec => []TicksLeft
<1>1. IInv => TicksLeft
  BY DEF IInv, SchedInv
<1> QED
  BY <1>1, Invariance, PTL

\* Nobody waits for a semaphore that has units.
THEOREM SemWakeups == Spec => []SemNoLostWakeup
<1>1. IInv => SemNoLostWakeup
  BY DEF IInv, IpcInv
<1> QED
  BY <1>1, Invariance, PTL

\* Nobody waits for a free mutex, and no owner waits for its own.
THEOREM MutexWakeups == Spec => []MutexNoLostWakeup
<1>1. IInv => MutexNoLostWakeup
  BY DEF IInv, IpcInv
<1> QED
  BY <1>1, Invariance, PTL

-----------------------------------------------------------------------------
(* task_t.state.  In the timer handler the interrupted task may no longer  *)
(* be the first one; then its slice is used up and its state has been set, *)
(* which is what tick_dispatch needs to leave it TASK_READY.               *)

StateInv ==
  /\ StateAgrees
  /\ curr_task # idle_task /\ curr_task # Head(ready_list)
       => state[curr_task] = "TASK_READY"

\* task_dispatch changes the state of the task it jumps to, and of no other.
LEMMA DispatchState ==
  ASSUME NEW rl \in Seq(Tasks), NEW st \in [Tasks -> TaskStates],
         task_dispatch(rl, st)
  PROVE  \A t \in Tasks : \/ state'[t] = st[t]
                          \/ /\ t = curr_task' /\ t \in Range(rl)
                             /\ state'[t] = "TASK_RUNNING"
BY Dispatch DEF task_dispatch

\* Outside of the handler the second conjunct of StateInv says nothing.
LEMMA OutsideHandler ==
  ASSUME SchedInv', ~in_tick', StateAgrees'
  PROVE  StateInv'
BY DEF SchedInv, TaskTypeOK, CurrIsHead, StateInv

\* Each action of the task manager keeps StateInv.
LEMMA TaskState ==
  ASSUME SchedInv, SchedInv', StateInv, TaskNext
  PROVE  StateInv'
<1>1. ASSUME NEW t \in Tasks, task_init(t)
      PROVE  StateInv'
  <2>1. /\ Range(ready_list') = Range(ready_list) \cup {t}
        /\ t \notin Range(sleep_list)
        /\ UNCHANGED <<sleep_list, curr_task, in_tick>>
        /\ ~in_tick
        /\ state' = [state EXCEPT ![t] = "TASK_READY"]
    BY <1>1, AppendRange
       DEF task_init, task_set_ready, ready_state, SchedInv, TaskTypeOK,
           OneQueue, NoneLost, tickVars, TaskRuns
  <2>2. StateAgrees'
    BY <2>1 DEF StateInv, StateAgrees, SchedInv, TaskTypeOK
  <2> QED
    BY <2>1, <2>2, OutsideHandler
<1>2. ASSUME sys_sched_yield
      PROVE  StateInv'
  <2> DEFINE st == ready_state(state, curr_task)
  <2>1. /\ curr_task \in Tasks
        /\ curr_task \in Range(ready_list)
        /\ ready_list' \in Seq(Tasks)
        /\ Range(ready_list') = Range(ready_list)
    BY <1>2, RunningIsReady, ToTail DEF sys_sched_yield
  <2>2. /\ UNCHANGED <<sleep_list, in_tick>>
        /\ ~in_tick
        /\ task_dispatch(ready_list', st)
    BY <1>2 DEF sys_sched_yield, sleepVars, tickVars, TaskRuns
  <2>3. /\ st \in [Tasks -> TaskStates]
        /\ \A t \in Tasks : st[t] = IF t = curr_task THEN "TASK_READY"
                                                     ELSE state[t]
    BY <2>1 DEF SchedInv, TaskTypeOK, ready_state, TaskStates
  <2> HIDE DEF st
  <2>4. \A t \in Tasks : \/ state'[t] = st[t]
                         \/ /\ t = curr_task' /\ t \in Range(ready_list')
                            /\ state'[t] = "TASK_RUNNING"
    BY <2>1, <2>2, <2>3, DispatchState
  <2>5. \A t \in Tasks : t \in Range(ready_list) => t \notin Range(sleep_list)
    BY DEF SchedInv, OneQueue, Disjoint
  <2>6. StateAgrees'
    BY <2>1, <2>2, <2>3, <2>4, <2>5 DEF StateInv, StateAgrees
  <2> QED
    BY <2>2, <2>6, OutsideHandler
<1>3. ASSUME NEW ms \in SleepMs, sys_sleep(ms)
      PROVE  StateInv'
  <2> DEFINE st == [state EXCEPT ![curr_task] = "TASK_SLEEP"]
  <2>1. /\ curr_task \in Tasks
        /\ ready_list' \in Seq(Tasks)
        /\ Range(ready_list') = Range(ready_list) \ {curr_task}
    BY <1>3, RunningIsReady, ListPop DEF sys_sleep, task_set_block
  <2>2. Range(sleep_list') = Range(sleep_list) \cup {curr_task}
    BY <1>3, <2>1, AppendRange DEF sys_sleep, SchedInv, TaskTypeOK
  <2>3. /\ ~in_tick'
        /\ task_dispatch(ready_list', st)
    BY <1>3 DEF sys_sleep, tickVars, TaskRuns
  <2>4. /\ st \in [Tasks -> TaskStates]
        /\ \A t \in Tasks : st[t] = IF t = curr_task THEN "TASK_SLEEP"
                                                     ELSE state[t]
    BY <2>1 DEF SchedInv, TaskTypeOK, TaskStates
  <2> HIDE DEF st
  <2>5. \A t \in Tasks : \/ state'[t] = st[t]
                         \/ /\ t = curr_task' /\ t \in Range(ready_list')
                            /\ state'[t] = "TASK_RUNNING"
    BY <2>1, <2>3, <2>4, DispatchState
  <2>6. \A t \in Tasks : t \in Range(ready_list) => t \notin Range(sleep_list)
    BY DEF SchedInv, OneQueue, Disjoint
  <2>7. StateAgrees'
    BY <2>1, <2>2, <2>4, <2>5, <2>6 DEF StateInv, StateAgrees
  <2> QED
    BY <2>3, <2>7, OutsideHandler
<1>4. ASSUME tick_slice
      PROVE  StateInv'
  <2>1. UNCHANGED <<sleep_list, curr_task>>
    BY <1>4 DEF tick_slice
  <2>2. CASE UNCHANGED <<ready_list, state>>
    BY <2>1, <2>2 DEF StateInv, StateAgrees
  <2>3. CASE /\ curr_task # idle_task
             /\ ready_list' = to_tail(ready_list, curr_task)
             /\ state' = ready_state(state, curr_task)
    <3>1. /\ curr_task \in Tasks
          /\ curr_task \in Range(ready_list)
          /\ curr_task \notin Range(sleep_list)
      BY <2>3 DEF SchedInv, TaskTypeOK, TickConsistent, OneQueue, Disjoint
    <3>2. Range(ready_list') = Range(ready_list)
      BY <2>3, <3>1, ListTypes, ToTail
    <3>3. \A t \in Tasks : state'[t] = IF t = curr_task THEN "TASK_READY"
                                                       ELSE state[t]
      BY <2>3, <3>1 DEF ready_state, SchedInv, TaskTypeOK
    <3> QED
      BY <2>1, <3>1, <3>2, <3>3 DEF StateInv, StateAgrees
  <2> QED
    BY <1>4, <2>2, <2>3 DEF tick_slice
<1>5. ASSUME tick_sleeper
      PROVE  StateInv'
  <2>1. curr_node \in Tasks /\ curr_node \in Range(sleep_list)
    BY <1>5, TaskAssumption DEF tick_sleeper, TickConsistent, SchedInv, TaskTypeOK
  <2>2. UNCHANGED curr_task
    BY <1>5 DEF tick_sleeper
  <2>3. CASE UNCHANGED <<sleep_list, ready_list, state>>
    BY <2>2, <2>3 DEF StateInv, StateAgrees
  <2>4. CASE /\ sleep_list' = task_set_wakeup(sleep_list, curr_node)
             /\ ready_list' = task_set_ready(ready_list, curr_node)
             /\ state' = ready_state(state, curr_node)
    <3>1. Range(sleep_list') = Range(sleep_list) \ {curr_node}
      BY <2>1, <2>4, ListTypes, ListPop DEF task_set_wakeup
    <3>2. /\ Range(ready_list') = Range(ready_list) \cup {curr_node}
          /\ ready_list # <<>> => Head(ready_list') = Head(ready_list)
      BY <2>1, <2>4, ListTypes, AppendRange DEF task_set_ready
    <3>3. \A t \in Tasks : state'[t] = IF t = curr_node THEN "TASK_READY"
                                                       ELSE state[t]
      BY <2>1, <2>4 DEF ready_state, SchedInv, TaskTypeOK
    <3>4. StateAgrees'
      BY <2>1, <2>2, <3>1, <3>2, <3>3 DEF StateInv, StateAgrees
    <3>5. curr_task # idle_task => curr_task \in Tasks /\ ready_list # <<>>
      BY EmptyList DEF SchedInv, TaskTypeOK, TickConsistent
    <3> QED
      BY <2>2, <3>2, <3>3, <3>4, <3>5 DEF StateInv
  <2> QED
    BY <1>5, <2>3, <2>4 DEF tick_sleeper
<1>6. ASSUME tick_dispatch
      PROVE  StateInv'
  <2>1. /\ UNCHANGED <<ready_list, sleep_list>>
        /\ ~in_tick'
        /\ task_dispatch(ready_list, state)
    BY <1>6 DEF tick_dispatch, listVars
  <2>2. \A t \in Tasks : \/ state'[t] = state[t]
                         \/ /\ t = curr_task' /\ t \in Range(ready_list)
                            /\ state'[t] = "TASK_RUNNING"
    BY <2>1, DispatchState DEF SchedInv, TaskTypeOK
  <2>3. \A t \in Tasks : t \in Range(ready_list) => t \notin Range(sleep_list)
    BY DEF SchedInv, OneQueue, Disjoint
  <2>4. /\ curr_task' = IF ready_list = <<>> THEN idle_task ELSE Head(ready_list)
        /\ ready_list = <<>> => Range(ready_list) = {}
    BY <2>1, Dispatch, EmptyList DEF SchedInv, TaskTypeOK
  <2>5. \A t \in Range(ready_list) :
          t # curr_task' => t \in Tasks /\ state[t] = "TASK_READY"
    <3> SUFFICES ASSUME NEW t \in Range(ready_list), t # curr_task'
                 PROVE  t \in Tasks /\ state[t] = "TASK_READY"
      OBVIOUS
    <3>1. t \in Tasks /\ t # idle_task /\ t # Head(ready_list)
      BY <2>4, ListTypes, TaskAssumption
    <3> QED
      BY <3>1 DEF StateInv, StateAgrees
  <2>6. StateAgrees'
    BY <2>1, <2>2, <2>3, <2>5 DEF StateInv, StateAgrees
  <2> QED
    BY <2>1, <2>6, OutsideHandler
<1> QED
  BY <1>1, <1>2, <1>3, <1>4, <1>5, <1>6 DEF TaskNext, task_time_tick

\* Blocking on a semaphore or mutex, which leaves the state as it is.
LEMMA BlockState ==
  ASSUME SchedInv, SchedInv', StateInv, TaskRuns, NEW o \in Waitables, BlockOn(o)
  PROVE  StateInv'
<1>1. /\ curr_task \in Tasks
      /\ ready_list' \in Seq(Tasks)
      /\ Range(ready_list') = Range(ready_list) \ {curr_task}
  BY RunningIsReady, ListPop DEF BlockOn, task_set_block
<1>2. /\ UNCHANGED sleep_list
      /\ ~in_tick'
      /\ task_dispatch(ready_list', state)
  BY DEF BlockOn, sleepVars, tickVars, TaskRuns
<1>3. \A t \in Tasks : \/ state'[t] = state[t]
                       \/ /\ t = curr_task' /\ t \in Range(ready_list')
                          /\ state'[t] = "TASK_RUNNING"
  BY <1>1, <1>2, DispatchState DEF SchedInv, TaskTypeOK
<1>4. \A t \in Tasks : t \in Range(ready_list) => t \notin Range(sleep_list)
  BY ListTypes
<1>5. StateAgrees'
  BY <1>1, <1>2, <1>3, <1>4 DEF StateInv, StateAgrees
<1> QED
  BY <1>2, <1>5, OutsideHandler

\* Waking the longest waiter, whether or not a dispatch follows.
LEMMA WakeState ==
  ASSUME SchedInv, SchedInv', StateInv, TaskRuns, NEW o \in Waitables,
         wait_list[o] # <<>>, WakeFirst(o),
         \/ /\ state' = ready_state(state, Head(wait_list[o]))
            /\ UNCHANGED curr_task
         \/ task_dispatch(ready_list', ready_state(state, Head(wait_list[o])))
  PROVE  StateInv'
<1> DEFINE w == Head(wait_list[o])
           st == ready_state(state, w)
<1>1. w \in Tasks /\ w \in Range(wait_list[o])
  BY ListTypes, TailInjective
<1>2. w \notin Range(sleep_list)
  BY <1>1 DEF SchedInv, OneQueue, Disjoint
<1>3. ready_list' = Append(ready_list, w)
  BY DEF WakeFirst, task_set_ready
<1>4. /\ st \in [Tasks -> TaskStates]
      /\ \A t \in Tasks : st[t] = IF t = w THEN "TASK_READY" ELSE state[t]
  BY <1>1 DEF SchedInv, TaskTypeOK, ready_state, TaskStates
<1>5. /\ UNCHANGED sleep_list
      /\ ~in_tick'
      /\ \/ state' = st /\ UNCHANGED curr_task
         \/ task_dispatch(ready_list', st)
  BY DEF WakeFirst, sleepVars, tickVars, TaskRuns
<1> HIDE DEF w, st
<1>6. /\ ready_list' \in Seq(Tasks)
      /\ Range(ready_list') = Range(ready_list) \cup {w}
      /\ Head(ready_list') = Head(ready_list)
      /\ ready_list' # <<>>
      /\ curr_task = Head(ready_list)
  BY <1>1, <1>3, RunningIsReady, AppendRange
<1>7. UNCHANGED curr_task
  BY <1>4, <1>5, <1>6, Dispatch
<1>8. \A t \in Tasks : \/ state'[t] = st[t]
                       \/ /\ t = curr_task' /\ t \in Range(ready_list')
                          /\ state'[t] = "TASK_RUNNING"
  BY <1>4, <1>5, <1>6, DispatchState
<1>9. \A t \in Tasks : t \in Range(ready_list) => t \notin Range(sleep_list)
  BY ListTypes
<1>10. StateAgrees'
  BY <1>1, <1>2, <1>4, <1>5, <1>6, <1>7, <1>8, <1>9 DEF StateInv, StateAgrees
<1> QED
  BY <1>5, <1>10, OutsideHandler

\* The steps of sem.c and mutex.c, as the task manager sees them: none, or the
\* running task blocks, or it wakes the longest waiter.
LEMMA IpcEffect ==
  ASSUME SemNext \/ MutexNext
  PROVE  \/ UNCHANGED taskVars
         \/ TaskRuns /\ \E o \in Waitables : BlockOn(o)
         \/ /\ TaskRuns
            /\ \E o \in Waitables :
                 /\ wait_list[o] # <<>>
                 /\ WakeFirst(o)
                 /\ \/ /\ state' = ready_state(state, Head(wait_list[o]))
                       /\ UNCHANGED curr_task
                    \/ task_dispatch(ready_list',
                                     ready_state(state, Head(wait_list[o])))
<1>1. Sems \subseteq Waitables /\ Mutexes \subseteq Waitables
  BY DEF Waitables
<1> QED
  BY <1>1 DEF SemNext, sem_wait, sem_notify, MutexNext, rein_mutex_lock,
              rein_mutex_unlock

\* Every step keeps the states right.
LEMMA NextStateInv == IInv /\ IInv' /\ StateInv /\ [Next]_vars => StateInv'
<1> SUFFICES ASSUME IInv, IInv', StateInv, [Next]_vars PROVE StateInv'
  OBVIOUS
<1>1. SchedInv /\ SchedInv'
  BY DEF IInv
<1>2. CASE TaskNext
  BY <1>1, <1>2, TaskState
<1>3. CASE SemNext \/ MutexNext
  <2>1. CASE UNCHANGED taskVars
    BY <2>1 DEF StateInv, StateAgrees, taskVars, listVars
  <2> QED
    BY <1>1, <1>3, <2>1, IpcEffect, BlockState, WakeState
<1>4. CASE UNCHANGED vars
  BY <1>4 DEF vars, StateInv, StateAgrees, taskVars, listVars
<1> QED
  BY <1>2, <1>3, <1>4 DEF Next

\* task_t.state is TASK_SLEEP for the sleepers and for nobody else, and a task
\* that is ready but does not run is TASK_READY.
THEOREM StatesAgree == Spec => []StateAgrees
<1>1. Init => StateInv
  <2>1. Range(<<main_task>>) = {main_task} /\ Range(<<>>) = {}
    BY EmptyList DEF Range
  <2> QED
    BY <2>1, TaskAssumption DEF Init, TaskInit, StateInv, StateAgrees
<1>2. StateInv => StateAgrees
  BY DEF StateInv
<1> QED
  BY <1>1, <1>2, Invariance, NextStateInv, PTL DEF Spec

-----------------------------------------------------------------------------
(* What a step does to the order of the lists.                             *)

\* The ready list changes in three ways: a task joins it at the end, the
\* interrupted or yielding task is moved to the end, or the running task takes
\* itself off.
LEMMA ReadyEffect ==
  ASSUME IInv, [Next]_vars
  PROVE  \/ ready_list' = ready_list
         \/ \E t \in Tasks \ Range(ready_list) :
              ready_list' = Append(ready_list, t)
         \/ /\ curr_task \in Range(ready_list)
            /\ ready_list' = to_tail(ready_list, curr_task)
         \/ /\ curr_task \in Range(ready_list)
            /\ ~in_tick
            /\ ready_list' = list_pop(ready_list, curr_task)
<1>1. SchedInv
  BY DEF IInv
<1> USE DEF task_set_ready, task_set_block
<1>2. ASSUME NEW t \in Tasks, task_init(t)
      PROVE  ready_list' = Append(ready_list, t) /\ t \notin Range(ready_list)
  BY <1>1, <1>2 DEF task_init, SchedInv, OneQueue, NoneLost
<1>3. CASE sys_sched_yield
  BY <1>1, <1>3, RunningIsReady DEF sys_sched_yield
<1>4. ASSUME NEW ms \in SleepMs, sys_sleep(ms)
      PROVE  /\ curr_task \in Range(ready_list)
             /\ ~in_tick
             /\ ready_list' = list_pop(ready_list, curr_task)
  BY <1>1, <1>4, RunningIsReady DEF sys_sleep, TaskRuns
<1>5. CASE tick_slice
  BY <1>1, <1>5 DEF tick_slice, SchedInv, TickConsistent
<1>6. CASE tick_sleeper
  <2>1. curr_node \in Tasks \ Range(ready_list)
    BY <1>1, <1>6, ListTypes DEF tick_sleeper, SchedInv, TickConsistent
  <2> QED
    BY <1>6, <2>1 DEF tick_sleeper
<1>7. CASE tick_dispatch
  BY <1>7 DEF tick_dispatch, listVars
<1>8. CASE TaskNext
  BY <1>2, <1>3, <1>4, <1>5, <1>6, <1>7, <1>8 DEF TaskNext, task_time_tick
<1>9. CASE SemNext \/ MutexNext
  <2>1. CASE UNCHANGED taskVars
    BY <2>1 DEF taskVars, listVars
  <2>2. ASSUME NEW o \in Waitables, TaskRuns, BlockOn(o)
        PROVE  /\ curr_task \in Range(ready_list)
               /\ ~in_tick
               /\ ready_list' = list_pop(ready_list, curr_task)
    BY <1>1, <2>2, RunningIsReady DEF BlockOn, TaskRuns
  <2>3. ASSUME NEW o \in Waitables, wait_list[o] # <<>>, WakeFirst(o)
        PROVE  /\ ready_list' = Append(ready_list, Head(wait_list[o]))
               /\ Head(wait_list[o]) \in Tasks \ Range(ready_list)
    <3>1. /\ Head(wait_list[o]) \in Tasks
          /\ Head(wait_list[o]) \in Range(wait_list[o])
      BY <1>1, <2>3, ListTypes, TailInjective
    <3> QED
      BY <1>1, <2>3, <3>1 DEF WakeFirst, SchedInv, OneQueue, Disjoint
  <2> QED
    BY <1>9, <2>1, <2>2, <2>3, IpcEffect
<1>10. CASE UNCHANGED vars
  BY <1>10 DEF vars, taskVars, listVars
<1> QED
  BY <1>8, <1>9, <1>10 DEF Next

\* A wait list grows at the end and shrinks at the front.
LEMMA WaitEffect ==
  ASSUME IInv, [Next]_vars, NEW o \in Waitables
  PROVE  \/ wait_list'[o] = wait_list[o]
         \/ /\ curr_task \in Tasks
            /\ wait_list'[o] = Append(wait_list[o], curr_task)
         \/ wait_list[o] # <<>> /\ wait_list'[o] = Tail(wait_list[o])
<1>1. SchedInv
  BY DEF IInv
<1>2. CASE TaskNext
  BY <1>2 DEF TaskNext, task_init, sys_sched_yield, sys_sleep, task_time_tick,
              tick_slice, tick_sleeper, tick_dispatch, listVars
<1>3. CASE SemNext \/ MutexNext
  <2>1. CASE UNCHANGED taskVars
    BY <2>1 DEF taskVars, listVars
  <2>2. ASSUME NEW p \in Waitables, TaskRuns, BlockOn(p)
        PROVE  \/ wait_list'[o] = wait_list[o]
               \/ /\ curr_task \in Tasks
                  /\ wait_list'[o] = Append(wait_list[o], curr_task)
    BY <1>1, <2>2, RunningIsReady DEF BlockOn, SchedInv, TaskTypeOK
  <2>3. ASSUME NEW p \in Waitables, wait_list[p] # <<>>, WakeFirst(p)
        PROVE  \/ wait_list'[o] = wait_list[o]
               \/ wait_list[o] # <<>> /\ wait_list'[o] = Tail(wait_list[o])
    BY <1>1, <2>3 DEF WakeFirst, SchedInv, TaskTypeOK
  <2> QED
    BY <1>3, <2>1, <2>2, <2>3, IpcEffect
<1>4. CASE UNCHANGED vars
  BY <1>4 DEF vars, taskVars, listVars
<1> QED
  BY <1>2, <1>3, <1>4 DEF Next

\* A task stops being runnable only through a call of its own: neither the
\* timer nor another task takes it off the ready list.
THEOREM SelfBlocking == Spec => OnlySelfBlocks
<1> DEFINE A == \A t \in Range(ready_list) :
                  t \notin Range(ready_list)' => t = curr_task /\ ~in_tick
<1>1. IInv /\ [Next]_vars => A
  <2> SUFFICES ASSUME IInv, [Next]_vars PROVE A
    OBVIOUS
  <2>1. ready_list \in Seq(Tasks) /\ IsInjective(ready_list)
    BY ListTypes DEF IInv
  <2>2. ASSUME NEW t \in Tasks, ready_list' = Append(ready_list, t)
        PROVE  Range(ready_list') = Range(ready_list) \cup {t}
    BY <2>1, <2>2, AppendRange
  <2>3. ASSUME curr_task \in Range(ready_list),
               ready_list' = to_tail(ready_list, curr_task)
        PROVE  Range(ready_list') = Range(ready_list)
    BY <2>1, <2>3, ToTail
  <2>4. ASSUME curr_task \in Range(ready_list),
               ready_list' = list_pop(ready_list, curr_task)
        PROVE  Range(ready_list') = Range(ready_list) \ {curr_task}
    BY <2>1, <2>4, ListPop
  <2> QED
    BY <2>2, <2>3, <2>4, ReadyEffect
<1> QED
  BY <1>1, Invariance, PTL DEF Spec, OnlySelfBlocks

-----------------------------------------------------------------------------
(* First come, first served.                                               *)

\* A task that joins at the end changes nothing for those before it.
LEMMA BeforeAppend ==
  ASSUME NEW l \in Seq(Tasks), NEW e \in Tasks, NEW t \in Range(l), NEW u
  PROVE  /\ Before(l, t, u) => Before(Append(l, e), t, u)
         /\ Before(Append(l, e), t, e)
<1> DEFINE r == Append(l, e)
<1>1. /\ Len(l) \in Nat
      /\ DOMAIN l = 1 .. Len(l)
      /\ DOMAIN r = 1 .. Len(l) + 1
      /\ \A i \in 1 .. Len(l) : r[i] = l[i]
      /\ r[Len(l) + 1] = e
  BY LenProperties, AppendProperties
<1> HIDE DEF r
<1>2. PICK i \in 1 .. Len(l) : l[i] = t
  BY <1>1 DEF Range
<1>3. Before(r, t, e)
  BY <1>1, <1>2 DEF Before
<1>4. ASSUME Before(l, t, u)
      PROVE  Before(r, t, u)
  <2>1. PICK j, k \in 1 .. Len(l) : j < k /\ l[j] = t /\ l[k] = u
    BY <1>1, <1>4 DEF Before
  <2> QED
    BY <1>1, <2>1 DEF Before
<1> QED
  BY <1>3, <1>4 DEF r

\* A node taken out changes nothing for the others.
LEMMA BeforePop ==
  ASSUME NEW l \in Seq(Tasks), IsInjective(l), NEW n \in Range(l),
         NEW t, NEW u, t # n, u # n, Before(l, t, u)
  PROVE  Before(list_pop(l, n), t, u)
<1> DEFINE k == CHOOSE k \in DOMAIN l : l[k] = n
           r == RemoveAt(l, k)
<1>1. k \in DOMAIN l /\ l[k] = n
  BY DEF Range
<1>2. DOMAIN l = 1 .. Len(l) /\ Len(l) \in Nat
  BY LenProperties
<1>3. list_pop(l, n) = r
  BY DEF list_pop
<1> HIDE DEF k
<1>4. /\ r \in Seq(Tasks)
      /\ Len(r) = Len(l) - 1
      /\ \A i \in 1 .. Len(l) - 1 : r[i] = IF i < k THEN l[i] ELSE l[i + 1]
  BY <1>1, <1>2, RemoveAtProperties
<1>5. DOMAIN r = 1 .. Len(l) - 1
  BY <1>2, <1>4, LenProperties
<1> HIDE DEF r
<1>6. PICK i, j \in 1 .. Len(l) : i < j /\ l[i] = t /\ l[j] = u
  BY <1>2 DEF Before
<1> DEFINE Moved(x) == IF x < k THEN x ELSE x - 1
<1>7. ASSUME NEW x \in 1 .. Len(l), x # k
      PROVE  Moved(x) \in 1 .. Len(l) - 1 /\ r[Moved(x)] = l[x]
  BY <1>1, <1>2, <1>4, <1>7
<1>8. i # k /\ j # k
  BY <1>1, <1>6
<1>9. Moved(i) < Moved(j)
  BY <1>1, <1>2, <1>6, <1>8
<1>10. /\ Moved(i) \in DOMAIN r /\ Moved(j) \in DOMAIN r
       /\ r[Moved(i)] = t /\ r[Moved(j)] = u
  BY <1>5, <1>6, <1>7, <1>8
<1> HIDE DEF Moved
<1>11. Before(r, t, u)
  BY <1>9, <1>10 DEF Before
<1> QED
  BY <1>3, <1>11

\* The first one leaves.
LEMMA BeforeTail ==
  ASSUME NEW l \in Seq(Tasks), IsInjective(l), l # <<>>,
         NEW t \in Range(Tail(l)), NEW u, Before(l, t, u)
  PROVE  Before(Tail(l), t, u)
<1> DEFINE r == Tail(l)
<1>1. /\ Len(l) \in Nat
      /\ DOMAIN l = 1 .. Len(l)
      /\ r \in Seq(Tasks)
      /\ Len(r) = Len(l) - 1
      /\ \A i \in 1 .. Len(l) - 1 : r[i] = l[i + 1]
      /\ Head(l) = l[1]
  BY LenProperties, HeadTailProperties
<1>2. DOMAIN r = 1 .. Len(l) - 1
  BY <1>1, LenProperties
<1>3. t # l[1]
  BY <1>1, TailInjective
<1> HIDE DEF r
<1>4. PICK i, j \in 1 .. Len(l) : i < j /\ l[i] = t /\ l[j] = u
  BY <1>1 DEF Before
<1>5. /\ i - 1 \in DOMAIN r /\ j - 1 \in DOMAIN r /\ i - 1 < j - 1
      /\ r[i - 1] = t /\ r[j - 1] = u
  BY <1>1, <1>2, <1>3, <1>4
<1>6. Before(r, t, u)
  BY <1>5 DEF Before
<1> QED
  BY <1>6 DEF r

\* The ready list and the wait lists are queues: only the running task is ever
\* put behind a task it was ahead of, and no waiter is woken while another one
\* has waited longer.
THEOREM InTurn == Spec => FirstComeFirstServed
<1> DEFINE R == \A t, u \in Range(ready_list) \cap Range(ready_list)' :
                  Before(ready_list, t, u) /\ t # curr_task
                    => Before(ready_list', t, u)
           W == \A o \in Waitables : \A t, u \in Range(wait_list[o]) :
                  Before(wait_list[o], t, u) /\ t \in Range(wait_list[o])'
                    => Before(wait_list'[o], t, u)
<1>1. ASSUME IInv, [Next]_vars
      PROVE  R
  <2> SUFFICES ASSUME NEW t \in Range(ready_list), NEW u \in Range(ready_list),
                      t \in Range(ready_list'), u \in Range(ready_list'),
                      Before(ready_list, t, u), t # curr_task
               PROVE  Before(ready_list', t, u)
    OBVIOUS
  <2>1. ready_list \in Seq(Tasks) /\ IsInjective(ready_list)
    BY <1>1, ListTypes DEF IInv
  <2>2. ASSUME NEW e \in Tasks, ready_list' = Append(ready_list, e)
        PROVE  Before(ready_list', t, u)
    BY <2>1, <2>2, BeforeAppend
  <2>3. ASSUME curr_task \in Range(ready_list),
               ready_list' = to_tail(ready_list, curr_task)
        PROVE  Before(ready_list', t, u)
    <3> DEFINE r == list_pop(ready_list, curr_task)
    <3>1. ready_list' = Append(r, curr_task)
      BY <2>3 DEF to_tail, task_set_ready, task_set_block
    <3>2. r \in Seq(Tasks) /\ Range(r) = Range(ready_list) \ {curr_task}
      BY <2>1, <2>3, ListPop
    <3>3. curr_task \in Tasks /\ t \in Range(r)
      BY <2>1, <2>3, <3>2, RangeOfSeq
    <3>4. CASE u = curr_task
      BY <3>1, <3>2, <3>3, <3>4, BeforeAppend
    <3>5. CASE u # curr_task
      <4>1. Before(r, t, u)
        BY <2>1, <2>3, <3>5, BeforePop
      <4> QED
        BY <3>1, <3>2, <3>3, <4>1, BeforeAppend
    <3> QED
      BY <3>4, <3>5
  <2>4. ASSUME curr_task \in Range(ready_list),
               ready_list' = list_pop(ready_list, curr_task)
        PROVE  Before(ready_list', t, u)
    <3>1. Range(ready_list') = Range(ready_list) \ {curr_task}
      BY <2>1, <2>4, ListPop
    <3> QED
      BY <2>1, <2>4, <3>1, BeforePop
  <2> QED
    BY <1>1, <2>2, <2>3, <2>4, ReadyEffect
<1>2. ASSUME IInv, [Next]_vars
      PROVE  W
  <2> SUFFICES ASSUME NEW o \in Waitables,
                      NEW t \in Range(wait_list[o]), NEW u \in Range(wait_list[o]),
                      Before(wait_list[o], t, u), t \in Range(wait_list'[o])
               PROVE  Before(wait_list'[o], t, u)
    OBVIOUS
  <2>1. wait_list[o] \in Seq(Tasks) /\ IsInjective(wait_list[o])
    BY <1>2, ListTypes DEF IInv
  <2>2. CASE curr_task \in Tasks /\ wait_list'[o] = Append(wait_list[o], curr_task)
    BY <2>1, <2>2, BeforeAppend
  <2>3. CASE wait_list[o] # <<>> /\ wait_list'[o] = Tail(wait_list[o])
    BY <2>1, <2>3, BeforeTail
  <2> QED
    BY <1>2, <2>2, <2>3, WaitEffect
<1>3. IInv /\ [Next]_vars => R /\ W
  BY <1>1, <1>2
<1> QED
  BY <1>3, Invariance, PTL DEF Spec, FirstComeFirstServed

-----------------------------------------------------------------------------
(* sem.c implements AbstractSem.                                           *)

SemValue == [s \in Sems |-> count[s] - Len(wait_list[s])]
SemQueue == [s \in Sems |-> wait_list[s]]

\* The running task waits for no semaphore.
LEMMA RunningNotInSem ==
  ASSUME IInv, TaskRuns
  PROVE  curr_task \in Tasks /\ curr_task \notin Semaphores!Waiting
<1>1. /\ curr_task \in Tasks
      /\ \A s \in Sems : curr_task \notin Range(wait_list[s])
  BY RunningIsReady DEF IInv, Waitables
<1>2. \A s \in Sems : \A k \in DOMAIN wait_list[s] : wait_list[s][k] # curr_task
  BY <1>1 DEF Range
<1> QED
  BY <1>1, <1>2 DEF Semaphores!Waiting

\* Only steps of sem.c change what AbstractSem sees.
LEMMA OtherSemStep ==
  ASSUME IInv, UNCHANGED count, \A s \in Sems : wait_list'[s] = wait_list[s]
  PROVE  UNCHANGED <<SemValue, SemQueue>>
BY DEF SemValue, SemQueue

\* A step that changes the value of one semaphore.
LEMMA SemValueStep ==
  ASSUME NEW s \in Sems, NEW d \in Int,
         count[s] \in Int, Len(wait_list[s]) \in Int,
         count'[s] \in Int, Len(wait_list'[s]) \in Int,
         count'[s] - Len(wait_list'[s]) = count[s] - Len(wait_list[s]) + d,
         \A p \in Sems \ {s} : /\ count'[p] = count[p]
                               /\ wait_list'[p] = wait_list[p]
  PROVE  SemValue' = [SemValue EXCEPT ![s] = @ + d]
<1>1. \A p \in Sems : count'[p] - Len(wait_list'[p])
                       = IF p = s THEN count[s] - Len(wait_list[s]) + d
                                  ELSE count[p] - Len(wait_list[p])
  OBVIOUS
<1>2. SemValue' = [p \in Sems |-> count'[p] - Len(wait_list'[p])]
  BY DEF SemValue
<1> QED
  BY <1>1, <1>2 DEF SemValue

\* sem_wait lowers the value, and the task joins the queue when there was no
\* unit for it.
LEMMA SemWaitRefines ==
  ASSUME IInv, NEW s \in Sems, sem_wait(s)
  PROVE  Semaphores!P(curr_task, s)
<1>1. curr_task \notin Semaphores!Waiting
  BY RunningNotInSem DEF sem_wait
<1>2. /\ wait_list \in [Waitables -> Seq(Tasks)]
      /\ count \in [Sems -> Nat]
      /\ Sems \subseteq Waitables
      /\ Len(wait_list[s]) \in Nat
      /\ wait_list[s] \in Seq(Tasks)
  BY LenProperties DEF IInv, SchedInv, TaskTypeOK, IpcInv, Waitables
<1>3. CASE sem_available(s)
  <2>1. count[s] > 0 /\ wait_list[s] = <<>> /\ Len(wait_list[s]) = 0
    BY <1>3 DEF sem_available, IInv, IpcInv, SemNoLostWakeup
  <2>2. count' = [count EXCEPT ![s] = @ - 1] /\ UNCHANGED wait_list
    BY <1>3 DEF sem_wait, taskVars, listVars
  <2>3. SemValue' = [SemValue EXCEPT ![s] = @ + (-1)] /\ SemValue[s] > 0
    <3>1. \A p \in Sems \ {s} : /\ count'[p] = count[p]
                                /\ wait_list'[p] = wait_list[p]
      BY <1>2, <2>2
    <3>2. /\ count[s] \in Int /\ count'[s] \in Int
          /\ Len(wait_list[s]) \in Int /\ Len(wait_list'[s]) \in Int
          /\ count'[s] - Len(wait_list'[s])
               = count[s] - Len(wait_list[s]) + (-1)
      BY <1>2, <2>1, <2>2
    <3>3. SemValue[s] > 0
      BY <1>2, <2>1 DEF SemValue
    <3>4. SemValue' = [SemValue EXCEPT ![s] = @ + (-1)]
      BY <3>1, <3>2, SemValueStep
    <3> QED
      BY <3>3, <3>4
  <2>4. UNCHANGED SemQueue
    BY <2>2 DEF SemQueue
  <2> QED
    BY <1>1, <2>3, <2>4 DEF Semaphores!P, SemValue, SemQueue
<1>4. CASE ~sem_available(s)
  <2>1. count[s] = 0
    BY <1>2, <1>4 DEF sem_available
  <2>2. /\ UNCHANGED count
        /\ wait_list' = [wait_list EXCEPT ![s] = Append(@, curr_task)]
    BY <1>4 DEF sem_wait, BlockOn
  <2>3. Len(wait_list'[s]) = Len(wait_list[s]) + 1
    BY <1>2, <2>2, RunningNotInSem, AppendProperties DEF sem_wait
  <2>4. SemValue' = [SemValue EXCEPT ![s] = @ + (-1)] /\ ~(SemValue[s] > 0)
    <3>1. \A p \in Sems \ {s} : /\ count'[p] = count[p]
                                /\ wait_list'[p] = wait_list[p]
      BY <1>2, <2>2
    <3>2. /\ count[s] \in Int /\ count'[s] \in Int
          /\ Len(wait_list[s]) \in Int /\ Len(wait_list'[s]) \in Int
          /\ count'[s] - Len(wait_list'[s])
               = count[s] - Len(wait_list[s]) + (-1)
      BY <1>2, <2>1, <2>2, <2>3
    <3>3. ~(SemValue[s] > 0)
      BY <1>2, <2>1 DEF SemValue
    <3>4. SemValue' = [SemValue EXCEPT ![s] = @ + (-1)]
      BY <3>1, <3>2, SemValueStep
    <3> QED
      BY <3>3, <3>4
  <2>5. SemQueue' = [SemQueue EXCEPT ![s] = Append(@, curr_task)]
    BY <1>2, <2>2 DEF SemQueue
  <2> QED
    BY <1>1, <2>4, <2>5 DEF Semaphores!P, SemValue, SemQueue
<1> QED
  BY <1>3, <1>4

\* sem_notify raises the value, and serves the first of the queue.
LEMMA SemNotifyRefines ==
  ASSUME IInv, NEW s \in Sems, sem_notify(s)
  PROVE  Semaphores!V(s)
<1>1. /\ wait_list \in [Waitables -> Seq(Tasks)]
      /\ count \in [Sems -> Nat]
      /\ Sems \subseteq Waitables
      /\ Len(wait_list[s]) \in Nat
      /\ wait_list[s] \in Seq(Tasks)
  BY LenProperties DEF IInv, SchedInv, TaskTypeOK, IpcInv, Waitables
<1>2. CASE wait_list[s] # <<>>
  <2>1. count[s] = 0 /\ Len(wait_list[s]) > 0
    BY <1>1, <1>2, EmptySeq DEF IInv, IpcInv, SemNoLostWakeup
  <2>2. /\ UNCHANGED count
        /\ wait_list' = [wait_list EXCEPT ![s] = Tail(@)]
    BY <1>2 DEF sem_notify, WakeFirst
  <2>3. Len(wait_list'[s]) = Len(wait_list[s]) - 1
    BY <1>1, <1>2, <2>2, HeadTailProperties
  <2>4. SemValue' = [SemValue EXCEPT ![s] = @ + 1] /\ ~(SemValue[s] >= 0)
    <3>1. \A p \in Sems \ {s} : /\ count'[p] = count[p]
                                /\ wait_list'[p] = wait_list[p]
      BY <1>1, <2>2
    <3>2. /\ count[s] \in Int /\ count'[s] \in Int
          /\ Len(wait_list[s]) \in Int /\ Len(wait_list'[s]) \in Int
          /\ count'[s] - Len(wait_list'[s])
               = count[s] - Len(wait_list[s]) + 1
      BY <1>1, <2>1, <2>2, <2>3
    <3>3. ~(SemValue[s] >= 0)
      BY <1>1, <2>1 DEF SemValue
    <3>4. SemValue' = [SemValue EXCEPT ![s] = @ + 1]
      BY <3>1, <3>2, SemValueStep
    <3> QED
      BY <3>3, <3>4
  <2>5. SemQueue' = [SemQueue EXCEPT ![s] = Tail(@)]
    BY <1>1, <2>2 DEF SemQueue
  <2> QED
    BY <2>4, <2>5 DEF Semaphores!V, SemValue, SemQueue
<1>3. CASE wait_list[s] = <<>>
  <2>1. Len(wait_list[s]) = 0
    BY <1>3
  <2>2. count' = [count EXCEPT ![s] = @ + 1] /\ UNCHANGED wait_list
    BY <1>3 DEF sem_notify, taskVars, listVars
  <2>3. SemValue' = [SemValue EXCEPT ![s] = @ + 1] /\ SemValue[s] >= 0
    <3>1. \A p \in Sems \ {s} : /\ count'[p] = count[p]
                                /\ wait_list'[p] = wait_list[p]
      BY <1>1, <2>2
    <3>2. /\ count[s] \in Int /\ count'[s] \in Int
          /\ Len(wait_list[s]) \in Int /\ Len(wait_list'[s]) \in Int
          /\ count'[s] - Len(wait_list'[s])
               = count[s] - Len(wait_list[s]) + 1
      BY <1>1, <2>1, <2>2
    <3>3. SemValue[s] >= 0
      BY <1>1, <2>1 DEF SemValue
    <3>4. SemValue' = [SemValue EXCEPT ![s] = @ + 1]
      BY <3>1, <3>2, SemValueStep
    <3> QED
      BY <3>3, <3>4
  <2>4. UNCHANGED SemQueue
    BY <2>2 DEF SemQueue
  <2> QED
    BY <2>3, <2>4 DEF Semaphores!V, SemValue, SemQueue
<1> QED
  BY <1>2, <1>3

\* The counter and the wait list of sem.c together are a semaphore in the sense
\* of AbstractSem: every step of the kernel is a P, a V or no step at all.
THEOREM SemaphoresImplemented == Spec => SemSpec
<1>1. Init => Semaphores!Init
  <2> SUFFICES ASSUME Init PROVE Semaphores!Init
    OBVIOUS
  <2>1. \A s \in Sems : wait_list[s] = <<>> /\ Len(wait_list[s]) = 0
    BY DEF Init, TaskInit, Waitables
  <2>2. count \in [Sems -> Nat] /\ count = InitCount
    BY SemAssumption DEF Init, sem_init
  <2>3. SemValue = InitCount
    BY <2>1, <2>2 DEF SemValue
  <2> QED
    BY <2>1, <2>3 DEF Semaphores!Init, SemValue
<1>2. IInv /\ [Next]_vars => [Semaphores!Next]_<<SemValue, SemQueue>>
  <2> SUFFICES ASSUME IInv, [Next]_vars
               PROVE  [Semaphores!Next]_<<SemValue, SemQueue>>
    OBVIOUS
  <2>1. CASE TaskNext /\ UNCHANGED <<count, mutexVars>>
    <3>1. UNCHANGED wait_list
      BY <2>1 DEF TaskNext, task_init, sys_sched_yield, sys_sleep,
                  task_time_tick, tick_slice, tick_sleeper, tick_dispatch,
                  listVars
    <3> QED
      BY <2>1, <3>1, OtherSemStep
  <2>2. CASE SemNext
    <3>1. ASSUME NEW s \in Sems, sem_wait(s)
          PROVE  Semaphores!Next
      BY <3>1, SemWaitRefines, RunningNotInSem DEF Semaphores!Next, sem_wait
    <3>2. ASSUME NEW s \in Sems, sem_notify(s)
          PROVE  Semaphores!Next
      BY <3>2, SemNotifyRefines DEF Semaphores!Next
    <3> QED
      BY <2>2, <3>1, <3>2 DEF SemNext
  <2>3. CASE MutexNext /\ UNCHANGED count
    <3>1. PICK m \in Mutexes : rein_mutex_lock(m) \/ rein_mutex_unlock(m)
      BY <2>3 DEF MutexNext
    <3>2. \A s \in Sems : s \in Waitables /\ s # m
      BY TaskAssumption DEF Waitables
    <3>3. \A s \in Sems : wait_list'[s] = wait_list[s]
      BY <3>1, <3>2 DEF rein_mutex_lock, rein_mutex_unlock, BlockOn, WakeFirst,
                        taskVars, listVars, IInv, SchedInv, TaskTypeOK
    <3> QED
      BY <2>3, <3>3, OtherSemStep
  <2>4. CASE UNCHANGED vars
    BY <2>4, OtherSemStep DEF vars, taskVars, listVars
  <2> QED
    BY <2>1, <2>2, <2>3, <2>4 DEF Next
<1> QED
  BY <1>1, <1>2, Invariance, PTL
     DEF Spec, SemSpec, Semaphores!Spec, SemValue, SemQueue

-----------------------------------------------------------------------------
(* mutex.c implements AbstractMutex.                                       *)

MutexHeld ==
  [m \in Mutexes |-> [t \in Tasks |-> IF t = owner[m] THEN locker[m] ELSE 0]]
MutexTurns == [m \in Mutexes |-> wait_list[m]]

\* The running task waits for no mutex.
LEMMA RunningNotInMutex ==
  ASSUME IInv, TaskRuns
  PROVE  curr_task \in Tasks /\ curr_task \notin ReentrantMutexes!Waiting
<1>1. /\ curr_task \in Tasks
      /\ \A m \in Mutexes : curr_task \notin Range(wait_list[m])
  BY RunningIsReady DEF IInv, Waitables
<1>2. \A m \in Mutexes : \A k \in DOMAIN wait_list[m] : wait_list[m][k] # curr_task
  BY <1>1 DEF Range
<1> QED
  BY <1>1, <1>2 DEF ReentrantMutexes!Waiting

\* Only steps of mutex.c change what AbstractMutex sees.
LEMMA OtherMutexStep ==
  ASSUME UNCHANGED mutexVars, \A m \in Mutexes : wait_list'[m] = wait_list[m]
  PROVE  UNCHANGED <<MutexHeld, MutexTurns>>
BY DEF MutexHeld, MutexTurns, mutexVars

\* A step that changes the owner and the count of one mutex.
LEMMA MutexHeldStep ==
  ASSUME IInv, NEW m \in Mutexes, NEW f,
         \A p \in Mutexes \ {m} : owner'[p] = owner[p] /\ locker'[p] = locker[p],
         f = [t \in Tasks |-> IF t = owner'[m] THEN locker'[m] ELSE 0]
  PROVE  MutexHeld' = [MutexHeld EXCEPT ![m] = f]
<1>1. MutexHeld' = [p \in Mutexes |-> [t \in Tasks |->
                      IF t = owner'[p] THEN locker'[p] ELSE 0]]
  BY DEF MutexHeld
<1>2. \A p \in Mutexes :
        [t \in Tasks |-> IF t = owner'[p] THEN locker'[p] ELSE 0]
          = IF p = m THEN f
            ELSE [t \in Tasks |-> IF t = owner[p] THEN locker[p] ELSE 0]
  OBVIOUS
<1> QED
  BY <1>1, <1>2 DEF MutexHeld

\* rein_mutex_lock takes a free mutex, or one the task has already, and waits
\* for any other.
LEMMA LockRefines ==
  ASSUME IInv, NEW m \in Mutexes, rein_mutex_lock(m)
  PROVE  ReentrantMutexes!Lock(curr_task, m) \/ ReentrantMutexes!Wait(curr_task, m)
<1>1. curr_task \in Tasks /\ curr_task \notin ReentrantMutexes!Waiting
  BY RunningNotInMutex DEF rein_mutex_lock
<1>2. /\ wait_list \in [Waitables -> Seq(Tasks)]
      /\ locker \in [Mutexes -> Nat]
      /\ owner \in [Mutexes -> Tasks \cup {NULL}]
      /\ owner[m] = NULL <=> locker[m] = 0
      /\ NULL \notin Tasks
      /\ m \in Waitables
  BY TaskAssumption
     DEF IInv, SchedInv, TaskTypeOK, IpcInv, MutexNoLostWakeup, Waitables
<1>3. MutexHeld[m] = [t \in Tasks |-> IF t = owner[m] THEN locker[m] ELSE 0]
  BY DEF MutexHeld
<1>4. CASE UNCHANGED taskVars
  <2>1. UNCHANGED MutexTurns
    BY <1>4 DEF MutexTurns, taskVars, listVars
  <2>2. /\ locker[m] = 0 \/ owner[m] = curr_task
        /\ locker' = [locker EXCEPT ![m] = @ + 1]
        /\ owner' = [owner EXCEPT ![m] = curr_task]
    <3>1. ~BlockOn(m)
      <4> SUFFICES ASSUME BlockOn(m) PROVE FALSE
        OBVIOUS
      <4>1. wait_list[m] = Append(wait_list[m], curr_task)
        BY <1>2, <1>4 DEF BlockOn, taskVars, listVars
      <4>2. Len(Append(wait_list[m], curr_task)) = Len(wait_list[m]) + 1
        BY <1>1, <1>2, AppendProperties
      <4>3. Len(wait_list[m]) \in Nat
        BY <1>2, LenProperties
      <4> QED
        BY <4>1, <4>2, <4>3
    <3>2. CASE locker[m] = 0
      BY <3>2 DEF rein_mutex_lock
    <3>3. CASE locker[m] # 0
      BY <1>2, <3>1, <3>3 DEF rein_mutex_lock
    <3> QED
      BY <3>2, <3>3
  <2> DEFINE f == [MutexHeld[m] EXCEPT ![curr_task] = @ + 1]
  <2>3. f = [t \in Tasks |-> IF t = owner'[m] THEN locker'[m] ELSE 0]
    BY <1>1, <1>2, <1>3, <2>2
  <2>4. MutexHeld' = [MutexHeld EXCEPT ![m] = f]
    <3>1. \A p \in Mutexes \ {m} : owner'[p] = owner[p] /\ locker'[p] = locker[p]
      BY <1>2, <2>2
    <3> HIDE DEF f
    <3> QED
      BY <2>3, <3>1, MutexHeldStep
  <2>5. \/ \A t \in Tasks : MutexHeld[m][t] = 0
        \/ MutexHeld[m][curr_task] > 0
    BY <1>1, <1>2, <1>3, <2>2
  <2>6. ReentrantMutexes!Lock(curr_task, m)
    BY <1>1, <2>1, <2>4, <2>5
       DEF ReentrantMutexes!Lock, ReentrantMutexes!Free, MutexHeld, MutexTurns
  <2> QED
    BY <2>6
<1>5. CASE /\ locker[m] # 0
           /\ owner[m] # curr_task
           /\ BlockOn(m)
           /\ UNCHANGED mutexVars
  <2>1. UNCHANGED MutexHeld
    BY <1>5 DEF MutexHeld, mutexVars
  <2>2. MutexTurns' = [MutexTurns EXCEPT ![m] = Append(@, curr_task)]
    <3>1. \A p \in Mutexes : p \in Waitables
      BY DEF Waitables
    <3>2. wait_list' = [wait_list EXCEPT ![m] = Append(@, curr_task)]
      BY <1>5 DEF BlockOn
    <3> QED
      BY <1>2, <3>1, <3>2 DEF MutexTurns
  <2>3. owner[m] \in Tasks \ {curr_task} /\ MutexHeld[m][owner[m]] > 0
    BY <1>2, <1>3, <1>5
  <2>4. ReentrantMutexes!Wait(curr_task, m)
    BY <1>1, <2>1, <2>2, <2>3 DEF ReentrantMutexes!Wait, MutexHeld, MutexTurns
  <2> QED
    BY <2>4
<1> QED
  BY <1>4, <1>5 DEF rein_mutex_lock

\* rein_mutex_unlock undoes one lock, and the last one gives the mutex to the
\* task whose turn it is.
LEMMA UnlockRefines ==
  ASSUME IInv, NEW m \in Mutexes, rein_mutex_unlock(m)
  PROVE  \/ ReentrantMutexes!Unlock(curr_task, m)
         \/ ReentrantMutexes!HandOver(curr_task, m)
<1>1. curr_task \in Tasks /\ curr_task \notin ReentrantMutexes!Waiting
  BY RunningNotInMutex DEF rein_mutex_unlock
<1>2. /\ wait_list \in [Waitables -> Seq(Tasks)]
      /\ locker \in [Mutexes -> Nat]
      /\ owner \in [Mutexes -> Tasks \cup {NULL}]
      /\ owner[m] \notin Range(wait_list[m])
      /\ NULL \notin Tasks
      /\ m \in Waitables
      /\ \A p \in Mutexes : p \in Waitables
  BY TaskAssumption
     DEF IInv, SchedInv, TaskTypeOK, IpcInv, MutexNoLostWakeup, Waitables
<1>3. locker[m] # 0 /\ owner[m] = curr_task
  BY DEF rein_mutex_unlock
<1>4. MutexHeld[m] = [t \in Tasks |-> IF t = owner[m] THEN locker[m] ELSE 0]
  BY DEF MutexHeld
<1>5. CASE \/ locker[m] > 1
           \/ locker[m] = 1 /\ wait_list[m] = <<>>
  <2>1. /\ locker' = [locker EXCEPT ![m] = @ - 1]
        /\ \/ owner' = owner /\ locker[m] > 1
           \/ owner' = [owner EXCEPT ![m] = NULL] /\ locker[m] = 1
        /\ UNCHANGED taskVars
    BY <1>2, <1>5 DEF rein_mutex_unlock
  <2>2. UNCHANGED MutexTurns
    BY <2>1 DEF MutexTurns, taskVars, listVars
  <2> DEFINE f == [MutexHeld[m] EXCEPT ![curr_task] = @ - 1]
  <2>3. f = [t \in Tasks |-> IF t = owner'[m] THEN locker'[m] ELSE 0]
    <3>1. locker'[m] = locker[m] - 1 /\ owner'[m] \in {curr_task, NULL}
      BY <1>2, <1>3, <2>1
    <3>2. owner'[m] = NULL => locker[m] - 1 = 0
      BY <1>1, <1>2, <1>3, <2>1
    <3> QED
      BY <1>1, <1>2, <1>3, <1>4, <3>1, <3>2
  <2>4. MutexHeld' = [MutexHeld EXCEPT ![m] = f]
    <3>1. \A p \in Mutexes \ {m} : owner'[p] = owner[p] /\ locker'[p] = locker[p]
      BY <1>2, <2>1
    <3> HIDE DEF f
    <3> QED
      BY <2>3, <3>1, MutexHeldStep
  <2>5. /\ MutexHeld[m][curr_task] > 0
        /\ MutexHeld[m][curr_task] > 1 \/ MutexTurns[m] = <<>>
    BY <1>1, <1>2, <1>3, <1>4, <1>5 DEF MutexTurns
  <2>6. ReentrantMutexes!Unlock(curr_task, m)
    BY <1>1, <2>2, <2>4, <2>5 DEF ReentrantMutexes!Unlock, MutexHeld, MutexTurns
  <2> QED
    BY <2>6
<1>6. CASE locker[m] = 1 /\ wait_list[m] # <<>>
  <2> DEFINE w == Head(wait_list[m])
             f == [MutexHeld[m] EXCEPT ![curr_task] = 0, ![w] = 1]
  <2>1. /\ WakeFirst(m)
        /\ owner' = [owner EXCEPT ![m] = w]
        /\ UNCHANGED locker
    BY <1>6 DEF rein_mutex_unlock, new_owner
  <2>2. w \in Tasks /\ w # curr_task
    <3>1. w \in Tasks /\ w \in Range(wait_list[m])
      BY <1>2, <1>6, ListTypes, TailInjective, HeadTailProperties DEF IInv
    <3> QED
      BY <1>2, <1>3, <3>1
  <2>3. MutexTurns' = [MutexTurns EXCEPT ![m] = Tail(@)]
    BY <1>2, <2>1 DEF MutexTurns, WakeFirst
  <2>4. f = [t \in Tasks |-> IF t = owner'[m] THEN locker'[m] ELSE 0]
    <3> HIDE DEF w
    <3> QED
      BY <1>1, <1>2, <1>3, <1>4, <1>6, <2>1, <2>2
  <2>5. MutexHeld' = [MutexHeld EXCEPT ![m] = f]
    <3>1. \A p \in Mutexes \ {m} : owner'[p] = owner[p] /\ locker'[p] = locker[p]
      BY <1>2, <2>1
    <3> HIDE DEF f
    <3> QED
      BY <2>4, <3>1, MutexHeldStep
  <2>6. MutexHeld[m][curr_task] = 1 /\ MutexTurns[m] = wait_list[m]
    BY <1>1, <1>3, <1>4, <1>6 DEF MutexTurns
  <2>7. ReentrantMutexes!HandOver(curr_task, m)
    BY <1>1, <1>6, <2>3, <2>5, <2>6
       DEF ReentrantMutexes!HandOver, MutexHeld, MutexTurns
  <2> QED
    BY <2>7
<1> QED
  <2>1. locker[m] \in Nat
    BY <1>2
  <2> QED
    BY <1>3, <1>5, <1>6, <2>1

\* mutex.c is a reentrant lock in the sense of AbstractMutex: every step of the
\* kernel locks, waits, unlocks, hands over, or is no step at all.
THEOREM MutexesImplemented == Spec => MutexSpec
<1>1. Init => ReentrantMutexes!Init
  <2> SUFFICES ASSUME Init PROVE ReentrantMutexes!Init
    OBVIOUS
  <2>1. \A m \in Mutexes : wait_list[m] = <<>> /\ locker[m] = 0
    BY DEF Init, TaskInit, rein_mutex_init, Waitables
  <2>2. MutexHeld = [m \in Mutexes |-> [t \in Tasks |-> 0]]
    BY <2>1 DEF MutexHeld
  <2> QED
    BY <2>1, <2>2 DEF ReentrantMutexes!Init, MutexHeld
<1>2. IInv /\ [Next]_vars => [ReentrantMutexes!Next]_<<MutexHeld, MutexTurns>>
  <2> SUFFICES ASSUME IInv, [Next]_vars
               PROVE  [ReentrantMutexes!Next]_<<MutexHeld, MutexTurns>>
    OBVIOUS
  <2>1. CASE TaskNext /\ UNCHANGED <<count, mutexVars>>
    <3>1. UNCHANGED wait_list
      BY <2>1 DEF TaskNext, task_init, sys_sched_yield, sys_sleep,
                  task_time_tick, tick_slice, tick_sleeper, tick_dispatch,
                  listVars
    <3> QED
      BY <2>1, <3>1, OtherMutexStep
  <2>2. CASE SemNext /\ UNCHANGED mutexVars
    <3>1. PICK s \in Sems : sem_wait(s) \/ sem_notify(s)
      BY <2>2 DEF SemNext
    <3>2. \A m \in Mutexes : m \in Waitables /\ m # s
      BY TaskAssumption DEF Waitables
    <3>3. \A m \in Mutexes : wait_list'[m] = wait_list[m]
      BY <3>1, <3>2 DEF sem_wait, sem_notify, BlockOn, WakeFirst, taskVars,
                        listVars, IInv, SchedInv, TaskTypeOK
    <3> QED
      BY <2>2, <3>3, OtherMutexStep
  <2>3. CASE MutexNext
    <3>1. PICK m \in Mutexes : rein_mutex_lock(m) \/ rein_mutex_unlock(m)
      BY <2>3 DEF MutexNext
    <3>2. curr_task \in Tasks
      BY <3>1, RunningNotInMutex DEF rein_mutex_lock, rein_mutex_unlock
    <3>3. ASSUME rein_mutex_lock(m)
          PROVE  ReentrantMutexes!Next
      <4>1. \/ ReentrantMutexes!Lock(curr_task, m)
            \/ ReentrantMutexes!Wait(curr_task, m)
        BY <3>3, LockRefines
      <4>2. \E t \in Tasks : \/ ReentrantMutexes!Lock(t, m)
                            \/ ReentrantMutexes!Wait(t, m)
        BY <3>2, <4>1, Zenon DEF ReentrantMutexes!Lock, ReentrantMutexes!Wait
      <4> QED
        BY <4>2 DEF ReentrantMutexes!Next
    <3>4. ASSUME rein_mutex_unlock(m)
          PROVE  ReentrantMutexes!Next
      <4>1. \/ ReentrantMutexes!Unlock(curr_task, m)
            \/ ReentrantMutexes!HandOver(curr_task, m)
        BY <3>4, UnlockRefines
      <4>2. \E t \in Tasks : \/ ReentrantMutexes!Unlock(t, m)
                            \/ ReentrantMutexes!HandOver(t, m)
        BY <3>2, <4>1
           DEF ReentrantMutexes!Unlock, ReentrantMutexes!HandOver
      <4> QED
        BY <4>2 DEF ReentrantMutexes!Next
    <3> QED
      BY <3>1, <3>3, <3>4
  <2>4. CASE UNCHANGED vars
    BY <2>4, OtherMutexStep DEF vars, taskVars, listVars
  <2> QED
    BY <2>1, <2>2, <2>3, <2>4 DEF Next
<1> QED
  BY <1>1, <1>2, Invariance, PTL
     DEF Spec, MutexSpec, ReentrantMutexes!Spec, MutexHeld, MutexTurns

-----------------------------------------------------------------------------
(* Sleeping.  What a sleeper is owed and the ticks it has left agree, but  *)
(* the handler of a tick charges owed at once and sleep_ticks only when    *)
(* its loop comes by: a sleeper the loop has still to visit is one tick    *)
(* behind.                                                                 *)

\* The sum in sys_sleep does not pass UINT_MOD.
NoWrap == \A ms \in SleepMs : ms + OS_TICKS_MS - 1 < UINT_MOD

\* The loop of the handler has yet to visit t.
Pending(t) ==
  /\ curr_node # NULL
  /\ \E i, j \in DOMAIN sleep_list :
       i <= j /\ sleep_list[i] = curr_node /\ sleep_list[j] = t

TicksToGo(t) == IF Pending(t) THEN sleep_ticks[t] - 1 ELSE sleep_ticks[t]

\* owed is ticks * OS_TICKS_MS, rounded down by less than a tick.
Covers(ticks, ms) ==
  (ticks - 1) * OS_TICKS_MS < ms /\ ms <= ticks * OS_TICKS_MS

SleepInv ==
  /\ NoWrap
  /\ \A t \in Range(sleep_list) : Covers(TicksToGo(t), owed[t])

\* sys_sleep rounds up to whole ticks, and adds one for the tick under way.
LEMMA TicksOfCovers ==
  ASSUME NoWrap, NEW ms \in SleepMs
  PROVE  Covers(TicksOf(ms), ms + OS_TICKS_MS)
<1>1. /\ ms \in Nat
      /\ OS_TICKS_MS \in Nat /\ OS_TICKS_MS > 0
      /\ UINT_MOD \in Nat
      /\ ms + OS_TICKS_MS - 1 < UINT_MOD
  BY TaskAssumption DEF NoWrap
<1> DEFINE sum == ms + OS_TICKS_MS - 1
           q == sum \div OS_TICKS_MS
<1>2. sum \in Nat /\ sum % UINT_MOD = sum
  BY <1>1
<1>3. TicksOf(ms) = q + 1
  BY <1>2 DEF TicksOf
<1> HIDE DEF sum
<1>4. q \in Nat /\ q * OS_TICKS_MS <= sum /\ sum < q * OS_TICKS_MS + OS_TICKS_MS
  BY <1>1, <1>2
<1> HIDE DEF q
<1>5. (q + 1) * OS_TICKS_MS = q * OS_TICKS_MS + OS_TICKS_MS
  BY <1>1, <1>4
<1>6. q + 1 - 1 = q /\ q * OS_TICKS_MS \in Nat
  BY <1>1, <1>4
<1> QED
  BY <1>1, <1>3, <1>4, <1>5, <1>6 DEF Covers, sum

\* A tick takes one tick's length off what a sleeper is owed, down to zero.
LEMMA TickCovers ==
  ASSUME NEW n \in Nat, n > 0, NEW ms \in Nat, Covers(n, ms)
  PROVE  Covers(n - 1, IF ms > OS_TICKS_MS THEN ms - OS_TICKS_MS ELSE 0)
<1> DEFINE T == OS_TICKS_MS
<1>1. T \in Nat /\ T > 0
  BY TaskAssumption
<1>2. (n - 1) * T < ms /\ ms <= n * T
  BY DEF Covers
<1> HIDE DEF T
<1>3. /\ (n - 1) * T = n * T - T
      /\ (n - 1 - 1) * T = n * T - T - T
      /\ n * T \in Nat
  BY <1>1
<1>4. (n - 1) * T >= 0
  BY <1>1
<1>5. CASE ms > T
  BY <1>1, <1>2, <1>3, <1>5 DEF Covers, T
<1>6. CASE ~(ms > T)
  BY <1>1, <1>2, <1>3, <1>4, <1>6 DEF Covers, T
<1> QED
  BY <1>5, <1>6

\* One iteration of the loop: the node it looks at has been visited, and for
\* every other sleeper nothing changes, whether or not the node is taken off
\* the list.
LEMMA LoopVisits ==
  ASSUME SchedInv, tick_sleeper, NEW n, n = curr_node
  PROVE  /\ n \in Range(sleep_list)
         /\ Pending(n)
         /\ ~Pending(n)'
         /\ \A t \in Range(sleep_list) \ {n} : Pending(t)' <=> Pending(t)
<1> DEFINE l == sleep_list
           k == CHOOSE k \in DOMAIN l : l[k] = n
<1>1. n \in Range(l) /\ n # NULL /\ l \in Seq(Tasks) /\ IsInjective(l)
  BY ListTypes DEF tick_sleeper, SchedInv, TickConsistent
<1>2. k \in DOMAIN l /\ l[k] = n
  BY <1>1 DEF Range
<1>3. DOMAIN l = 1 .. Len(l) /\ Len(l) \in Nat
  BY <1>1, LenProperties
<1>4. curr_node' = IF k = Len(l) THEN NULL ELSE l[k + 1]
  BY DEF tick_sleeper, tick_next, list_node_next
<1>5. \A i, j \in 1 .. Len(l) : l[i] = l[j] => i = j
  BY <1>1, <1>3 DEF IsInjective
<1>6. \A i \in 1 .. Len(l) : l[i] # NULL
  BY <1>1, <1>3, TaskAssumption
<1>7. \/ l' = l
      \/ l' = RemoveAt(l, k)
  BY DEF tick_sleeper, task_set_wakeup, list_pop
<1> HIDE DEF k
<1>8. \A t : Pending(t) <=> \E j \in k .. Len(l) : l[j] = t
  BY <1>1, <1>2, <1>3, <1>5 DEF Pending
<1>9. CASE l' = l
  <2>1. \A t : Pending(t)' <=> \E j \in k + 1 .. Len(l) : l[j] = t
    <3>1. CASE k = Len(l)
      BY <1>3, <1>4, <1>9, <3>1 DEF Pending
    <3>2. CASE k # Len(l)
      <4>1. k + 1 \in 1 .. Len(l) /\ curr_node' = l[k + 1] /\ curr_node' # NULL
        BY <1>2, <1>3, <1>4, <1>6, <3>2
      <4> QED
        BY <1>3, <1>5, <1>9, <4>1 DEF Pending
    <3> QED
      BY <3>1, <3>2
  <2>2. \A t : Pending(t)' <=> Pending(t) /\ t # n
    <3>1. \A t : (\E j \in k + 1 .. Len(l) : l[j] = t)
                  <=> (\E j \in k .. Len(l) : l[j] = t) /\ t # n
      BY <1>2, <1>3, <1>5
    <3> QED
      BY <1>8, <2>1, <3>1
  <2>3. Pending(n)
    BY <1>2, <1>3, <1>8
  <2> QED
    BY <1>1, <2>2, <2>3
<1>10. CASE l' = RemoveAt(l, k)
  <2>1. /\ l' \in Seq(Tasks)
        /\ Len(l') = Len(l) - 1
        /\ \A i \in 1 .. Len(l) - 1 : l'[i] = IF i < k THEN l[i] ELSE l[i + 1]
    BY <1>1, <1>2, <1>3, <1>10, RemoveAtProperties
  <2>2. DOMAIN l' = 1 .. Len(l) - 1
    BY <1>3, <2>1, LenProperties
  <2>3. \A i, j \in 1 .. Len(l) - 1 : l'[i] = l'[j] => i = j
    BY <1>2, <1>3, <1>5, <2>1
  <2>4. \A t : Pending(t)' <=> \E j \in k .. Len(l) - 1 : l'[j] = t
    <3>1. CASE k = Len(l)
      BY <1>3, <1>4, <3>1 DEF Pending
    <3>2. CASE k # Len(l)
      <4>1. /\ k \in 1 .. Len(l) - 1
            /\ curr_node' = l'[k]
            /\ curr_node' # NULL
        BY <1>2, <1>3, <1>4, <1>6, <2>1, <3>2
      <4> QED
        BY <1>3, <2>2, <2>3, <4>1 DEF Pending
    <3> QED
      BY <3>1, <3>2
  <2>5. \A t : (\E j \in k .. Len(l) - 1 : l'[j] = t)
                <=> \E j \in k + 1 .. Len(l) : l[j] = t
    <3> SUFFICES ASSUME NEW t
                 PROVE  (\E j \in k .. Len(l) - 1 : l'[j] = t)
                          <=> \E j \in k + 1 .. Len(l) : l[j] = t
      OBVIOUS
    <3>1. ASSUME NEW j \in k .. Len(l) - 1, l'[j] = t
          PROVE  j + 1 \in k + 1 .. Len(l) /\ l[j + 1] = t
      BY <1>2, <1>3, <2>1, <3>1
    <3>2. ASSUME NEW j \in k + 1 .. Len(l), l[j] = t
          PROVE  j - 1 \in k .. Len(l) - 1 /\ l'[j - 1] = t
      BY <1>2, <1>3, <2>1, <3>2
    <3> QED
      BY <3>1, <3>2
  <2>6. \A t : Pending(t)' <=> Pending(t) /\ t # n
    <3>1. \A t : (\E j \in k + 1 .. Len(l) : l[j] = t)
                  <=> (\E j \in k .. Len(l) : l[j] = t) /\ t # n
      BY <1>2, <1>3, <1>5
    <3> QED
      BY <1>8, <2>4, <2>5, <3>1
  <2>7. Pending(n)
    BY <1>2, <1>3, <1>8
  <2> QED
    BY <1>1, <2>6, <2>7
<1> QED
  BY <1>7, <1>9, <1>10

\* Calls, outside the handler: whoever slept before is owed what it was, and
\* the only new sleeper is the one that calls sys_sleep.
LEMMA OutsideSleep ==
  ASSUME SchedInv, SleepInv, ~in_tick, UNCHANGED tickVars,
         \A t \in Range(sleep_list') :
           \/ /\ t \in Range(sleep_list)
              /\ sleep_ticks'[t] = sleep_ticks[t]
              /\ owed'[t] = owed[t]
           \/ Covers(sleep_ticks'[t], owed'[t])
  PROVE  SleepInv'
<1>1. curr_node = NULL /\ curr_node' = NULL
  BY DEF SchedInv, TickConsistent, tickVars
<1>2. \A t : ~Pending(t) /\ ~Pending(t)'
  BY <1>1 DEF Pending
<1>3. \A t : TicksToGo(t) = sleep_ticks[t] /\ TicksToGo(t)' = sleep_ticks'[t]
  BY <1>2 DEF TicksToGo
<1>4. ASSUME NEW t \in Range(sleep_list')
      PROVE  Covers(sleep_ticks'[t], owed'[t])
  <2>1. ASSUME t \in Range(sleep_list), sleep_ticks'[t] = sleep_ticks[t],
               owed'[t] = owed[t]
        PROVE  Covers(sleep_ticks'[t], owed'[t])
    BY <1>3, <2>1 DEF SleepInv
  <2> QED
    BY <2>1
<1>5. \A t \in Range(sleep_list') : Covers(TicksToGo(t)', owed'[t])
  BY <1>3, <1>4
<1> QED
  BY <1>5 DEF SleepInv, Covers

\* The handler up to its loop: every sleeper is charged and none visited.
LEMMA SliceSleep ==
  ASSUME SchedInv, SleepInv, tick_slice
  PROVE  SleepInv'
<1>1. UNCHANGED <<sleep_list, sleep_ticks>> /\ ~in_tick
  BY DEF tick_slice
<1>2. \A t : ~Pending(t)
  BY <1>1 DEF SchedInv, TickConsistent, Pending
<1>3. sleep_list \in Seq(Tasks) /\ Range(sleep_list) \subseteq Tasks
  BY ListTypes
<1>4. ASSUME NEW t \in Range(sleep_list)
      PROVE  Pending(t)'
  <2>1. DOMAIN sleep_list = 1 .. Len(sleep_list) /\ Len(sleep_list) \in Nat
    BY <1>3, LenProperties
  <2>2. PICK j \in 1 .. Len(sleep_list) : sleep_list[j] = t
    BY <2>1 DEF Range
  <2>3. curr_node' = sleep_list[1] /\ 1 \in DOMAIN sleep_list
    BY <2>1, <2>2 DEF tick_slice, tick_first, list_first
  <2>4. sleep_list[1] \in Tasks /\ sleep_list[1] # NULL
    BY <1>3, <2>3, TaskAssumption DEF Range
  <2> QED
    BY <1>1, <2>1, <2>2, <2>3, <2>4 DEF Pending
<1>5. ASSUME NEW t \in Range(sleep_list)
      PROVE  Covers(sleep_ticks[t] - 1, owed'[t])
  <2>1. t \in Tasks /\ sleep_ticks[t] \in Nat /\ sleep_ticks[t] > 0 /\ owed[t] \in Nat
    BY <1>3 DEF SchedInv, TaskTypeOK, TicksLeft
  <2>2. Covers(sleep_ticks[t], owed[t])
    BY <1>2 DEF SleepInv, TicksToGo
  <2>3. owed'[t] = IF owed[t] > OS_TICKS_MS THEN owed[t] - OS_TICKS_MS ELSE 0
    BY <2>1 DEF tick_slice
  <2> QED
    BY <2>1, <2>2, <2>3, TickCovers
<1>6. \A t \in Range(sleep_list') : Covers(TicksToGo(t)', owed'[t])
  BY <1>1, <1>4, <1>5 DEF TicksToGo
<1> QED
  BY <1>6 DEF SleepInv, Covers

\* The loop: the sleeper it visits is charged its tick.
LEMMA LoopSleep ==
  ASSUME SchedInv, SleepInv, tick_sleeper
  PROVE  SleepInv'
<1>1. PICK n : n = curr_node
  OBVIOUS
<1>2. /\ n \in Range(sleep_list)
      /\ Pending(n)
      /\ ~Pending(n)'
      /\ \A t \in Range(sleep_list) \ {n} : Pending(t)' <=> Pending(t)
  BY <1>1, LoopVisits
<1>3. /\ Range(sleep_list) \subseteq Tasks
      /\ \/ UNCHANGED <<sleep_list, owed>>
         \/ /\ Range(sleep_list') = Range(sleep_list) \ {n}
            /\ owed' = [owed EXCEPT ![n] = 0]
  BY <1>1, <1>2, ListTypes, ListPop DEF tick_sleeper, task_set_wakeup
<1>4. \A t \in Tasks : sleep_ticks'[t] = IF t = n THEN sleep_ticks[t] - 1
                                                 ELSE sleep_ticks[t]
  BY <1>1, <1>2, <1>3 DEF tick_sleeper, SchedInv, TaskTypeOK
<1>5. ASSUME NEW t \in Range(sleep_list')
      PROVE  /\ t \in Range(sleep_list)
             /\ owed'[t] = owed[t]
             /\ TicksToGo(t)' = TicksToGo(t)
  <2>1. t \in Range(sleep_list) /\ t \in Tasks /\ owed'[t] = owed[t]
    BY <1>2, <1>3 DEF SchedInv, TaskTypeOK
  <2> QED
    BY <1>2, <1>4, <2>1 DEF TicksToGo
<1>6. \A t \in Range(sleep_list') : Covers(TicksToGo(t)', owed'[t])
  BY <1>5 DEF SleepInv
<1> QED
  BY <1>6 DEF SleepInv, Covers

\* Every step keeps SleepInv.
LEMMA NextSleepInv == IInv /\ SleepInv /\ [Next]_vars => SleepInv'
<1> SUFFICES ASSUME IInv, SleepInv, [Next]_vars PROVE SleepInv'
  OBVIOUS
<1>1. SchedInv
  BY DEF IInv
<1>2. CASE UNCHANGED <<sleepVars, tickVars>>
  BY <1>2 DEF SleepInv, Covers, TicksToGo, Pending, sleepVars, tickVars
<1>3. ASSUME NEW t \in Tasks, task_init(t)
      PROVE  SleepInv'
  <2>1. t \notin Range(sleep_list)
    BY <1>1, <1>3 DEF task_init, SchedInv, OneQueue, NoneLost
  <2>2. /\ UNCHANGED <<tickVars, sleep_list, owed>>
        /\ ~in_tick
        /\ \A u \in Range(sleep_list) : sleep_ticks'[u] = sleep_ticks[u]
    BY <1>1, <1>3, <2>1, ListTypes
       DEF task_init, TaskRuns, SchedInv, TaskTypeOK
  <2> QED
    BY <1>1, <2>2, OutsideSleep
<1>4. ASSUME NEW ms \in SleepMs, sys_sleep(ms)
      PROVE  SleepInv'
  <2>1. /\ curr_task \in Tasks
        /\ UNCHANGED tickVars
        /\ ~in_tick
        /\ sleep_ticks' = [sleep_ticks EXCEPT ![curr_task] = TicksOf(ms)]
        /\ owed' = [owed EXCEPT ![curr_task] = ms + OS_TICKS_MS]
        /\ sleep_list' = Append(sleep_list, curr_task)
    BY <1>1, <1>4, RunningIsReady DEF sys_sleep, TaskRuns
  <2>2. /\ Range(sleep_list') = Range(sleep_list) \cup {curr_task}
        /\ Range(sleep_list) \subseteq Tasks
    BY <1>1, <2>1, ListTypes, AppendRange
  <2>3. Covers(TicksOf(ms), ms + OS_TICKS_MS)
    BY TicksOfCovers DEF SleepInv
  <2>4. \A t \in Range(sleep_list') :
          \/ /\ t \in Range(sleep_list)
             /\ sleep_ticks'[t] = sleep_ticks[t]
             /\ owed'[t] = owed[t]
          \/ /\ sleep_ticks'[t] = TicksOf(ms)
             /\ owed'[t] = ms + OS_TICKS_MS
    BY <1>1, <2>1, <2>2 DEF SchedInv, TaskTypeOK
  <2> QED
    BY <1>1, <2>1, <2>3, <2>4, OutsideSleep
<1>5. CASE TaskNext
  <2>1. CASE sys_sched_yield
    BY <1>2, <2>1 DEF sys_sched_yield
  <2>2. CASE tick_dispatch
    BY <2>2 DEF tick_dispatch, SleepInv, Covers, TicksToGo, Pending, listVars
  <2> QED
    BY <1>1, <1>3, <1>4, <1>5, <2>1, <2>2, SliceSleep, LoopSleep
       DEF TaskNext, task_time_tick
<1>6. CASE SemNext \/ MutexNext
  <2>1. UNCHANGED <<sleepVars, tickVars>>
    BY <1>6, IpcEffect
       DEF taskVars, listVars, sleepVars, tickVars, BlockOn, WakeFirst
  <2> QED
    BY <1>2, <2>1
<1>7. CASE UNCHANGED vars
  BY <1>2, <1>7 DEF vars, taskVars, listVars, sleepVars, tickVars
<1> QED
  BY <1>5, <1>6, <1>7 DEF Next

\* SleepInv holds, when no sleep is long enough to wrap.
LEMMA SleepInvariance == NoWrap /\ Spec => []SleepInv
<1>1. NoWrap /\ Init => SleepInv
  BY EmptyList DEF Init, TaskInit, SleepInv
<1> QED
  BY <1>1, Invariance, NextSleepInv, PTL DEF Spec

\* A sleeper that does not ask for so long that the sum in sys_sleep wraps is
\* woken by the first tick at which its time has certainly passed.
THEOREM SleepersPunctual == NoWrap /\ Spec => []SleepPunctual
<1>1. IInv /\ SleepInv => SleepPunctual
  <2> SUFFICES ASSUME IInv, SleepInv, ~in_tick, NEW t \in Range(sleep_list)
               PROVE  owed[t] > 0
    BY DEF SleepPunctual
  <2>1. /\ t \in Tasks /\ ~Pending(t)
        /\ sleep_ticks[t] \in Nat /\ sleep_ticks[t] > 0 /\ owed[t] \in Nat
    BY ListTypes
       DEF IInv, SchedInv, TaskTypeOK, TicksLeft, TickConsistent, Pending
  <2>2. (sleep_ticks[t] - 1) * OS_TICKS_MS < owed[t]
    BY <2>1 DEF SleepInv, Covers, TicksToGo
  <2>3. OS_TICKS_MS \in Nat
    BY TaskAssumption
  <2>4. (sleep_ticks[t] - 1) * OS_TICKS_MS >= 0
    BY <2>1, <2>3
  <2>5. (sleep_ticks[t] - 1) * OS_TICKS_MS \in Int
    BY <2>1, <2>3
  <2> QED
    BY <2>1, <2>2, <2>4, <2>5
<1> QED
  BY <1>1, Invariance, SleepInvariance, PTL

\* And no sleeper that does not ask for so long is woken before its time.
THEOREM NobodyWokenEarly == NoWrap /\ Spec => NoEarlyWake
<1> DEFINE A == \A t \in Range(sleep_list) :
                  t \notin Range(sleep_list)' => owed[t] <= 0
<1>1. IInv /\ SleepInv /\ [Next]_vars => A
  <2> SUFFICES ASSUME IInv, SleepInv, [Next]_vars, NEW t \in Range(sleep_list),
                      t \notin Range(sleep_list')
               PROVE  owed[t] <= 0
    OBVIOUS
  <2>1. SchedInv
    BY DEF IInv
  <2>2. CASE tick_sleeper
    <3>1. /\ t = curr_node
          /\ sleep_ticks[t] = 1
      BY <2>1, <2>2, ListTypes, ListPop
         DEF tick_sleeper, task_set_wakeup, SchedInv, TickConsistent
    <3>2. Pending(t)
      BY <2>1, <2>2, <3>1, LoopVisits
    <3>3. owed[t] <= (1 - 1) * OS_TICKS_MS
      BY <3>1, <3>2 DEF SleepInv, Covers, TicksToGo
    <3>4. (1 - 1) * OS_TICKS_MS = 0
      BY TaskAssumption
    <3> QED
      BY <3>3, <3>4
  <2>3. CASE \E ms \in SleepMs : sys_sleep(ms)
    <3>1. Range(sleep_list') = Range(sleep_list) \cup {curr_task}
      BY <2>1, <2>3, ListTypes, RunningIsReady, AppendRange DEF sys_sleep
    <3> QED
      BY <3>1
  <2>4. CASE UNCHANGED sleep_list
    BY <2>4
  <2>5. CASE SemNext \/ MutexNext
    <3>1. UNCHANGED sleep_list
      BY <2>5, IpcEffect DEF taskVars, listVars, sleepVars, BlockOn, WakeFirst
    <3> QED
      BY <2>4, <3>1
  <2>6. CASE TaskNext
    BY <2>2, <2>3, <2>4, <2>6
       DEF TaskNext, task_init, sys_sched_yield, task_time_tick, tick_slice,
           tick_dispatch, listVars, sleepVars
  <2>7. CASE UNCHANGED vars
    BY <2>4, <2>7 DEF vars, taskVars, listVars
  <2> QED
    BY <2>5, <2>6, <2>7 DEF Next
<1> QED
  BY <1>1, Invariance, SleepInvariance, PTL DEF Spec, NoEarlyWake

=============================================================================
