----------------------------- MODULE MainProofs ------------------------------
(***************************************************************************)
(* Proofs about modules Main and Exception: the program of init.c and its  *)
(* log, for any number of printing tasks, any length of line and any       *)
(* sleeping times, and what becomes of the log when tasks fault.           *)
(*                                                                         *)
(* The calls of the kernel keep IInv whatever program makes them (module   *)
(* KernelProofs).  ProgInv says on top of it what each task's place in its *)
(* program tells about the lists it may be on.                             *)
(***************************************************************************)
EXTENDS Exception, KernelProofs

ProgType ==
  /\ pc \in [Tasks -> {"create", "log", "put", "unlock", "notify", "sleep", "wait"}]
  /\ pos \in [Tasks -> 1 .. LF]
  /\ due \in Int
  /\ pc[new_task] \in {"wait", "log", "put", "unlock"}

\* A task is past its call of rein_mutex_lock exactly when it owns the mutex
\* or waits for it; it never nests its locks.
LogInv ==
  /\ locker[log_mutex] \in {0, 1}
  /\ \A t \in Tasks :
       (pc[t] \in {"put", "unlock"})
         <=> (t = owner[log_mutex] \/ t \in Range(wait_list[log_mutex]))

\* Only the owner is in the middle of a line, and what is on the wire is what
\* it has printed of it.
LineInv ==
  /\ \A t \in Tasks : pos[t] # 1 => pc[t] = "put" /\ owner[log_mutex] = t
  /\ line = IF owner[log_mutex] = NULL THEN <<>>
            ELSE [k \in 1 .. pos[owner[log_mutex]] - 1 |-> <<owner[log_mutex], k>>]

\* Whoever sleeps, waits for anything but the log or has not been created
\* does not hold the log.
IdleInv ==
  /\ \A t \in Range(sleep_list) : pc[t] = "log"
  /\ \A o \in Waitables \ {log_mutex} : \A t \in Range(wait_list[o]) : pc[t] = "log"
  /\ \A t \in Tasks \ Created : pc[t] \in {"wait", "log"}

\* new_task alone waits for its notifications, and none is lost.
SignalInv ==
  /\ Range(wait_list[notify_task_print]) \subseteq {new_task}
  /\ SignalsConserved

ProgInv == ProgType /\ LogInv /\ LineInv /\ IdleInv /\ SignalInv

-----------------------------------------------------------------------------
(* The kernel's part.                                                      *)

\* The constants of the program, as the proofs need them.
LEMMA Constants ==
  /\ main_task \in Tasks /\ new_task \in Tasks /\ main_task # new_task
  /\ log_mutex \in Mutexes /\ notify_task_print \in Sems
  /\ log_mutex \in Waitables /\ notify_task_print \in Waitables
  /\ log_mutex # notify_task_print
  /\ NULL \notin Tasks
  /\ LineLen \in Nat /\ LF = LineLen + 2 /\ LF \in Nat /\ LF > 1
BY TaskAssumption, MainAssumption DEF Waitables, LF

\* Every step of the program is a step of module Kernel, whose tasks may call
\* anything, or leaves the kernel's state alone.
LEMMA MainStep == [MainNext]_progVars => [Next]_vars
<1> SUFFICES ASSUME [MainNext]_progVars PROVE [Next]_vars
  OBVIOUS
<1>1. CASE TaskNext /\ UNCHANGED <<count, mutexVars>>
  BY <1>1 DEF Next
<1>2. CASE UNCHANGED <<taskVars, count, mutexVars>>
  BY <1>2 DEF vars
<1>3. CASE Tick
  BY <1>1, <1>3 DEF Tick, TaskNext
<1>4. ASSUME NEW t \in Tasks, Step(t)
      PROVE  [Next]_vars
  <2>1. CASE log_lock(t)
    BY <2>1, Constants DEF log_lock, log_acquire, MutexNext, Next
  <2>2. CASE log_put(t)
    BY <2>2, <1>2 DEF log_put
  <2>3. CASE log_unlock(t)
    BY <2>3, Constants DEF log_unlock, log_release, MutexNext, Next
  <2>4. ASSUME NEW u \in Tasks, create(u)
        PROVE  [Next]_vars
    BY <2>4, <1>1 DEF create, TaskNext
  <2>5. CASE notify
    BY <2>5, Constants DEF notify, SemNext, Next
  <2>6. CASE wait
    BY <2>6, Constants DEF wait, SemNext, Next
  <2>7. ASSUME NEW ms \in SleepMs, sleep(t, ms)
        PROVE  [Next]_vars
    BY <2>7, <1>1 DEF sleep, TaskNext
  <2> QED
    BY <1>4, <2>1, <2>2, <2>3, <2>4, <2>5, <2>6, <2>7 DEF Step
<1>5. CASE UNCHANGED progVars
  BY <1>2, <1>5 DEF progVars
<1> QED
  BY <1>3, <1>4, <1>5 DEF MainNext

\* The program of init.c is one of those that module Kernel stands for, so that
\* all that is proved about the kernel is true of it.
THEOREM ProgramOnKernel == MainSpec => Spec
<1>1. MainInit => Init
  BY DEF MainInit, Init
<1> QED
  BY <1>1, MainStep, PTL DEF MainSpec, Spec

\* So every step of the program keeps the kernel's invariant.
LEMMA MainIInv == IInv /\ [MainNext]_progVars => IInv'
  BY MainStep, NextIInv

\* The task that runs has been created and is on no list but the ready list.
LEMMA RunningTask ==
  ASSUME IInv, NEW t \in Tasks, Runs(t)
  PROVE  /\ t = curr_task /\ t \in Created /\ t \in Range(ready_list)
         /\ t \notin Range(sleep_list)
         /\ \A o \in Waitables : t \notin Range(wait_list[o])
<1>1. SchedInv /\ TaskRuns /\ t = curr_task
  BY DEF IInv, Runs
<1>2. /\ t \in Range(ready_list) /\ t \notin Range(sleep_list)
      /\ \A o \in Waitables : t \notin Range(wait_list[o])
  BY <1>1, RunningIsReady
<1>3. t \in Created
  BY <1>1, <1>2 DEF SchedInv, OneQueue, NoneLost
<1> QED
  BY <1>1, <1>2, <1>3

\* A line that has not been begun.
LEMMA NoCharacters ==
  ASSUME NEW t
  PROVE  [k \in 1 .. 1 - 1 |-> <<t, k>>] = <<>>
OBVIOUS

\* The initial state.
LEMMA InitProgInv == MainInit => IInv /\ ProgInv
<1> SUFFICES ASSUME MainInit PROVE IInv /\ ProgInv
  OBVIOUS
<1>1. IInv
  BY InitIInv DEF MainInit
<1>2. /\ \A o \in Waitables : wait_list[o] = <<>> /\ Range(wait_list[o]) = {}
      /\ sleep_list = <<>> /\ Range(sleep_list) = {}
      /\ Created = {main_task}
  BY EmptyList DEF MainInit, TaskInit, Created, Range
<1>3. /\ owner[log_mutex] = NULL /\ locker[log_mutex] = 0
      /\ count[notify_task_print] = 0
  BY Constants, MainAssumption DEF MainInit, rein_mutex_init, sem_init
<1>4. /\ pc = [t \in Tasks |-> CASE t = main_task -> "create"
                                 [] t = new_task -> "wait"
                                 [] OTHER -> "log"]
      /\ pos = [t \in Tasks |-> 1] /\ line = <<>> /\ due = 0
  BY DEF MainInit
<1>5. /\ pc \in [Tasks -> {"create", "log", "wait"}]
      /\ pc[new_task] = "wait"
      /\ \A t \in Tasks \ {main_task} : pc[t] \in {"wait", "log"}
  BY <1>4, Constants
<1>6. ProgType
  BY <1>4, <1>5, Constants DEF ProgType
<1>7. LogInv /\ LineInv
  BY <1>2, <1>3, <1>4, <1>5, Constants DEF LogInv, LineInv
<1>8. IdleInv
  BY <1>2, <1>5 DEF IdleInv
<1>9. SignalInv
  BY <1>2, <1>3, <1>4, <1>5, Constants DEF SignalInv, SignalsConserved
<1> QED
  BY <1>1, <1>6, <1>7, <1>8, <1>9 DEF ProgInv

-----------------------------------------------------------------------------
(* The program's part.                                                     *)

\* Steps that leave the program alone, and wake sleepers at most.
LEMMA QuietStep ==
  ASSUME ProgInv, UNCHANGED <<mainVars, count, mutexVars, wait_list, task_list>>,
         Range(sleep_list') \subseteq Range(sleep_list)
  PROVE  ProgInv'
<1>1. UNCHANGED <<pc, pos, line, due, count, locker, owner, wait_list, Created>>
  BY DEF mainVars, mutexVars, Created
<1>2. ProgType' /\ LogInv' /\ LineInv'
  BY <1>1 DEF ProgInv, ProgType, LogInv, LineInv
<1>3. IdleInv'
  BY <1>1 DEF ProgInv, IdleInv
<1>4. SignalInv'
  BY <1>1 DEF ProgInv, SignalInv, SignalsConserved
<1> QED
  BY <1>2, <1>3, <1>4 DEF ProgInv

\* The timer.
LEMMA TickProg ==
  ASSUME IInv, ProgInv, Tick
  PROVE  ProgInv'
<1>1. SchedInv /\ UNCHANGED <<mainVars, count, mutexVars>>
  BY DEF IInv, Tick
<1>2. UNCHANGED <<wait_list, task_list>>
  BY DEF Tick, task_time_tick, tick_slice, tick_sleeper, tick_dispatch, listVars
<1>3. Range(sleep_list') \subseteq Range(sleep_list)
  <2>1. CASE UNCHANGED sleep_list
    BY <2>1
  <2>2. CASE tick_sleeper /\ sleep_list' = task_set_wakeup(sleep_list, curr_node)
    <3>1. curr_node \in Range(sleep_list)
      BY <1>1, <2>2 DEF SchedInv, TickConsistent, tick_sleeper
    <3> QED
      BY <1>1, <2>2, <3>1, ListTypes, ListPop DEF task_set_wakeup
  <2> QED
    BY <2>1, <2>2 DEF Tick, task_time_tick, tick_slice, tick_sleeper,
                      tick_dispatch, listVars
<1> QED
  BY <1>1, <1>2, <1>3, QuietStep

\* A running task moves on in its program outside of the log, and goes to
\* sleep or creates another one.
LEMMA OwnStep ==
  ASSUME IInv, ProgInv, NEW t \in Tasks \ {new_task}, Runs(t),
         pc[t] \notin {"put", "unlock"},
         NEW l \in {"create", "log"}, pc' = [pc EXCEPT ![t] = l],
         UNCHANGED <<pos, line, due, count, mutexVars, wait_list>>,
         Created \subseteq Created',
         \/ UNCHANGED sleep_list
         \/ Range(sleep_list') = Range(sleep_list) \cup {t} /\ l = "log"
  PROVE  ProgInv'
<1>1. /\ t \in Created /\ t \notin Range(sleep_list)
      /\ \A o \in Waitables : t \notin Range(wait_list[o])
  BY RunningTask
<1>2. UNCHANGED <<pos, line, due, count, locker, owner, wait_list>>
  BY DEF mutexVars
<1>3. /\ pc'[t] = l /\ \A u \in Tasks : u # t => pc'[u] = pc[u]
      /\ pc'[new_task] = pc[new_task]
      /\ pc' \in [Tasks -> {"create", "log", "put", "unlock", "notify", "sleep", "wait"}]
  BY Constants DEF ProgInv, ProgType
<1>4. ProgType'
  BY <1>2, <1>3 DEF ProgInv, ProgType
<1>5. LogInv'
  BY <1>2, <1>3 DEF ProgInv, LogInv
<1>6. LineInv'
  <2>1. \A u \in Tasks : pos[u] # 1 => u # t
    BY DEF ProgInv, LineInv
  <2> QED
    BY <1>2, <1>3, <2>1 DEF ProgInv, LineInv
<1>7. IdleInv'
  <2>1. \A u \in Range(sleep_list') : pc'[u] = "log"
    <3>1. \A u \in Range(sleep_list) : u \in Tasks /\ u # t /\ pc[u] = "log"
      BY <1>1, ListTypes DEF ProgInv, IdleInv, IInv
    <3> QED
      BY <1>3, <3>1
  <2>2. \A o \in Waitables \ {log_mutex} :
          \A u \in Range(wait_list'[o]) : pc'[u] = "log"
    <3>1. \A o \in Waitables : \A u \in Range(wait_list[o]) : u \in Tasks /\ u # t
      BY <1>1, ListTypes DEF IInv
    <3> QED
      BY <1>2, <1>3, <3>1 DEF ProgInv, IdleInv
  <2>3. \A u \in Tasks \ Created' : pc'[u] \in {"wait", "log"}
    BY <1>1, <1>3 DEF ProgInv, IdleInv
  <2> QED
    BY <2>1, <2>2, <2>3 DEF IdleInv
<1>8. SignalInv'
  BY <1>2, <1>3 DEF ProgInv, SignalInv, SignalsConserved
<1> QED
  BY <1>4, <1>5, <1>6, <1>7, <1>8 DEF ProgInv

\* init_main creates a task.
LEMMA CreateProg ==
  ASSUME IInv, ProgInv, NEW u \in Tasks, create(u)
  PROVE  ProgInv'
<1>1. Runs(main_task) /\ pc[main_task] = "create" /\ main_task \in Tasks \ {new_task}
  BY Constants DEF create
<1>2. PICK l \in {"create", "log"} : pc' = [pc EXCEPT ![main_task] = l]
  BY DEF create, Goto
<1>3. UNCHANGED <<pos, line, due, count, mutexVars, wait_list, sleep_list>>
  BY DEF create, task_init
<1>4. Created \subseteq Created'
  <2>1. task_list \in Seq(Tasks) /\ task_list' = Append(task_list, u)
    BY DEF IInv, SchedInv, TaskTypeOK, create, task_init
  <2> QED
    BY <2>1, AppendRange DEF Created
<1> QED
  BY <1>1, <1>2, <1>3, <1>4, OwnStep

\* A task goes to sleep between two lines.
LEMMA SleepProg ==
  ASSUME IInv, ProgInv, NEW t \in Tasks, NEW ms \in SleepMs, sleep(t, ms)
  PROVE  ProgInv'
<1>1. Runs(t) /\ pc[t] = "sleep" /\ pc' = [pc EXCEPT ![t] = "log"]
  BY DEF sleep, Goto
<1>2. t # new_task
  BY <1>1 DEF ProgInv, ProgType
<1>3. UNCHANGED <<pos, line, due, count, mutexVars, wait_list, task_list>>
  BY DEF sleep, sys_sleep
<1>4. Range(sleep_list') = Range(sleep_list) \cup {t}
  <2>1. sleep_list \in Seq(Tasks) /\ sleep_list' = Append(sleep_list, t)
    BY <1>1 DEF IInv, SchedInv, TaskTypeOK, sleep, sys_sleep, Runs
  <2> QED
    BY <2>1, AppendRange
<1>5. Created \subseteq Created'
  BY <1>3 DEF Created
<1> QED
  BY <1>1, <1>2, <1>3, <1>4, <1>5, OwnStep

\* What BlockOn does to the lists that the program's invariant is about.
LEMMA BlockLists ==
  ASSUME IInv, NEW t \in Tasks, Runs(t), NEW o \in Waitables, BlockOn(o)
  PROVE  /\ UNCHANGED <<sleep_list, task_list>>
         /\ Range(wait_list'[o]) = Range(wait_list[o]) \cup {t}
         /\ \A p \in Waitables \ {o} : wait_list'[p] = wait_list[p]
<1>1. UNCHANGED <<sleep_list, task_list>>
  BY DEF BlockOn, sleepVars
<1>2. wait_list \in [Waitables -> Seq(Tasks)] /\ wait_list[o] \in Seq(Tasks)
  BY DEF IInv, SchedInv, TaskTypeOK
<1>3. wait_list' = [wait_list EXCEPT ![o] = Append(@, t)]
  BY DEF BlockOn, Runs
<1>4. /\ wait_list'[o] = Append(wait_list[o], t)
      /\ \A p \in Waitables \ {o} : wait_list'[p] = wait_list[p]
  BY <1>2, <1>3
<1> QED
  BY <1>1, <1>2, <1>4, AppendRange

\* What rein_mutex_lock does for a running task: the log is free and it gets
\* it, or it has it and nests its locks, or it joins those who wait.
LEMMA LockEffect ==
  ASSUME IInv, NEW t \in Tasks, Runs(t), rein_mutex_lock(log_mutex)
  PROVE  /\ UNCHANGED <<sleep_list, task_list>>
         /\ \A o \in Waitables \ {log_mutex} : wait_list'[o] = wait_list[o]
         /\ locker[log_mutex] \in Nat
         /\ \/ /\ owner[log_mutex] = NULL /\ owner'[log_mutex] = t
               /\ locker[log_mutex] = 0 /\ locker'[log_mutex] = 1
               /\ wait_list'[log_mutex] = wait_list[log_mutex]
            \/ /\ owner[log_mutex] = t /\ owner'[log_mutex] = t
               /\ locker'[log_mutex] = locker[log_mutex] + 1
               /\ wait_list'[log_mutex] = wait_list[log_mutex]
            \/ /\ owner[log_mutex] \notin {NULL, t}
               /\ owner'[log_mutex] = owner[log_mutex]
               /\ locker'[log_mutex] = locker[log_mutex]
               /\ Range(wait_list'[log_mutex]) = Range(wait_list[log_mutex]) \cup {t}
<1>1. t = curr_task
  BY RunningTask
<1>2. /\ owner \in [Mutexes -> Tasks \cup {NULL}] /\ locker \in [Mutexes -> Nat]
      /\ owner[log_mutex] = NULL <=> locker[log_mutex] = 0
      /\ locker[log_mutex] \in Nat
  BY Constants DEF IInv, IpcInv, MutexNoLostWakeup
<1>3. CASE locker[log_mutex] = 0
  <2>1. /\ UNCHANGED taskVars
        /\ locker' = [locker EXCEPT ![log_mutex] = @ + 1]
        /\ owner' = [owner EXCEPT ![log_mutex] = curr_task]
    BY <1>3 DEF rein_mutex_lock
  <2>2. UNCHANGED <<sleep_list, task_list, wait_list>>
    BY <2>1 DEF taskVars, listVars
  <2>3. locker'[log_mutex] = 1 /\ owner'[log_mutex] = t
    BY <1>1, <1>2, <1>3, <2>1, Constants
  <2> QED
    BY <1>2, <1>3, <2>2, <2>3
<1>4. CASE locker[log_mutex] # 0 /\ owner[log_mutex] = t
  <2>1. /\ UNCHANGED <<taskVars, owner>>
        /\ locker' = [locker EXCEPT ![log_mutex] = @ + 1]
    BY <1>1, <1>4 DEF rein_mutex_lock
  <2>2. UNCHANGED <<sleep_list, task_list, wait_list>>
    BY <2>1 DEF taskVars, listVars
  <2>3. locker'[log_mutex] = locker[log_mutex] + 1 /\ owner'[log_mutex] = t
    BY <1>2, <1>4, <2>1, Constants
  <2> QED
    BY <1>2, <1>4, <2>2, <2>3
<1>5. CASE locker[log_mutex] # 0 /\ owner[log_mutex] # t
  <2>1. BlockOn(log_mutex) /\ UNCHANGED <<locker, owner>>
    BY <1>1, <1>5 DEF rein_mutex_lock, mutexVars
  <2>2. /\ UNCHANGED <<sleep_list, task_list>>
        /\ Range(wait_list'[log_mutex]) = Range(wait_list[log_mutex]) \cup {t}
        /\ \A o \in Waitables \ {log_mutex} : wait_list'[o] = wait_list[o]
    BY <2>1, Constants, BlockLists
  <2> QED
    BY <1>2, <1>5, <2>1, <2>2
<1> QED
  BY <1>3, <1>4, <1>5

\* A task asks for the log: it gets it, or joins those who wait for it.
LEMMA LockProg ==
  ASSUME IInv, ProgInv, NEW t \in Tasks, log_lock(t)
  PROVE  ProgInv'
<1>1. /\ Runs(t) /\ pc[t] = "log" /\ pc' = [pc EXCEPT ![t] = "put"]
      /\ UNCHANGED <<count, pos, line>>
      /\ due' = IF t = new_task THEN due - 1 ELSE due
      /\ rein_mutex_lock(log_mutex)
  BY DEF log_lock, log_acquire, Goto
<1>2. /\ t = curr_task /\ t \in Created /\ t \notin Range(sleep_list)
      /\ \A o \in Waitables : t \notin Range(wait_list[o])
  BY <1>1, RunningTask
<1>4. owner[log_mutex] # t /\ locker[log_mutex] \in {0, 1}
  BY <1>1 DEF ProgInv, LogInv
<1>5. /\ UNCHANGED <<sleep_list, task_list>>
      /\ \A o \in Waitables \ {log_mutex} : wait_list'[o] = wait_list[o]
      /\ locker'[log_mutex] \in {0, 1}
      /\ \/ /\ owner[log_mutex] = NULL /\ owner'[log_mutex] = t
            /\ Range(wait_list'[log_mutex]) = Range(wait_list[log_mutex])
         \/ /\ owner'[log_mutex] = owner[log_mutex] /\ owner[log_mutex] # NULL
            /\ Range(wait_list'[log_mutex]) = Range(wait_list[log_mutex]) \cup {t}
  BY <1>1, <1>4, LockEffect
<1>6. /\ pc'[t] = "put" /\ \A u \in Tasks : u # t => pc'[u] = pc[u]
      /\ pc' \in [Tasks -> {"create", "log", "put", "unlock", "notify", "sleep", "wait"}]
      /\ pc'[new_task] \in {"wait", "log", "put", "unlock"}
  BY <1>1, Constants DEF ProgInv, ProgType
<1>7. ProgType'
  BY <1>1, <1>6 DEF ProgInv, ProgType
<1>8. LogInv'
  BY <1>5, <1>6, Constants DEF ProgInv, LogInv
<1>9. LineInv'
  <2>1. pos[t] = 1 /\ t # NULL
    BY <1>1, Constants DEF ProgInv, LineInv
  <2>2. \A u \in Tasks : pos'[u] # 1 => pc'[u] = "put" /\ owner'[log_mutex] = u
    BY <1>1, <1>5, <1>6, <2>1, Constants DEF ProgInv, LineInv
  <2>3. line' = IF owner'[log_mutex] = NULL THEN <<>>
                ELSE [k \in 1 .. pos'[owner'[log_mutex]] - 1 |-> <<owner'[log_mutex], k>>]
    <3>1. CASE owner[log_mutex] = NULL /\ owner'[log_mutex] = t
      <4>1. line' = <<>> /\ pos'[t] = 1
        BY <1>1, <2>1, <3>1 DEF ProgInv, LineInv
      <4> QED
        BY <2>1, <3>1, <4>1, NoCharacters
    <3>2. CASE owner'[log_mutex] = owner[log_mutex]
      BY <1>1, <3>2 DEF ProgInv, LineInv
    <3> QED
      BY <1>5, <3>1, <3>2
  <2> QED
    BY <2>2, <2>3 DEF LineInv
<1>10. IdleInv'
  <2>1. \A u \in Range(sleep_list) : u \in Tasks /\ u # t
    BY <1>2, ListTypes DEF IInv
  <2>2. \A o \in Waitables : \A u \in Range(wait_list[o]) : u \in Tasks /\ u # t
    BY <1>2, ListTypes DEF IInv
  <2> QED
    BY <1>2, <1>5, <1>6, <2>1, <2>2 DEF ProgInv, IdleInv, Created
<1>11. SignalInv'
  <2>1. wait_list'[notify_task_print] = wait_list[notify_task_print]
    BY <1>5, Constants
  <2>2. CASE t = new_task
    <3>1. due = count[notify_task_print] + 1
      BY <1>1, <1>2, <2>2, Constants DEF ProgInv, SignalInv, SignalsConserved
    <3>2. count[notify_task_print] \in Nat
      BY Constants DEF IInv, IpcInv
    <3>3. due' = count'[notify_task_print] + 0 /\ pc'[new_task] # "log"
      BY <1>1, <1>6, <2>2, <3>1, <3>2
    <3> QED
      BY <2>1, <3>3 DEF ProgInv, SignalInv, SignalsConserved
  <2>3. CASE t # new_task
    BY <1>1, <1>6, <2>1, <2>3, Constants DEF ProgInv, SignalInv, SignalsConserved
  <2> QED
    BY <2>2, <2>3
<1> QED
  BY <1>7, <1>8, <1>9, <1>10, <1>11 DEF ProgInv

\* A line grows by the character its owner prints next.
LEMMA NextCharacter ==
  ASSUME NEW t, NEW n \in Nat, n > 0
  PROVE  Append([k \in 1 .. n - 1 |-> <<t, k>>], <<t, n>>)
           = [k \in 1 .. (n + 1) - 1 |-> <<t, k>>]
<1> DEFINE s == [k \in 1 .. n - 1 |-> <<t, k>>]
           r == [k \in 1 .. (n + 1) - 1 |-> <<t, k>>]
           S == {<<t, k>> : k \in Nat}
<1>1. s \in Seq(S) /\ Len(s) = n - 1
  OBVIOUS
<1>2. <<t, n>> \in S
  OBVIOUS
<1>3. Append(s, <<t, n>>) = [k \in 1 .. Len(s) + 1 |->
                               IF k <= Len(s) THEN s[k] ELSE <<t, n>>]
  BY <1>1, <1>2
<1>4. \A k \in 1 .. n : (IF k <= n - 1 THEN s[k] ELSE <<t, n>>) = <<t, k>>
  OBVIOUS
<1> QED
  BY <1>1, <1>3, <1>4

\* The owner of the log prints a character.
LEMMA PutProg ==
  ASSUME IInv, ProgInv, NEW t \in Tasks, log_put(t)
  PROVE  ProgInv'
<1>1. /\ Runs(t) /\ pc[t] = "put"
      /\ line' = IF pos[t] = LF THEN <<>> ELSE Append(line, <<t, pos[t]>>)
      /\ pos' = [pos EXCEPT ![t] = IF pos[t] = LF THEN 1 ELSE pos[t] + 1]
      /\ pc' = [pc EXCEPT ![t] = IF pos[t] = LF THEN "unlock" ELSE "put"]
      /\ UNCHANGED <<taskVars, count, mutexVars, due>>
  BY DEF log_put, Goto
<1>2. /\ UNCHANGED <<sleep_list, wait_list, task_list, count, locker, owner, due>>
      /\ UNCHANGED Created
  BY <1>1 DEF taskVars, listVars, mutexVars, Created
<1>3. /\ t \in Created /\ t \notin Range(sleep_list) /\ t # NULL
      /\ \A o \in Waitables : t \notin Range(wait_list[o])
  BY <1>1, RunningTask, Constants
<1>4. t = owner[log_mutex]
  BY <1>1, <1>3, Constants DEF ProgInv, LogInv
<1>5. /\ pc'[t] = IF pos[t] = LF THEN "unlock" ELSE "put"
      /\ \A u \in Tasks : u # t => pc'[u] = pc[u] /\ pos'[u] = pos[u]
      /\ pc' \in [Tasks -> {"create", "log", "put", "unlock", "notify", "sleep", "wait"}]
      /\ pc'[new_task] \in {"wait", "log", "put", "unlock"}
  BY <1>1, Constants DEF ProgInv, ProgType
<1>6. /\ pos[t] \in 1 .. LF /\ pos[t] \in Nat /\ pos[t] > 0
      /\ pos'[t] = IF pos[t] = LF THEN 1 ELSE pos[t] + 1
      /\ pos'[t] \in 1 .. LF
      /\ pos' \in [Tasks -> 1 .. LF]
  BY <1>1, Constants DEF ProgInv, ProgType
<1>7. ProgType'
  BY <1>2, <1>5, <1>6 DEF ProgInv, ProgType
<1>8. LogInv'
  BY <1>1, <1>2, <1>5 DEF ProgInv, LogInv
<1>9. LineInv'
  <2>1. \A u \in Tasks : pos'[u] # 1 => pc'[u] = "put" /\ owner'[log_mutex] = u
    BY <1>2, <1>4, <1>5, <1>6 DEF ProgInv, LineInv
  <2>2. line = [k \in 1 .. pos[t] - 1 |-> <<t, k>>]
    BY <1>3, <1>4 DEF ProgInv, LineInv
  <2>3. line' = [k \in 1 .. pos'[t] - 1 |-> <<t, k>>]
    <3>1. CASE pos[t] = LF
      BY <1>1, <1>6, <3>1, NoCharacters
    <3>2. CASE pos[t] # LF
      <4>1. line' = [k \in 1 .. (pos[t] + 1) - 1 |-> <<t, k>>]
        BY <1>1, <1>6, <2>2, <3>2, NextCharacter
      <4> QED
        BY <1>6, <3>2, <4>1
    <3> QED
      BY <3>1, <3>2
  <2> QED
    BY <1>2, <1>3, <1>4, <2>1, <2>3 DEF LineInv
<1>10. IdleInv'
  <2>1. \A u \in Range(sleep_list) : u \in Tasks /\ u # t
    BY <1>3, ListTypes DEF IInv
  <2>2. \A o \in Waitables : \A u \in Range(wait_list[o]) : u \in Tasks /\ u # t
    BY <1>3, ListTypes DEF IInv
  <2> QED
    BY <1>2, <1>3, <1>5, <2>1, <2>2 DEF ProgInv, IdleInv
<1>11. SignalInv'
  <2>1. pc'[new_task] = "log" <=> pc[new_task] = "log"
    BY <1>1, <1>5, Constants
  <2> QED
    BY <1>2, <2>1 DEF ProgInv, SignalInv, SignalsConserved
<1> QED
  BY <1>7, <1>8, <1>9, <1>10, <1>11 DEF ProgInv

\* What WakeFirst does to the lists that the program's invariant is about.
LEMMA WakeLists ==
  ASSUME IInv, NEW o \in Waitables, wait_list[o] # <<>>, WakeFirst(o)
  PROVE  /\ UNCHANGED <<sleep_list, task_list>>
         /\ Head(wait_list[o]) \in Range(wait_list[o])
         /\ Head(wait_list[o]) \in Tasks
         /\ Range(wait_list'[o]) = Range(wait_list[o]) \ {Head(wait_list[o])}
         /\ \A p \in Waitables \ {o} : wait_list'[p] = wait_list[p]
<1>1. UNCHANGED <<sleep_list, task_list>>
  BY DEF WakeFirst, sleepVars
<1>2. /\ wait_list \in [Waitables -> Seq(Tasks)]
      /\ wait_list[o] \in Seq(Tasks) /\ IsInjective(wait_list[o])
      /\ Range(wait_list[o]) \subseteq Tasks
  BY ListTypes DEF IInv, SchedInv, TaskTypeOK
<1>3. wait_list' = [wait_list EXCEPT ![o] = Tail(@)]
  BY DEF WakeFirst
<1>4. /\ wait_list'[o] = Tail(wait_list[o])
      /\ \A p \in Waitables \ {o} : wait_list'[p] = wait_list[p]
  BY <1>2, <1>3
<1> QED
  BY <1>1, <1>2, <1>4, TailInjective

\* What rein_mutex_unlock does for a running task: an inner lock is undone, or
\* the log is free, or the longest waiter's.
LEMMA UnlockEffect ==
  ASSUME IInv, NEW t \in Tasks, Runs(t), rein_mutex_unlock(log_mutex)
  PROVE  /\ UNCHANGED <<sleep_list, task_list>>
         /\ \A o \in Waitables \ {log_mutex} : wait_list'[o] = wait_list[o]
         /\ owner[log_mutex] = t /\ locker[log_mutex] \in Nat
         /\ \/ /\ locker[log_mutex] > 1
               /\ locker'[log_mutex] = locker[log_mutex] - 1
               /\ owner'[log_mutex] = t
               /\ wait_list'[log_mutex] = wait_list[log_mutex]
            \/ /\ locker[log_mutex] = 1 /\ locker'[log_mutex] = 0
               /\ owner'[log_mutex] = NULL
               /\ Range(wait_list[log_mutex]) = {}
               /\ Range(wait_list'[log_mutex]) = {}
            \/ /\ locker[log_mutex] = 1 /\ locker'[log_mutex] = 1
               /\ owner'[log_mutex] \in Range(wait_list[log_mutex])
               /\ owner'[log_mutex] \in Tasks
               /\ Range(wait_list'[log_mutex])
                    = Range(wait_list[log_mutex]) \ {owner'[log_mutex]}
<1>1. /\ owner \in [Mutexes -> Tasks \cup {NULL}] /\ locker \in [Mutexes -> Nat]
      /\ log_mutex \in Mutexes /\ log_mutex \in Waitables
      /\ owner[log_mutex] = t /\ locker[log_mutex] \in Nat \ {0}
  BY RunningTask, Constants DEF IInv, IpcInv, rein_mutex_unlock
<1>2. CASE locker[log_mutex] > 1
  <2>1. /\ UNCHANGED <<owner, taskVars>>
        /\ locker' = [locker EXCEPT ![log_mutex] = @ - 1]
    BY <1>1, <1>2 DEF rein_mutex_unlock
  <2>2. UNCHANGED <<sleep_list, task_list, wait_list>>
    BY <2>1 DEF taskVars, listVars
  <2> QED
    BY <1>1, <1>2, <2>1, <2>2
<1>3. CASE locker[log_mutex] = 1 /\ wait_list[log_mutex] = <<>>
  <2>1. /\ UNCHANGED taskVars
        /\ locker' = [locker EXCEPT ![log_mutex] = 0]
        /\ owner' = [owner EXCEPT ![log_mutex] = NULL]
    BY <1>3 DEF rein_mutex_unlock
  <2>2. UNCHANGED <<sleep_list, task_list, wait_list>>
    BY <2>1 DEF taskVars, listVars
  <2> QED
    BY <1>1, <1>3, <2>1, <2>2, EmptyList
<1>4. CASE locker[log_mutex] = 1 /\ wait_list[log_mutex] # <<>>
  <2>1. /\ WakeFirst(log_mutex) /\ UNCHANGED locker
        /\ owner' = [owner EXCEPT ![log_mutex] = Head(wait_list[log_mutex])]
    BY <1>4 DEF rein_mutex_unlock, new_owner
  <2>2. /\ UNCHANGED <<sleep_list, task_list>>
        /\ Head(wait_list[log_mutex]) \in Range(wait_list[log_mutex])
        /\ Head(wait_list[log_mutex]) \in Tasks
        /\ Range(wait_list'[log_mutex])
             = Range(wait_list[log_mutex]) \ {Head(wait_list[log_mutex])}
        /\ \A p \in Waitables \ {log_mutex} : wait_list'[p] = wait_list[p]
    BY <1>1, <1>4, <2>1, WakeLists
  <2>3. owner'[log_mutex] = Head(wait_list[log_mutex])
    BY <1>1, <2>1
  <2> QED
    BY <1>1, <1>4, <2>1, <2>2, <2>3
<1> QED
  BY <1>1, <1>2, <1>3, <1>4

\* A task leaves the log: it is free, or the longest waiter's.
LEMMA UnlockProg ==
  ASSUME IInv, ProgInv, NEW t \in Tasks, log_unlock(t)
  PROVE  ProgInv'
<1>1. /\ Runs(t) /\ pc[t] = "unlock" /\ UNCHANGED <<count, pos, line, due>>
      /\ rein_mutex_unlock(log_mutex)
  BY DEF log_unlock, log_release
<1>2. PICK l \in {"notify", "wait", "sleep"} :
        pc' = [pc EXCEPT ![t] = l] /\ (t = new_task => l = "wait")
  BY Constants DEF log_unlock, Goto
<1>3. /\ t = curr_task /\ t \in Created /\ t \notin Range(sleep_list)
      /\ \A o \in Waitables : t \notin Range(wait_list[o])
  BY <1>1, RunningTask
<1>4. owner[log_mutex] = t /\ locker[log_mutex] \in {0, 1} /\ t # NULL
  BY <1>1, UnlockEffect, Constants DEF ProgInv, LogInv
<1>5. /\ UNCHANGED <<sleep_list, task_list>>
      /\ \A o \in Waitables \ {log_mutex} : wait_list'[o] = wait_list[o]
      /\ locker'[log_mutex] \in {0, 1}
      /\ \/ /\ owner'[log_mutex] = NULL
            /\ Range(wait_list[log_mutex]) = {} /\ Range(wait_list'[log_mutex]) = {}
         \/ /\ owner'[log_mutex] \in Range(wait_list[log_mutex])
            /\ owner'[log_mutex] \in Tasks
            /\ Range(wait_list'[log_mutex])
                 = Range(wait_list[log_mutex]) \ {owner'[log_mutex]}
  BY <1>1, <1>4, UnlockEffect
<1>6. /\ pc'[t] = l /\ \A u \in Tasks : u # t => pc'[u] = pc[u]
      /\ pc' \in [Tasks -> {"create", "log", "put", "unlock", "notify", "sleep", "wait"}]
      /\ pc'[new_task] \in {"wait", "log", "put", "unlock"}
  BY <1>2, Constants DEF ProgInv, ProgType
<1>7. ProgType'
  BY <1>1, <1>6 DEF ProgInv, ProgType
<1>8. LogInv'
  <2>1. l \notin {"put", "unlock"}
    BY <1>2
  <2>2. t # owner'[log_mutex] /\ t \notin Range(wait_list'[log_mutex])
    BY <1>3, <1>4, <1>5, Constants
  <2>3. \A u \in Tasks \ {t} :
          (u = owner'[log_mutex] \/ u \in Range(wait_list'[log_mutex]))
            <=> (u = owner[log_mutex] \/ u \in Range(wait_list[log_mutex]))
    BY <1>4, <1>5, Constants
  <2>4. \A u \in Tasks :
          (pc'[u] \in {"put", "unlock"})
            <=> (u = owner'[log_mutex] \/ u \in Range(wait_list'[log_mutex]))
    BY <1>6, <2>1, <2>2, <2>3 DEF ProgInv, LogInv
  <2> QED
    BY <1>5, <2>4 DEF LogInv
<1>9. LineInv'
  <2>1. \A u \in Tasks : pos[u] = 1
    BY <1>1, <1>4 DEF ProgInv, LineInv
  <2>2. line = [k \in 1 .. pos[t] - 1 |-> <<t, k>>]
    BY <1>4 DEF ProgInv, LineInv
  <2>3. line = <<>>
    BY <2>1, <2>2, NoCharacters
  <2>4. CASE owner'[log_mutex] = NULL
    BY <1>1, <2>1, <2>3, <2>4 DEF LineInv
  <2>5. CASE owner'[log_mutex] \in Tasks
    <3>1. pos'[owner'[log_mutex]] = 1 /\ owner'[log_mutex] # NULL
      BY <1>1, <2>1, <2>5, Constants
    <3>2. line' = [k \in 1 .. pos'[owner'[log_mutex]] - 1 |-> <<owner'[log_mutex], k>>]
      BY <1>1, <2>3, <3>1, NoCharacters
    <3> QED
      BY <1>1, <2>1, <3>1, <3>2 DEF LineInv
  <2> QED
    BY <1>5, <2>4, <2>5
<1>10. IdleInv'
  <2>1. \A u \in Range(sleep_list) : u \in Tasks /\ u # t
    BY <1>3, ListTypes DEF IInv
  <2>2. \A o \in Waitables : \A u \in Range(wait_list[o]) : u \in Tasks /\ u # t
    BY <1>3, ListTypes DEF IInv
  <2> QED
    BY <1>3, <1>5, <1>6, <2>1, <2>2 DEF ProgInv, IdleInv, Created
<1>11. SignalInv'
  <2>1. wait_list'[notify_task_print] = wait_list[notify_task_print]
    BY <1>5, Constants
  <2>2. pc'[new_task] = "log" <=> pc[new_task] = "log"
    BY <1>1, <1>2, <1>6, Constants
  <2> QED
    BY <1>1, <2>1, <2>2 DEF ProgInv, SignalInv, SignalsConserved
<1> QED
  BY <1>7, <1>8, <1>9, <1>10, <1>11 DEF ProgInv

\* A running task moves on outside of the log, whatever happens meanwhile to
\* the semaphore that new_task waits for.
LEMMA SignalStep ==
  ASSUME IInv, ProgInv, NEW t \in Tasks, Runs(t), pc[t] \in {"notify", "wait"},
         NEW l \in {"sleep", "log"}, pc' = [pc EXCEPT ![t] = l],
         t = new_task => l = "log",
         UNCHANGED <<pos, line, mutexVars, sleep_list, task_list>>,
         \A o \in Waitables \ {notify_task_print} : wait_list'[o] = wait_list[o],
         \A u \in Range(wait_list'[notify_task_print]) :
           u \in Range(wait_list[notify_task_print]) \/ (u = t /\ l = "log"),
         due' \in Int, SignalInv'
  PROVE  ProgInv'
<1>1. /\ t \in Created /\ t \notin Range(sleep_list)
      /\ \A o \in Waitables : t \notin Range(wait_list[o])
  BY RunningTask
<1>2. /\ UNCHANGED <<pos, line, locker, owner, sleep_list, Created>>
      /\ wait_list'[log_mutex] = wait_list[log_mutex]
  BY Constants DEF mutexVars, Created
<1>3. /\ pc'[t] = l /\ \A u \in Tasks : u # t => pc'[u] = pc[u]
      /\ pc' \in [Tasks -> {"create", "log", "put", "unlock", "notify", "sleep", "wait"}]
      /\ pc'[new_task] \in {"wait", "log", "put", "unlock"}
  BY Constants DEF ProgInv, ProgType
<1>4. ProgType'
  BY <1>2, <1>3 DEF ProgInv, ProgType
<1>5. LogInv'
  BY <1>2, <1>3 DEF ProgInv, LogInv
<1>6. LineInv'
  <2>1. \A u \in Tasks : pos[u] # 1 => u # t
    BY DEF ProgInv, LineInv
  <2> QED
    BY <1>2, <1>3, <2>1 DEF ProgInv, LineInv
<1>7. IdleInv'
  <2>1. \A u \in Range(sleep_list) : u \in Tasks /\ u # t
    BY <1>1, ListTypes DEF IInv
  <2>2. \A o \in Waitables : \A u \in Range(wait_list[o]) : u \in Tasks /\ u # t
    BY <1>1, ListTypes DEF IInv
  <2>3. \A o \in Waitables \ {log_mutex} : \A u \in Range(wait_list[o]) : pc'[u] = "log"
    BY <1>3, <2>2 DEF ProgInv, IdleInv
  <2>4. \A o \in Waitables \ {log_mutex} : \A u \in Range(wait_list'[o]) : pc'[u] = "log"
    BY <1>3, <2>3, Constants
  <2> QED
    BY <1>1, <1>2, <1>3, <2>1, <2>4 DEF ProgInv, IdleInv
<1> QED
  BY <1>4, <1>5, <1>6, <1>7 DEF ProgInv

\* init_main sends a notification: new_task takes it if it waits, and else it
\* is counted.
LEMMA NotifyProg ==
  ASSUME IInv, ProgInv, notify
  PROVE  ProgInv'
<1> DEFINE s == notify_task_print
<1>1. /\ Runs(main_task) /\ pc[main_task] = "notify"
      /\ pc' = [pc EXCEPT ![main_task] = "sleep"]
      /\ due' = due + 1 /\ UNCHANGED <<mutexVars, pos, line>>
      /\ sem_notify(s)
  BY DEF notify, Goto
<1>2. /\ s \in Sems /\ s \in Waitables /\ s # log_mutex
      /\ count \in [Sems -> Nat] /\ count[s] \in Nat
      /\ due \in Int
  BY Constants DEF IInv, IpcInv, ProgInv, ProgType
<1>3. pc'[new_task] = pc[new_task]
  BY <1>1, Constants DEF ProgInv, ProgType
<1>4. /\ Range(wait_list[s]) \subseteq {new_task}
      /\ due = count[s] + IF /\ pc[new_task] = "log"
                             /\ new_task \notin Range(wait_list[s])
                          THEN 1 ELSE 0
  BY DEF ProgInv, SignalInv, SignalsConserved
<1>5. CASE wait_list[s] # <<>>
  <2>1. WakeFirst(s) /\ UNCHANGED count
    BY <1>1, <1>5 DEF sem_notify
  <2>2. /\ UNCHANGED <<sleep_list, task_list>>
        /\ Head(wait_list[s]) \in Range(wait_list[s])
        /\ Range(wait_list'[s]) = Range(wait_list[s]) \ {Head(wait_list[s])}
        /\ \A p \in Waitables \ {s} : wait_list'[p] = wait_list[p]
    BY <1>2, <1>5, <2>1, WakeLists
  <2>3. new_task \in Range(wait_list[s]) /\ Range(wait_list'[s]) = {}
    BY <1>4, <2>2
  <2>4. pc'[new_task] = "log"
    BY <1>2, <1>3, <2>3 DEF ProgInv, IdleInv
  <2>5. due' = count'[s] + 1
    BY <1>1, <1>2, <1>4, <2>1, <2>3
  <2>6. SignalInv' /\ due' \in Int
    BY <1>1, <1>2, <2>3, <2>4, <2>5 DEF SignalInv, SignalsConserved
  <2> QED
    BY <1>1, <2>2, <2>3, <2>6, Constants, SignalStep
<1>6. CASE wait_list[s] = <<>>
  <2>1. UNCHANGED taskVars /\ count' = [count EXCEPT ![s] = @ + 1]
    BY <1>1, <1>6 DEF sem_notify
  <2>2. UNCHANGED <<sleep_list, task_list, wait_list>>
    BY <2>1 DEF taskVars, listVars
  <2>3. count'[s] = count[s] + 1
    BY <1>2, <2>1
  <2>4. due' = count'[s] + IF /\ pc[new_task] = "log"
                              /\ new_task \notin Range(wait_list[s])
                           THEN 1 ELSE 0
    BY <1>1, <1>2, <1>4, <2>3
  <2>5. SignalInv' /\ due' \in Int
    BY <1>1, <1>2, <1>3, <1>4, <2>2, <2>4 DEF SignalInv, SignalsConserved
  <2> QED
    BY <1>1, <2>2, <2>5, Constants, SignalStep
<1> QED
  BY <1>5, <1>6

\* new_task waits for a notification: it takes one that was counted, or blocks.
LEMMA WaitProg ==
  ASSUME IInv, ProgInv, wait
  PROVE  ProgInv'
<1> DEFINE s == notify_task_print
<1>1. /\ Runs(new_task) /\ pc[new_task] = "wait"
      /\ pc' = [pc EXCEPT ![new_task] = "log"]
      /\ UNCHANGED <<mutexVars, pos, line, due>>
      /\ sem_wait(s)
  BY DEF wait, Goto
<1>2. /\ s \in Sems /\ s \in Waitables /\ s # log_mutex
      /\ count \in [Sems -> Nat] /\ count[s] \in Nat
      /\ due \in Int
  BY Constants DEF IInv, IpcInv, ProgInv, ProgType
<1>3. pc'[new_task] = "log"
  BY <1>1, Constants DEF ProgInv, ProgType
<1>4. Range(wait_list[s]) \subseteq {new_task} /\ due = count[s]
  BY <1>1, <1>2 DEF ProgInv, SignalInv, SignalsConserved
<1>5. new_task \notin Range(wait_list[s])
  BY <1>1, <1>2, Constants, RunningTask
<1>6. CASE sem_available(s)
  <2>1. UNCHANGED taskVars /\ count' = [count EXCEPT ![s] = @ - 1]
    BY <1>1, <1>6 DEF sem_wait
  <2>2. UNCHANGED <<sleep_list, task_list, wait_list>>
    BY <2>1 DEF taskVars, listVars
  <2>3. due' = count'[s] + 1
    BY <1>1, <1>2, <1>4, <2>1
  <2>4. SignalInv' /\ due' \in Int
    BY <1>1, <1>2, <1>3, <1>4, <1>5, <2>2, <2>3 DEF SignalInv, SignalsConserved
  <2> QED
    BY <1>1, <2>2, <2>4, Constants, SignalStep
<1>7. CASE ~sem_available(s)
  <2>1. BlockOn(s) /\ UNCHANGED count
    BY <1>1, <1>7 DEF sem_wait
  <2>2. /\ UNCHANGED <<sleep_list, task_list>>
        /\ Range(wait_list'[s]) = Range(wait_list[s]) \cup {new_task}
        /\ \A p \in Waitables \ {s} : wait_list'[p] = wait_list[p]
    BY <1>1, <1>2, <2>1, Constants, BlockLists
  <2>3. due' = count'[s] + 0
    BY <1>1, <1>2, <1>4, <2>1
  <2>4. SignalInv' /\ due' \in Int
    BY <1>1, <1>2, <1>3, <1>4, <2>2, <2>3 DEF SignalInv, SignalsConserved
  <2> QED
    BY <1>1, <2>2, <2>4, Constants, SignalStep
<1> QED
  BY <1>6, <1>7

\* Every step of the program keeps its invariant.
LEMMA NextProgInv == IInv /\ ProgInv /\ [MainNext]_progVars => ProgInv'
<1> SUFFICES ASSUME IInv, ProgInv, [MainNext]_progVars PROVE ProgInv'
  OBVIOUS
<1>1. CASE Tick
  BY <1>1, TickProg
<1>2. ASSUME NEW t \in Tasks, Step(t)
      PROVE  ProgInv'
  BY <1>2, LockProg, PutProg, UnlockProg, NotifyProg, CreateProg, WaitProg,
     SleepProg DEF Step
<1>3. CASE UNCHANGED progVars
  <2>1. UNCHANGED <<mainVars, count, mutexVars, wait_list, task_list, sleep_list>>
    BY <1>3 DEF progVars, taskVars, listVars
  <2> QED
    BY <2>1, QuietStep
<1> QED
  BY <1>1, <1>2, <1>3 DEF MainNext

-----------------------------------------------------------------------------
(* What the program promises.                                              *)

\* The kernel's invariant and the program's hold in every reachable state of
\* the program of init.c.
THEOREM ProgramInvariance == MainSpec => [](IInv /\ ProgInv)
<1>1. MainInit => IInv /\ ProgInv
  BY InitProgInv
<1>2. (IInv /\ ProgInv) /\ [MainNext]_progVars => (IInv /\ ProgInv)'
  BY MainIInv, NextProgInv
<1> QED
  BY <1>1, <1>2, PTL DEF MainSpec

\* log_printfln's lines never mix: what is on the wire since the last line
\* feed is the beginning of the line of the task that holds the log's mutex.
THEOREM LogLinesWhole == MainSpec => []LinesWhole
<1>1. IInv /\ ProgInv => LinesWhole
  <2> SUFFICES ASSUME IInv, ProgInv, line # <<>>
               PROVE  \E t \in Tasks :
                        /\ line = [k \in 1 .. pos[t] - 1 |-> <<t, k>>]
                        /\ pc[t] = "put"
                        /\ owner[log_mutex] = t
    BY DEF LinesWhole
  <2> DEFINE t == owner[log_mutex]
  <2>1. /\ t \in Tasks
        /\ line = [k \in 1 .. pos[t] - 1 |-> <<t, k>>]
    BY Constants DEF IInv, IpcInv, ProgInv, LineInv
  <2>2. pos[t] # 1
    BY <2>1, NoCharacters
  <2>3. pc[t] = "put"
    BY <2>1, <2>2 DEF ProgInv, LineInv
  <2> QED
    BY <2>1, <2>3
<1> QED
  BY <1>1, ProgramInvariance, PTL

\* Each notification of init_main is in the semaphore's counter or in the
\* hands of new_task: sem_notify and sem_wait lose none and double none.
THEOREM SignalsKept == MainSpec => []SignalsConserved
<1>1. ProgInv => SignalsConserved
  BY DEF ProgInv, SignalInv
<1> QED
  BY <1>1, ProgramInvariance, PTL

\* The task that owns the log's mutex is on the ready list: nobody sleeps or
\* waits with the log in its hands, so that its waiters wait for a task that
\* runs.
THEOREM LogHolderReady == MainSpec => []HolderIsReady
<1>1. IInv /\ ProgInv => HolderIsReady
  <2> SUFFICES ASSUME IInv, ProgInv, owner[log_mutex] # NULL
               PROVE  owner[log_mutex] \in Range(ready_list)
    BY DEF HolderIsReady
  <2> DEFINE t == owner[log_mutex]
  <2>1. t \in Tasks /\ t \notin Range(wait_list[log_mutex])
    BY Constants DEF IInv, IpcInv, MutexNoLostWakeup
  <2>2. pc[t] \in {"put", "unlock"}
    BY <2>1 DEF ProgInv, LogInv
  <2>3. /\ t \in Created /\ t \notin Range(sleep_list)
        /\ \A o \in Waitables : t \notin Range(wait_list[o])
    BY <2>1, <2>2 DEF ProgInv, IdleInv
  <2> QED
    BY <2>1, <2>3 DEF IInv, SchedInv, OneQueue, NoneLost
<1> QED
  BY <1>1, ProgramInvariance, PTL

-----------------------------------------------------------------------------
(* Exceptions: the report of a fault nests its locks in those of the task. *)

ExcPlaces ==
  {"create", "log", "put", "unlock", "notify", "sleep", "wait", "report",
   "print", "complain"}

ExcType ==
  /\ pc \in [Tasks -> ExcPlaces]
  /\ at \in [Tasks -> ExcPlaces \cup {"nowhere"}]
  /\ stopped \in BOOLEAN

\* Task t has called rein_mutex_lock for a line of its own; for a line of its
\* report.
Outer(t) == (IF Reporting(t) THEN at[t] ELSE pc[t]) \in {"put", "unlock"}
Inner(t) == pc[t] \in {"print", "complain"}

\* A task owns the log, or waits for it, exactly when it has called
\* rein_mutex_lock; locker counts the calls of the owner, and no task waits
\* with a lock in its hands.
HoldInv ==
  \A t \in Tasks :
    /\ (Outer(t) \/ Inner(t))
         <=> (owner[log_mutex] = t \/ t \in Range(wait_list[log_mutex]))
    /\ owner[log_mutex] = t =>
         locker[log_mutex] = IF Outer(t) /\ Inner(t) THEN 2 ELSE 1
    /\ t \in Range(wait_list[log_mutex]) =>
         pc[t] \in {"put", "print", "complain"} /\ ~(Outer(t) /\ Inner(t))

\* kernel_itoa gives the mutex back before it stops the machine, so that
\* HoldInv may be lost in the last step.
ExcInv == ExcType /\ (~stopped => HoldInv) /\ ReportBalanced

\* What the CPU and the handler push, with an error code or without.
LEMMA Pushed ==
  ASSUME NEW v
  PROVE  cpu_push(v) \o handler_push(v)
           = <<"eflags", "cs", "eip", "error_code", "num", "eax", "ecx", "edx",
               "ebx", "esp", "ebp", "esi", "edi", "ds", "es", "fs", "gs">>
<1> DEFINE cpu == <<"eflags", "cs", "eip">>
           err == <<"error_code">>
           num == <<"num">>
           segs == <<"ds", "es", "fs", "gs">>
           cpuE == <<"eflags", "cs", "eip", "error_code">>
           numR == <<"num", "eax", "ecx", "edx", "ebx", "esp", "ebp", "esi", "edi">>
           numA == <<"num", "eax", "ecx", "edx", "ebx", "esp", "ebp", "esi", "edi",
                     "ds", "es", "fs", "gs">>
           errN == <<"error_code", "num">>
           errR == <<"error_code", "num", "eax", "ecx", "edx", "ebx", "esp", "ebp", "esi", "edi">>
           errA == <<"error_code", "num", "eax", "ecx", "edx", "ebx", "esp", "ebp", "esi", "edi",
                     "ds", "es", "fs", "gs">>
           all == <<"eflags", "cs", "eip", "error_code", "num", "eax", "ecx", "edx", "ebx",
                    "esp", "ebp", "esi", "edi", "ds", "es", "fs", "gs">>
           Names == {"eflags", "cs", "eip", "error_code", "num", "eax", "ecx", "edx", "ebx",
                     "esp", "ebp", "esi", "edi", "ds", "es", "fs", "gs"}
<1>1. /\ cpu \in Seq(Names) /\ err \in Seq(Names) /\ num \in Seq(Names)
      /\ segs \in Seq(Names) /\ cpuE \in Seq(Names) /\ numR \in Seq(Names)
      /\ numA \in Seq(Names) /\ errN \in Seq(Names) /\ errR \in Seq(Names)
      /\ errA \in Seq(Names) /\ all \in Seq(Names) /\ pusha \in Seq(Names)
  <2>1. \A x \in {"eflags", "cs", "eip", "error_code", "num", "eax", "ecx", "edx", "ebx",
        "esp", "ebp", "esi", "edi", "ds", "es", "fs", "gs"} : x \in Names
    OBVIOUS
  <2> HIDE DEF Names
  <2> QED
    BY <2>1 DEF pusha
<1>2. Pieces(cpuE, cpu, err) /\ Pieces(numR, num, pusha) /\ Pieces(numA, numR, segs)
  BY DEF pusha, Pieces
<1>3. Pieces(errN, err, num) /\ Pieces(errR, errN, pusha) /\ Pieces(errA, errR, segs)
  BY DEF pusha, Pieces
<1>4. Pieces(all, cpuE, numA)
  BY DEF Pieces
<1>5. Pieces(all, cpu, errA)
  BY DEF Pieces
<1>6. CASE v \in {8, 10, 11, 12, 13, 14, 17, 21}
  <2>1. cpu_push(v) = cpu \o err
    BY <1>6 DEF cpu_push
  <2>2. handler_push(v) = <<>> \o num \o pusha \o segs
    BY <1>6 DEF handler_push, with_err_code
  <2> HIDE DEF cpu, err, num, segs, cpuE, numR, numA, errN, errR, errA, all, Names
  <2>3. <<>> \o num = num
    BY <1>1
  <2>4. cpu \o err = cpuE /\ num \o pusha = numR /\ numR \o segs = numA /\ cpuE \o numA = all
    BY <1>1, <1>2, <1>4, Joined
  <2> QED
    BY <2>1, <2>2, <2>3, <2>4 DEF all
<1>7. CASE v \notin {8, 10, 11, 12, 13, 14, 17, 21}
  <2>1. cpu_push(v) = cpu \o <<>>
    BY <1>7 DEF cpu_push
  <2>2. handler_push(v) = err \o num \o pusha \o segs
    BY <1>7 DEF handler_push, with_err_code
  <2> HIDE DEF cpu, err, num, segs, cpuE, numR, numA, errN, errR, errA, all, Names
  <2>3. cpu \o <<>> = cpu
    BY <1>1
  <2>4. err \o num = errN /\ errN \o pusha = errR /\ errR \o segs = errA /\ cpu \o errA = all
    BY <1>1, <1>3, <1>5, Joined
  <2> QED
    BY <2>1, <2>2, <2>3, <2>4 DEF all
<1> QED
  BY <1>6, <1>7

\* The handler's frame does not depend on the exception: an error code is
\* pushed for those, and only those, that come without one.
LEMMA FrameOf == ASSUME NEW v PROVE frame(v) = exception_frame_t
<1> DEFINE pushed ==
      <<"eflags", "cs", "eip", "error_code", "num", "eax", "ecx", "edx", "ebx",
        "esp", "ebp", "esi", "edi", "ds", "es", "fs", "gs">>
<1>1. Reverse(pushed) = exception_frame_t
  BY DEF Reverse, exception_frame_t
<1> QED
  BY <1>1, Pushed DEF frame

\* Faults and their reports, too, use the kernel the way module Kernel allows.
LEMMA ExcKernelStep == [ExcNext]_allVars => [Next]_vars
<1> SUFFICES ASSUME [ExcNext]_allVars PROVE [Next]_vars
  OBVIOUS
<1>1. CASE ExcTick
  BY <1>1, MainStep DEF ExcTick, MainNext
<1>2. CASE UNCHANGED allVars
  BY <1>2 DEF allVars, progVars, vars
<1>3. ASSUME NEW t \in Tasks, ExcStep(t)
      PROVE  [Next]_vars
  <2>1. CASE report_lock(t)
    BY <2>1, Constants DEF report_lock, log_acquire, MutexNext, Next
  <2>2. CASE report_print(t)
    BY <2>2, Constants DEF report_print, log_release, MutexNext, Next
  <2>3. CASE complain(t)
    BY <2>3, Constants DEF complain, log_release, MutexNext, Next
  <2>4. CASE halt(t)
    BY <2>4 DEF halt, vars
  <2>5. CASE Step(t)
    BY <2>5, MainStep DEF MainNext
  <2> QED
    BY <1>3, <2>1, <2>2, <2>3, <2>4, <2>5 DEF ExcStep
<1>4. ASSUME NEW t \in Tasks, fault(t)
      PROVE  [Next]_vars
  BY <1>4 DEF fault, vars
<1> QED
  BY <1>1, <1>2, <1>3, <1>4 DEF ExcNext, Dead

\* Nothing that is proved about the kernel is lost when tasks fault.
THEOREM FaultsOnKernel == ExcSpec => Spec
<1>1. ExcInit => Init
  BY DEF ExcInit, MainInit, Init
<1> QED
  BY <1>1, ExcKernelStep, PTL DEF ExcSpec, Spec

\* Every step, faults included, keeps the kernel's invariant.
LEMMA ExcIInv == IInv /\ [ExcNext]_allVars => IInv'
  BY ExcKernelStep, NextIInv

\* Only task t moves in this step.
Alone(t) == \A u \in Tasks \ {t} : pc'[u] = pc[u] /\ at'[u] = at[u]

\* The other tasks have called rein_mutex_lock as often as before.
LEMMA OthersHold ==
  ASSUME NEW t \in Tasks, Alone(t), NEW u \in Tasks \ {t}
  PROVE  Outer(u)' = Outer(u) /\ Inner(u)' = Inner(u) /\ pc'[u] = pc[u]
BY DEF Alone, Outer, Inner, Reporting

\* Steps that leave the mutex of the log alone.
LEMMA MoveHold ==
  ASSUME IInv, HoldInv, NEW t \in Tasks, Runs(t), Alone(t),
         Outer(t)' = Outer(t), Inner(t)' = Inner(t),
         owner'[log_mutex] = owner[log_mutex],
         locker'[log_mutex] = locker[log_mutex],
         wait_list'[log_mutex] = wait_list[log_mutex]
  PROVE  HoldInv'
<1>1. t \notin Range(wait_list[log_mutex])
  BY RunningTask, Constants
<1>2. \A u \in Tasks : Outer(u)' = Outer(u) /\ Inner(u)' = Inner(u)
  BY OthersHold
<1>3. \A u \in Tasks \ {t} : pc'[u] = pc[u]
  BY OthersHold
<1> QED
  BY <1>1, <1>2, <1>3 DEF HoldInv

\* A task asks for the log, for a line of its own or of its report.
LEMMA LockHold ==
  ASSUME IInv, HoldInv, NEW t \in Tasks, Runs(t), Alone(t),
         rein_mutex_lock(log_mutex), ~Inner(t),
         pc'[t] \in {"put", "print", "complain"},
         \/ ~Outer(t) /\ Outer(t)' /\ ~Inner(t)'
         \/ Outer(t)' = Outer(t) /\ Inner(t)'
  PROVE  HoldInv'
<1>1. t \notin Range(wait_list[log_mutex]) /\ t # NULL
  BY RunningTask, Constants
<1>2. ASSUME NEW u \in Tasks \ {t}
      PROVE  /\ (Outer(u)' \/ Inner(u)')
                  <=> (owner'[log_mutex] = u \/ u \in Range(wait_list'[log_mutex]))
             /\ owner'[log_mutex] = u =>
                  locker'[log_mutex] = IF Outer(u)' /\ Inner(u)' THEN 2 ELSE 1
             /\ u \in Range(wait_list'[log_mutex]) =>
                  /\ pc'[u] \in {"put", "print", "complain"}
                  /\ ~(Outer(u)' /\ Inner(u)')
  <2>1. Outer(u)' = Outer(u) /\ Inner(u)' = Inner(u) /\ pc'[u] = pc[u]
    BY OthersHold
  <2>2. /\ owner'[log_mutex] = u <=> owner[log_mutex] = u
        /\ owner[log_mutex] = u => locker'[log_mutex] = locker[log_mutex]
        /\ u \in Range(wait_list'[log_mutex]) <=> u \in Range(wait_list[log_mutex])
    BY LockEffect, Constants
  <2> QED
    BY <2>1, <2>2 DEF HoldInv
<1>3. /\ (Outer(t)' \/ Inner(t)')
           <=> (owner'[log_mutex] = t \/ t \in Range(wait_list'[log_mutex]))
      /\ owner'[log_mutex] = t =>
           locker'[log_mutex] = IF Outer(t)' /\ Inner(t)' THEN 2 ELSE 1
      /\ t \in Range(wait_list'[log_mutex]) =>
           pc'[t] \in {"put", "print", "complain"} /\ ~(Outer(t)' /\ Inner(t)')
  <2>1. /\ Outer(t) <=> owner[log_mutex] = t
        /\ owner[log_mutex] = t => locker[log_mutex] = 1
    BY <1>1 DEF HoldInv
  <2>2. CASE owner[log_mutex] = t
    <3>1. /\ owner'[log_mutex] = t /\ locker'[log_mutex] = 2
          /\ wait_list'[log_mutex] = wait_list[log_mutex]
      BY <1>1, <2>1, <2>2, LockEffect
    <3> QED
      BY <1>1, <2>1, <2>2, <3>1
  <2>3. CASE owner[log_mutex] # t
    <3>1. ~(Outer(t)' /\ Inner(t)') /\ (Outer(t)' \/ Inner(t)')
      BY <2>1, <2>3
    <3>2. \/ owner'[log_mutex] = t /\ locker'[log_mutex] = 1
          \/ owner'[log_mutex] # t /\ t \in Range(wait_list'[log_mutex])
      BY <2>3, LockEffect
    <3> QED
      BY <3>1, <3>2
  <2> QED
    BY <2>2, <2>3
<1> QED
  BY <1>2, <1>3 DEF HoldInv

\* A task gives the log back, after a line of its own or of its report.
LEMMA UnlockHold ==
  ASSUME IInv, HoldInv, NEW t \in Tasks, Runs(t), Alone(t),
         rein_mutex_unlock(log_mutex), ~Inner(t)',
         \/ ~Inner(t) /\ ~Outer(t)'
         \/ Outer(t)' = Outer(t) /\ Inner(t)
  PROVE  HoldInv'
<1>1. t \notin Range(wait_list[log_mutex]) /\ t # NULL
  BY RunningTask, Constants
<1>2. /\ owner[log_mutex] = t
      /\ locker[log_mutex] = IF Outer(t) /\ Inner(t) THEN 2 ELSE 1
  BY UnlockEffect DEF HoldInv
<1>3. ASSUME NEW u \in Tasks \ {t}
      PROVE  /\ (Outer(u)' \/ Inner(u)')
                  <=> (owner'[log_mutex] = u \/ u \in Range(wait_list'[log_mutex]))
             /\ owner'[log_mutex] = u =>
                  locker'[log_mutex] = IF Outer(u)' /\ Inner(u)' THEN 2 ELSE 1
             /\ u \in Range(wait_list'[log_mutex]) =>
                  /\ pc'[u] \in {"put", "print", "complain"}
                  /\ ~(Outer(u)' /\ Inner(u)')
  <2>1. Outer(u)' = Outer(u) /\ Inner(u)' = Inner(u) /\ pc'[u] = pc[u]
    BY OthersHold
  <2>2. /\ owner[log_mutex] # u /\ u # NULL
        /\ (owner'[log_mutex] = u \/ u \in Range(wait_list'[log_mutex]))
             <=> u \in Range(wait_list[log_mutex])
        /\ owner'[log_mutex] = u =>
             u \in Range(wait_list[log_mutex]) /\ locker'[log_mutex] = 1
    BY <1>2, UnlockEffect, Constants
  <2> QED
    BY <2>1, <2>2 DEF HoldInv
<1>4. /\ (Outer(t)' \/ Inner(t)')
           <=> (owner'[log_mutex] = t \/ t \in Range(wait_list'[log_mutex]))
      /\ owner'[log_mutex] = t =>
           locker'[log_mutex] = IF Outer(t)' /\ Inner(t)' THEN 2 ELSE 1
      /\ t \notin Range(wait_list'[log_mutex])
  <2>1. t \notin Range(wait_list'[log_mutex])
    BY <1>1, UnlockEffect
  <2>2. CASE locker[log_mutex] = 2
    <3>1. Outer(t) /\ Inner(t) /\ Outer(t)'
      BY <1>2, <2>2
    <3>2. owner'[log_mutex] = t /\ locker'[log_mutex] = 1
      BY <2>2, UnlockEffect
    <3> QED
      BY <2>1, <3>1, <3>2
  <2>3. CASE locker[log_mutex] = 1
    <3>1. ~Outer(t)'
      BY <1>2, <2>3
    <3>2. owner'[log_mutex] # t
      BY <1>1, <2>3, UnlockEffect
    <3> QED
      BY <2>1, <3>1, <3>2
  <2> QED
    BY <1>2, <2>2, <2>3
<1> QED
  BY <1>3, <1>4 DEF HoldInv

\* As long as the machine runs, HoldInv is enough for ReportBalanced.
LEMMA HoldBalanced == HoldInv => ReportBalanced
BY DEF HoldInv, ReportBalanced, Outer, Inner, Reporting

\* A task moves from a to b, outside of its report.
LEMMA Moves ==
  ASSUME ExcType, NEW t \in Tasks, NEW b \in ExcPlaces,
         pc' = [pc EXCEPT ![t] = b], UNCHANGED <<at, stopped>>
  PROVE  /\ ExcType' /\ Alone(t) /\ pc'[t] = b
         /\ ~Reporting(t) /\ b \notin {"report", "print", "complain"} =>
              /\ ~Inner(t) /\ ~Inner(t)'
              /\ Outer(t) = (pc[t] \in {"put", "unlock"})
              /\ Outer(t)' = (b \in {"put", "unlock"})
<1>1. /\ pc'[t] = b /\ pc' \in [Tasks -> ExcPlaces] /\ at'[t] = at[t]
      /\ \A u \in Tasks \ {t} : pc'[u] = pc[u] /\ at'[u] = at[u]
  BY DEF ExcType
<1>2. ExcType' /\ Alone(t)
  BY <1>1 DEF ExcType, Alone
<1>3. ~Reporting(t) => ~Inner(t) /\ Outer(t) = (pc[t] \in {"put", "unlock"})
  BY DEF Reporting, Inner, Outer
<1>4. b \notin {"report", "print", "complain"} =>
        ~Inner(t)' /\ Outer(t)' = (b \in {"put", "unlock"})
  BY <1>1 DEF Reporting, Inner, Outer
<1> QED
  BY <1>1, <1>2, <1>3, <1>4

\* The steps of the program itself.
LEMMA StepHold ==
  ASSUME IInv, ExcType, HoldInv, NEW t \in Tasks, Step(t), UNCHANGED excVars
  PROVE  ExcType' /\ HoldInv'
<1>1. UNCHANGED <<at, stopped>>
  BY DEF excVars
<1>2. CASE log_lock(t)
  <2>1. /\ Runs(t) /\ pc[t] = "log" /\ pc' = [pc EXCEPT ![t] = "put"]
        /\ rein_mutex_lock(log_mutex)
    BY <1>2 DEF log_lock, log_acquire, Goto
  <2>2. ~Reporting(t) /\ "put" \in ExcPlaces
    BY <2>1 DEF Reporting, ExcPlaces
  <2>3. /\ ExcType' /\ Alone(t) /\ pc'[t] = "put"
        /\ ~Inner(t) /\ ~Inner(t)' /\ ~Outer(t) /\ Outer(t)'
    BY <1>1, <2>1, <2>2, Moves
  <2> QED
    BY <2>1, <2>3, LockHold
<1>3. CASE log_unlock(t)
  <2>1. /\ Runs(t) /\ pc[t] = "unlock" /\ rein_mutex_unlock(log_mutex)
    BY <1>3 DEF log_unlock, log_release
  <2>2. PICK l \in {"notify", "wait", "sleep"} : pc' = [pc EXCEPT ![t] = l]
    BY <1>3, Constants DEF log_unlock, Goto
  <2>3. ~Reporting(t) /\ l \in ExcPlaces
    BY <2>1, <2>2 DEF Reporting, ExcPlaces
  <2>4. ExcType' /\ Alone(t) /\ ~Inner(t) /\ ~Inner(t)' /\ ~Outer(t)'
    BY <1>1, <2>2, <2>3, Moves
  <2> QED
    BY <2>1, <2>4, UnlockHold
<1>4. ASSUME NEW b \in ExcPlaces \ {"report", "print", "complain"},
             Runs(t), ~Reporting(t), pc' = [pc EXCEPT ![t] = b],
             pc[t] \in {"put", "unlock"} <=> b \in {"put", "unlock"},
             UNCHANGED mutexVars, wait_list'[log_mutex] = wait_list[log_mutex]
      PROVE  ExcType' /\ HoldInv'
  <2>1. /\ ExcType' /\ Alone(t) /\ ~Inner(t) /\ ~Inner(t)'
        /\ Outer(t) = (pc[t] \in {"put", "unlock"})
        /\ Outer(t)' = (b \in {"put", "unlock"})
    BY <1>1, <1>4, Moves
  <2>2. Outer(t)' = Outer(t)
    BY <1>4, <2>1
  <2>3. Inner(t)' = Inner(t)
    BY <2>1 DEF Inner
  <2>4. UNCHANGED <<owner, locker>>
    BY <1>4 DEF mutexVars
  <2> QED
    BY <1>4, <2>1, <2>2, <2>3, <2>4, MoveHold
<1>5. CASE log_put(t)
  <2>1. PICK b \in {"put", "unlock"} : pc' = [pc EXCEPT ![t] = b]
    BY <1>5 DEF log_put, Goto
  <2>2. /\ Runs(t) /\ pc[t] = "put" /\ UNCHANGED mutexVars
        /\ wait_list'[log_mutex] = wait_list[log_mutex]
    BY <1>5 DEF log_put, taskVars, listVars
  <2> QED
    BY <1>4, <2>1, <2>2 DEF Reporting, ExcPlaces
<1>6. CASE t = main_task /\ notify
  <2>1. /\ Runs(t) /\ pc[t] = "notify" /\ pc' = [pc EXCEPT ![t] = "sleep"]
        /\ UNCHANGED mutexVars /\ sem_notify(notify_task_print)
    BY <1>6 DEF notify, Goto
  <2>2. wait_list'[log_mutex] = wait_list[log_mutex]
    <3>1. CASE wait_list[notify_task_print] # <<>>
      BY <2>1, <3>1, Constants, WakeLists DEF sem_notify
    <3>2. CASE UNCHANGED taskVars
      BY <3>2 DEF taskVars, listVars
    <3> QED
      BY <2>1, <3>1, <3>2 DEF sem_notify
  <2> QED
    BY <1>4, <2>1, <2>2 DEF Reporting, ExcPlaces
<1>7. ASSUME t = main_task, NEW u \in Tasks, create(u)
      PROVE  ExcType' /\ HoldInv'
  <2>1. PICK b \in {"create", "log"} : pc' = [pc EXCEPT ![t] = b]
    BY <1>7 DEF create, Goto
  <2>2. /\ Runs(t) /\ pc[t] = "create" /\ UNCHANGED mutexVars
        /\ wait_list'[log_mutex] = wait_list[log_mutex]
    BY <1>7 DEF create, task_init
  <2> QED
    BY <1>4, <2>1, <2>2 DEF Reporting, ExcPlaces
<1>8. CASE t = new_task /\ wait
  <2>1. /\ Runs(t) /\ pc[t] = "wait" /\ pc' = [pc EXCEPT ![t] = "log"]
        /\ UNCHANGED mutexVars /\ sem_wait(notify_task_print)
    BY <1>8 DEF wait, Goto
  <2>2. wait_list'[log_mutex] = wait_list[log_mutex]
    <3>1. CASE BlockOn(notify_task_print)
      BY <2>1, <3>1, Constants, BlockLists
    <3>2. CASE UNCHANGED taskVars
      BY <3>2 DEF taskVars, listVars
    <3> QED
      BY <2>1, <3>1, <3>2 DEF sem_wait
  <2> QED
    BY <1>4, <2>1, <2>2 DEF Reporting, ExcPlaces
<1>9. ASSUME NEW ms \in SleepMs, sleep(t, ms)
      PROVE  ExcType' /\ HoldInv'
  <2>1. /\ Runs(t) /\ pc[t] = "sleep" /\ pc' = [pc EXCEPT ![t] = "log"]
        /\ UNCHANGED mutexVars /\ wait_list'[log_mutex] = wait_list[log_mutex]
    BY <1>9 DEF sleep, sys_sleep, Goto
  <2> QED
    BY <1>4, <2>1 DEF Reporting, ExcPlaces
<1> QED
  BY <1>2, <1>3, <1>5, <1>6, <1>7, <1>8, <1>9 DEF Step

\* A line of the report begins.
LEMMA ReportLockHold ==
  ASSUME IInv, ExcType, HoldInv, NEW t \in Tasks, report_lock(t)
  PROVE  ExcType' /\ HoldInv'
<1>1. PICK b \in {"print", "complain"} : pc' = [pc EXCEPT ![t] = b]
  BY DEF report_lock, Goto
<1>2. /\ Runs(t) /\ pc[t] = "report" /\ UNCHANGED <<at, stopped>>
      /\ rein_mutex_lock(log_mutex)
  BY DEF report_lock, log_acquire, excVars
<1>3. ExcType' /\ Alone(t) /\ pc'[t] = b
  BY <1>1, <1>2, Moves DEF ExcPlaces
<1>4. ~Inner(t) /\ Inner(t)' /\ Outer(t)' = Outer(t)
  BY <1>2, <1>3 DEF Inner, Outer, Reporting
<1> QED
  BY <1>1, <1>2, <1>3, <1>4, LockHold

\* A line of the report ends.
LEMMA ReportPrintHold ==
  ASSUME IInv, ExcType, HoldInv, NEW t \in Tasks, report_print(t)
  PROVE  ExcType' /\ HoldInv'
<1>1. /\ Runs(t) /\ pc[t] = "print" /\ pc' = [pc EXCEPT ![t] = "report"]
      /\ UNCHANGED <<at, stopped>> /\ rein_mutex_unlock(log_mutex)
  BY DEF report_print, log_release, Goto
<1>2. ExcType' /\ Alone(t) /\ pc'[t] = "report"
  BY <1>1, Moves DEF ExcPlaces
<1>3. Inner(t) /\ ~Inner(t)' /\ Outer(t)' = Outer(t)
  BY <1>1, <1>2 DEF Inner, Outer, Reporting
<1> QED
  BY <1>1, <1>2, <1>3, UnlockHold

\* A fault keeps what the task holds, and remembers where it was.
LEMMA FaultHold ==
  ASSUME IInv, ExcType, HoldInv, NEW t \in Tasks, fault(t)
  PROVE  ExcType' /\ HoldInv'
<1>1. /\ Runs(t) /\ ~Reporting(t) /\ pc' = [pc EXCEPT ![t] = "report"]
      /\ at' = [at EXCEPT ![t] = pc[t]] /\ UNCHANGED stopped
      /\ UNCHANGED <<owner, locker, wait_list>>
  BY DEF fault, Goto, taskVars, listVars, mutexVars
<1>2. /\ pc'[t] = "report" /\ at'[t] = pc[t] /\ pc' \in [Tasks -> ExcPlaces]
      /\ at' \in [Tasks -> ExcPlaces \cup {"nowhere"}]
      /\ \A u \in Tasks \ {t} : pc'[u] = pc[u] /\ at'[u] = at[u]
  BY <1>1 DEF ExcType, ExcPlaces
<1>3. ExcType' /\ Alone(t)
  BY <1>1, <1>2 DEF ExcType, Alone
<1>4. Outer(t)' = Outer(t) /\ Inner(t)' = Inner(t)
  BY <1>1, <1>2 DEF Inner, Outer, Reporting
<1> QED
  BY <1>1, <1>3, <1>4, MoveHold

\* kernel_itoa's complaint is the last thing that happens to the log.
LEMMA ComplainBalanced ==
  ASSUME IInv, ExcType, HoldInv, NEW t \in Tasks, complain(t)
  PROVE  ExcType' /\ stopped' /\ ReportBalanced'
<1>1. /\ Runs(t) /\ pc[t] = "complain" /\ UNCHANGED <<pc, at>> /\ stopped' = TRUE
      /\ rein_mutex_unlock(log_mutex)
  BY DEF complain, log_release
<1>2. ASSUME NEW u \in Tasks, pc[u] = "report"
      PROVE  owner'[log_mutex] = u <=> at[u] \in {"put", "unlock"}
  <2>1. u # t /\ owner[log_mutex] = t /\ u # NULL
    BY <1>1, <1>2, UnlockEffect, Constants
  <2>2. u \notin Range(wait_list[log_mutex]) /\ at[u] \notin {"put", "unlock"}
    BY <1>2, <2>1 DEF HoldInv, Outer, Reporting
  <2> QED
    BY <1>1, <2>1, <2>2, UnlockEffect
<1> QED
  BY <1>1, <1>2 DEF ExcType, ReportBalanced

\* Every step keeps ExcInv.
LEMMA NextExcInv == IInv /\ ExcInv /\ [ExcNext]_allVars => ExcInv'
<1> SUFFICES ASSUME IInv, ExcInv, [ExcNext]_allVars PROVE ExcInv'
  OBVIOUS
<1>1. CASE UNCHANGED <<pc, at, stopped, owner, locker, wait_list>>
  BY <1>1 DEF ExcInv, ExcType, HoldInv, ReportBalanced, Outer, Inner, Reporting
<1>2. CASE UNCHANGED allVars
  BY <1>1, <1>2 DEF allVars, progVars, taskVars, listVars, mutexVars, mainVars, excVars
<1>3. CASE ExcTick
  <2>1. Tick /\ UNCHANGED <<pc, at, stopped, owner, locker>>
    BY <1>3 DEF ExcTick, Tick, mainVars, mutexVars, excVars
  <2>2. UNCHANGED wait_list
    BY <2>1 DEF Tick, task_time_tick, tick_slice, tick_sleeper, tick_dispatch, listVars
  <2> QED
    BY <1>1, <2>1, <2>2
<1>4. ASSUME NEW t \in Tasks, ~stopped, ExcType' /\ HoldInv'
      PROVE  ExcInv'
  <2>1. ReportBalanced'
    BY <1>4, HoldBalanced, PTL
  <2> QED
    BY <1>4, <2>1 DEF ExcInv
<1>5. ASSUME NEW t \in Tasks, ExcStep(t)
      PROVE  ExcInv'
  <2>1. ~stopped /\ ExcType /\ HoldInv
    BY <1>5 DEF ExcStep, ExcInv
  <2>2. CASE report_lock(t)
    BY <1>4, <2>1, <2>2, ReportLockHold
  <2>3. CASE report_print(t)
    BY <1>4, <2>1, <2>3, ReportPrintHold
  <2>4. CASE complain(t)
    BY <2>1, <2>4, ComplainBalanced DEF ExcInv
  <2>5. CASE halt(t)
    <3>1. /\ UNCHANGED <<pc, at, owner, wait_list>> /\ stopped' = TRUE
      BY <2>5 DEF halt, mainVars, mutexVars, taskVars, listVars
    <3> QED
      BY <3>1 DEF ExcInv, ExcType, ReportBalanced
  <2>6. CASE Step(t) /\ UNCHANGED excVars
    BY <1>4, <2>1, <2>6, StepHold
  <2> QED
    BY <1>5, <2>2, <2>3, <2>4, <2>5, <2>6 DEF ExcStep
<1>6. ASSUME NEW t \in Tasks, ~stopped /\ fault(t)
      PROVE  ExcInv'
  BY <1>4, <1>6, FaultHold DEF ExcInv
<1> QED
  BY <1>2, <1>3, <1>5, <1>6 DEF ExcNext, Dead

\* The kernel's invariant and ExcInv hold in every reachable state of the
\* program with faults.
THEOREM ExceptionInvariance == ExcSpec => [](IInv /\ ExcInv)
<1>1. ExcInit => IInv /\ ExcInv
  <2> SUFFICES ASSUME ExcInit PROVE IInv /\ ExcInv
    OBVIOUS
  <2>1. IInv /\ ProgInv
    BY InitProgInv DEF ExcInit
  <2>2. /\ \A t \in Tasks : pc[t] \in {"create", "log", "wait"}
        /\ owner[log_mutex] = NULL /\ Range(wait_list[log_mutex]) = {}
    <3>1. wait_list[log_mutex] = <<>>
      BY Constants DEF ExcInit, MainInit, TaskInit
    <3>2. owner[log_mutex] = NULL
      BY Constants DEF ExcInit, MainInit, rein_mutex_init
    <3>3. pc = [t \in Tasks |-> CASE t = main_task -> "create"
                                  [] t = new_task -> "wait"
                                  [] OTHER -> "log"]
      BY DEF ExcInit, MainInit
    <3> QED
      BY <3>1, <3>2, <3>3, EmptyList
  <2>3. ExcType
    BY <2>1 DEF ExcType, ExcPlaces, ExcInit, ProgInv, ProgType
  <2>4. HoldInv
    BY <2>2, Constants DEF HoldInv, Outer, Inner, Reporting
  <2> QED
    BY <2>1, <2>3, <2>4, HoldBalanced DEF ExcInv
<1>2. (IInv /\ ExcInv) /\ [ExcNext]_allVars => (IInv /\ ExcInv)'
  BY ExcIInv, NextExcInv
<1> QED
  BY <1>1, <1>2, PTL DEF ExcSpec

\* Whatever a task was doing when it faulted, between two lines of the report
\* it holds the log's mutex exactly if it held it before: do_default_handler
\* undoes its own locks and no others.
THEOREM ReportsBalanced == ExcSpec => []ReportBalanced
<1>1. ExcInv => ReportBalanced
  BY DEF ExcInv
<1> QED
  BY <1>1, ExceptionInvariance, PTL

\* Every exception's frame is laid out as exception_frame_t says.
THEOREM FramesRight == ExcSpec => []FrameRight
<1>1. FrameRight
  BY FrameOf DEF FrameRight
<1> QED
  BY <1>1, PTL

=============================================================================
