-------------------------------- MODULE Main --------------------------------
(***************************************************************************)
(* The program the kernel runs, kernel/init/init.c, and the serial log it  *)
(* writes to, kernel/tools/log.c: init_main creates the other tasks and    *)
(* then sends a notification every second; new_task_entry waits for them;  *)
(* new_task2_entry prints and sleeps.  All of them print through           *)
(* log_printfln, one character at a time, and the timer may interrupt them *)
(* between any two characters.                                             *)
(*                                                                         *)
(* A character is the task that prints it and its place in the line: 1 to  *)
(* LineLen for the message, then carriage return and line feed.            *)
(***************************************************************************)
EXTENDS Sem, Mutex

CONSTANTS
  new_task,           \* runs new_task_entry
  Printers,           \* run new_task2_entry or new_task3_entry
  notify_task_print,  \* the semaphore between init_main and new_task
  log_mutex,          \* the mutex of log.c
  LineLen             \* characters in each message

ASSUME MainAssumption ==
  /\ Tasks = {main_task, new_task} \cup Printers
  /\ new_task # main_task
  /\ Printers \cap {main_task, new_task} = {}
  /\ notify_task_print \in Sems
  /\ InitCount[notify_task_print] = 0
  /\ log_mutex \in Mutexes
  /\ LineLen \in Nat

VARIABLES
  pc,    \* what each task does next
  pos,   \* how far each task's log_printfln has come with its line
  line,  \* what has gone out on the serial port since the last line feed
  due    \* auxiliary: notifications sent that new_task has not acted on yet

mainVars == <<pc, pos, line, due>>
progVars == <<taskVars, count, mutexVars, mainVars>>

CR == LineLen + 1
LF == LineLen + 2

MainInit ==
  /\ TaskInit /\ sem_init /\ rein_mutex_init
  /\ pc = [t \in Tasks |-> CASE t = main_task -> "create"
                             [] t = new_task -> "wait"
                             [] OTHER -> "log"]
  /\ pos = [t \in Tasks |-> 1]
  /\ line = <<>>
  /\ due = 0

Runs(t) == TaskRuns /\ curr_task = t

Goto(t, l) == pc' = [pc EXCEPT ![t] = l]

-----------------------------------------------------------------------------
(* log_printfln.                                                           *)

\* mutant of log_acquire: no mutex
log_acquire_not == UNCHANGED <<taskVars, mutexVars>>

\* mutant of log_release: rein_mutex_unlock forgotten
log_release_not == UNCHANGED <<taskVars, mutexVars>>

log_acquire == rein_mutex_lock(log_mutex)
log_release == rein_mutex_unlock(log_mutex)

\* A task that has to wait owns the mutex when it runs again.
log_lock(t) ==
  /\ Runs(t) /\ pc[t] = "log"
  /\ log_acquire
  /\ Goto(t, "put")
  /\ due' = IF t = new_task THEN due - 1 ELSE due
  /\ UNCHANGED <<count, pos, line>>

\* outb of the next character.  The wait for the port to be ready is left out:
\* in inb(...) & (1<<6) == 0 the comparison binds tighter than &, so that the
\* condition is constantly false and the loop never waits.
log_put(t) ==
  /\ Runs(t) /\ pc[t] = "put"
  /\ line' = IF pos[t] = LF THEN <<>> ELSE Append(line, <<t, pos[t]>>)
  /\ pos' = [pos EXCEPT ![t] = IF @ = LF THEN 1 ELSE @ + 1]
  /\ Goto(t, IF pos[t] = LF THEN "unlock" ELSE "put")
  /\ UNCHANGED <<taskVars, count, mutexVars, due>>

log_unlock(t) ==
  /\ Runs(t) /\ pc[t] = "unlock"
  /\ log_release
  /\ Goto(t, CASE t = main_task -> "notify"
               [] t = new_task -> "wait"
               [] OTHER -> "sleep")
  /\ UNCHANGED <<count, pos, line, due>>

-----------------------------------------------------------------------------
(* The three programs.                                                     *)

create(t) ==
  /\ Runs(main_task) /\ pc[main_task] = "create"
  /\ task_init(t)
  /\ Goto(main_task, IF Created' = Tasks THEN "log" ELSE "create")
  /\ UNCHANGED <<count, mutexVars, pos, line, due>>

notify ==
  /\ Runs(main_task) /\ pc[main_task] = "notify"
  /\ sem_notify(notify_task_print)
  /\ Goto(main_task, "sleep")
  /\ due' = due + 1
  /\ UNCHANGED <<mutexVars, pos, line>>

wait ==
  /\ Runs(new_task) /\ pc[new_task] = "wait"
  /\ sem_wait(notify_task_print)
  /\ Goto(new_task, "log")
  /\ UNCHANGED <<mutexVars, pos, line, due>>

sleep(t, ms) ==
  /\ Runs(t) /\ pc[t] = "sleep"
  /\ sys_sleep(ms)
  /\ Goto(t, "log")
  /\ UNCHANGED <<count, mutexVars, pos, line, due>>

Step(t) ==
  \/ log_lock(t)
  \/ log_put(t)
  \/ log_unlock(t)
  \/ t = main_task /\ (notify \/ \E u \in Tasks : create(u))
  \/ t = new_task /\ wait
  \/ \E ms \in SleepMs : sleep(t, ms)

Tick == task_time_tick /\ UNCHANGED <<count, mutexVars, mainVars>>

MainNext == Tick \/ \E t \in Tasks : Step(t)

\* The timer keeps ticking, and a task that gets the CPU again and again
\* executes its instructions: a time slice is many instructions long.
MainSpec ==
  /\ MainInit
  /\ [][MainNext]_progVars
  /\ WF_progVars(Tick)
  /\ \A t \in Tasks : SF_progVars(Step(t))

-----------------------------------------------------------------------------

\* Lines are whole: what is on the wire since the last line feed is the
\* beginning of one task's line, and that task holds the mutex, even though
\* it may have been preempted between any two characters.
LinesWhole ==
  line # <<>> =>
    \E t \in Tasks : /\ line = [k \in 1 .. pos[t] - 1 |-> <<t, k>>]
                     /\ pc[t] = "put"
                     /\ owner[log_mutex] = t

\* No notification is lost or delivered twice: those due are in the counter
\* of the semaphore, but for the one new_task has been woken by.
SignalsConserved ==
  due = count[notify_task_print]
          + IF /\ pc[new_task] = "log"
               /\ new_task \notin Range(wait_list[notify_task_print])
            THEN 1 ELSE 0

\* A task that owns the log's mutex can always run: it is never asleep or
\* blocked with the mutex held, so that nobody waits for the log forever.
HolderIsReady ==
  owner[log_mutex] # NULL => owner[log_mutex] \in Range(ready_list)

\* Every line that a task sets out to print gets printed.
LinesPrinted ==
  \A t \in Tasks \ {new_task} :
    (t \in Created /\ pc[t] = "log") ~> pc[t] = "unlock"

\* Every notification makes new_task print.
NotificationsPrinted == due > 0 ~> pc[new_task] = "unlock"

=============================================================================
