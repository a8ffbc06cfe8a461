--------------------------------- MODULE Irq ---------------------------------
(***************************************************************************)
(* Why the system calls and the timer handler may be modelled as atomic:   *)
(* irq_enter_protection and irq_leave_protection of kernel/cpu/irq.c, the  *)
(* timer interrupt from the 8259 to iret, and the flags each task keeps on *)
(* its stack and in its TSS when task_dispatch switches away from it in    *)
(* the middle of all this.                                                 *)
(*                                                                         *)
(* Every instruction that touches the interrupt flag IF is a step, and so  *)
(* is each half of a change to the kernel's lists: a version number of the *)
(* lists is read in one step and advanced in the next.  Which task a       *)
(* dispatch runs is left open here; module Task says which.                *)
(***************************************************************************)
EXTENDS Integers

CONSTANTS
  Tasks,     \* the tasks, the idle one included
  boot,      \* the one that runs init_main
  Versions   \* bound: the version of the lists counts modulo this

ASSUME IrqAssumption ==
  /\ boot \in Tasks
  /\ Versions \in Nat \ {0, 1}

VARIABLES
  curr,    \* the task in the CPU
  IF_flag,     \* the interrupt flag of EFLAGS
  irr,     \* the 8259 holds a timer request
  isr,     \* the 8259 waits for the end of the timer interrupt
  pc,      \* where each task is
  caller,  \* what called task_dispatch, and where it goes on
  ret,     \* where the timer interrupt took a task from
  frame,   \* IF as pushed by the timer interrupt, for iret
  outer,   \* IF as read by the system call, for irq_leave_protection
  inner,   \* IF as read by task_dispatch
  tss,     \* IF in the task's TSS
  lists,   \* version of the kernel's lists
  seen     \* the version a task has read and is about to replace

chipVars == <<irr, isr>>
savedVars == <<frame, outer, inner, tss>>
listVars == <<lists, seen>>
vars == <<curr, IF_flag, chipVars, pc, ret, caller, savedVars, listVars>>

\* Between cli and the end of the protected region, or in the handler.
Protected == {"read", "write", "d_enter", "d_cli", "d_pick",
              "d_leave", "leave", "h_eoi", "h_read", "h_write", "iret"}

Init ==
  /\ curr = boot
  /\ IF_flag = FALSE
  /\ irr = FALSE
  /\ isr = FALSE
  /\ pc = [t \in Tasks |-> IF t = boot THEN "boot" ELSE "user"]
  /\ ret = [t \in Tasks |-> "user"]
  /\ caller = [t \in Tasks |-> "leave"]
  /\ frame = [t \in Tasks |-> FALSE]
  /\ outer = [t \in Tasks |-> FALSE]
  /\ inner = [t \in Tasks |-> FALSE]
  /\ tss = [t \in Tasks |-> TRUE]
  /\ lists = 0
  /\ seen = [t \in Tasks |-> 0]

At(l) == pc[curr] = l
Goto(l) == pc' = [pc EXCEPT ![curr] = l]
Save(var) == [var EXCEPT ![curr] = IF_flag]

-----------------------------------------------------------------------------
(* The instructions that read and write the flags.                         *)

\* mutant of cli: the interrupts stay on
cli_not == UNCHANGED IF_flag

cli == IF_flag' = FALSE
sti == IF_flag' = TRUE
write_eflags(state) == IF_flag' = state

\* A far jump to another task's TSS: the CPU saves EFLAGS in the TSS of curr
\* and loads them from u's.
far_jump(u) == curr' = u /\ tss' = Save(tss) /\ write_eflags(tss[u])

-----------------------------------------------------------------------------
(* The timer chip and the 8259.                                            *)

pit_request ==
  /\ ~irr
  /\ irr' = TRUE
  /\ UNCHANGED <<curr, IF_flag, isr, pc, ret, caller, savedVars, listVars>>

\* The CPU takes the request through an interrupt gate.
interrupt ==
  /\ IF_flag /\ irr /\ ~isr
  /\ irr' = FALSE /\ isr' = TRUE
  /\ frame' = Save(frame)
  /\ ret' = [ret EXCEPT ![curr] = pc[curr]]
  /\ IF_flag' = FALSE
  /\ Goto("h_eoi")
  /\ UNCHANGED <<curr, caller, outer, inner, tss, listVars>>

\* mutant of eoi: it is never sent
eoi_never == UNCHANGED isr

eoi == isr' = FALSE

\* The handler allows the next request before it may switch to another task.
pic_send_eoi ==
  /\ At("h_eoi") /\ Goto("h_read")
  /\ eoi
  /\ UNCHANGED <<curr, IF_flag, irr, ret, caller, savedVars, listVars>>

iret ==
  /\ At("iret") /\ Goto(ret[curr])
  /\ write_eflags(frame[curr])
  /\ UNCHANGED <<curr, chipVars, ret, caller, savedVars, listVars>>

-----------------------------------------------------------------------------
(* What a task does.                                                       *)

irq_enable_global ==
  /\ At("boot") /\ Goto("user")
  /\ sti
  /\ UNCHANGED <<curr, chipVars, ret, caller, savedVars, listVars>>

\* irq_enter_protection of a system call and, nested in it or in the handler,
\* of task_dispatch: read the flags, then cli.
enter_read ==
  /\ \/ At("user") /\ Goto("cli") /\ outer' = Save(outer) /\ UNCHANGED inner
     \/ At("d_enter") /\ Goto("d_cli") /\ inner' = Save(inner) /\ UNCHANGED outer
  /\ UNCHANGED <<curr, IF_flag, chipVars, ret, caller, frame, tss, listVars>>

enter_cli ==
  /\ (At("cli") /\ Goto("read")) \/ (At("d_cli") /\ Goto("d_pick"))
  /\ cli
  /\ UNCHANGED <<curr, chipVars, ret, caller, savedVars, listVars>>

\* A change to the lists, by a system call or by task_time_tick.
lists_read ==
  /\ (At("read") /\ Goto("write")) \/ (At("h_read") /\ Goto("h_write"))
  /\ seen' = [seen EXCEPT ![curr] = lists]
  /\ UNCHANGED <<curr, IF_flag, chipVars, ret, caller, savedVars, lists>>

\* The tick dispatches, and so do some system calls.
lists_write ==
  /\ \/ /\ At("write") /\ (Goto("leave") \/ Goto("d_enter"))
        /\ caller' = [caller EXCEPT ![curr] = "leave"]
     \/ /\ At("h_write") /\ Goto("d_enter")
        /\ caller' = [caller EXCEPT ![curr] = "iret"]
  /\ lists' = (seen[curr] + 1) % Versions
  /\ UNCHANGED <<curr, IF_flag, chipVars, ret, savedVars, seen>>

\* No jump when the task to run is the one that runs.
task_switch_from_to(u) ==
  /\ At("d_pick") /\ Goto("d_leave")
  /\ \/ u # curr /\ far_jump(u)
     \/ u = curr /\ UNCHANGED <<curr, tss, IF_flag>>
  /\ UNCHANGED <<chipVars, ret, caller, frame, outer, inner, listVars>>

\* mutant of saved: the flags of the wrong protected region
saved_inner == inner[curr]

saved == IF At("leave") THEN outer[curr] ELSE inner[curr]

\* irq_leave_protection of the system call, or of task_dispatch when the task
\* runs again.
leave ==
  /\ (At("leave") /\ Goto("user")) \/ (At("d_leave") /\ Goto(caller[curr]))
  /\ write_eflags(saved)
  /\ UNCHANGED <<curr, chipVars, ret, caller, savedVars, listVars>>

Handler ==
  \/ pic_send_eoi
  \/ iret

SystemCall ==
  \/ ~At("user") /\ enter_read
  \/ enter_cli
  \/ lists_read
  \/ lists_write
  \/ \E u \in Tasks : task_switch_from_to(u)
  \/ leave

Next ==
  \/ pit_request
  \/ interrupt
  \/ Handler
  \/ irq_enable_global
  \/ enter_read
  \/ SystemCall

\* The timer chip never stops.  The CPU looks for a request after every
\* instruction it runs with interrupts on, so one that it could take again and
\* again is taken.  Code that has started a system call or the handler goes on
\* with it; a task may compute forever without calling the kernel.
Spec ==
  /\ Init
  /\ [][Next]_vars
  /\ WF_vars(pit_request)
  /\ SF_vars(interrupt)
  /\ WF_vars(Handler \/ SystemCall \/ irq_enable_global)

-----------------------------------------------------------------------------

\* Protected code runs with interrupts off from its first instruction to its
\* last, even when it has been switched away from and back in the middle; all
\* other code of a task that has left init_main's boot phase runs with them on.
FlagsRight ==
  /\ At("boot") \/ pc[curr] \in Protected => ~IF_flag
  /\ pc[curr] \in {"user", "cli"} => IF_flag

\* No update of the lists is lost: what a task has read is still current when
\* it writes, so each call and each tick sees the lists whole.
ListsNotTorn ==
  \A t \in Tasks : pc[t] \in {"write", "h_write"} => seen[t] = lists

\* The timer goes on interrupting whatever the tasks do, also after a switch
\* from inside the handler to a task that never calls the kernel.
TicksForever == []<>(pc[curr] = "h_read")

=============================================================================
