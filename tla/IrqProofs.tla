------------------------------ MODULE IrqProofs ------------------------------
(***************************************************************************)
(* Protected code runs with interrupts off, and no update of the lists is  *)
(* torn, for any number of tasks.                                          *)
(*                                                                         *)
(* FlagsRight speaks of the running task only and is not inductive: what   *)
(* iret and irq_leave_protection restore, and what a far jump loads, was   *)
(* saved earlier, often long before, on the stack or in the TSS of a task. *)
(* SavedRight says what is saved where, for every task; Suspended says     *)
(* where the tasks that do not run can be.                                 *)
(***************************************************************************)
EXTENDS Irq, TLAPS

Labels == Protected \cup {"boot", "user", "cli"}

\* Inside task_dispatch; only in the handler.
Dispatching == {"d_enter", "d_cli", "d_pick", "d_leave"}
HandlerOnly == {"h_eoi", "h_read", "h_write", "iret"}

TypeInv ==
  /\ curr \in Tasks
  /\ pc \in [Tasks -> Labels]
  /\ ret \in [Tasks -> {"user", "cli"}]
  /\ caller \in [Tasks -> {"leave", "iret"}]
  /\ lists \in Nat
  /\ seen \in [Tasks -> Nat]
  /\ DOMAIN frame = Tasks
  /\ DOMAIN outer = Tasks
  /\ DOMAIN inner = Tasks
  /\ DOMAIN tss = Tasks

\* The timer interrupt has been taken, and its handler has not returned.
InHandler(t) ==
  pc[t] \in HandlerOnly \/ (pc[t] \in Dispatching /\ caller[t] = "iret")

\* A system call has read the flags, and it has not restored them.
InCall(t) ==
  \/ pc[t] \in {"cli", "read", "write", "leave"}
  \/ pc[t] \in Dispatching /\ caller[t] = "leave"
  \/ InHandler(t) /\ ret[t] = "cli"

\* Both were entered with interrupts on, the call of task_dispatch inside
\* them with interrupts off.
SavedRight ==
  \A t \in Tasks :
    /\ InHandler(t) => frame[t]
    /\ InCall(t) => outer[t]
    /\ pc[t] \in {"d_cli", "d_pick", "d_leave"} => ~inner[t]

\* A task that does not run has never run, or it is in task_dispatch, behind
\* the far jump.
Suspended ==
  \A t \in Tasks \ {curr} :
    \/ pc[t] = "user" /\ tss[t]
    \/ pc[t] = "d_leave" /\ ~tss[t]

IrqInv ==
  /\ TypeInv
  /\ SavedRight
  /\ Suspended
  /\ FlagsRight
  /\ ListsNotTorn

-----------------------------------------------------------------------------

\* The state in which init_main runs satisfies the invariant.
LEMMA InitIrqInv == Init => IrqInv
<1> SUFFICES ASSUME Init PROVE IrqInv
  OBVIOUS
<1> USE IrqAssumption DEF Init
<1>1. TypeInv
  BY DEF TypeInv, Labels
<1>2. SavedRight
  BY DEF SavedRight, InHandler, InCall, HandlerOnly, Dispatching
<1>3. Suspended
  BY DEF Suspended
<1>4. FlagsRight /\ ListsNotTorn
  BY DEF FlagsRight, ListsNotTorn, At, Protected
<1> QED
  BY <1>1, <1>2, <1>3, <1>4 DEF IrqInv

\* Every step keeps the invariant.
LEMMA NextIrqInv == IrqInv /\ [Next]_vars => IrqInv'
<1> SUFFICES ASSUME IrqInv, [Next]_vars PROVE IrqInv'
  OBVIOUS
<1> USE IrqAssumption
        DEF IrqInv, TypeInv, SavedRight, Suspended, FlagsRight, ListsNotTorn,
            InHandler, InCall, HandlerOnly, Dispatching, Labels, Protected,
            At, Goto, Save, chipVars, savedVars, listVars, cli, sti,
            write_eflags
<1>1. CASE pit_request
  BY <1>1 DEF pit_request
<1>2. CASE interrupt
  BY <1>2 DEF interrupt
<1>3. CASE pic_send_eoi
  BY <1>3 DEF pic_send_eoi, eoi
<1>4. CASE iret
  BY <1>4 DEF iret
<1>5. CASE irq_enable_global
  BY <1>5 DEF irq_enable_global
<1>6. CASE enter_read
  BY <1>6 DEF enter_read
<1>7. CASE enter_cli
  BY <1>7 DEF enter_cli
<1>8. CASE lists_read
  BY <1>8 DEF lists_read
<1>9. CASE lists_write
  BY <1>9 DEF lists_write
<1>10. CASE leave
  BY <1>10 DEF leave, saved
<1>11. ASSUME NEW u \in Tasks, task_switch_from_to(u)
       PROVE  IrqInv'
  BY <1>11 DEF task_switch_from_to, far_jump
<1>12. CASE UNCHANGED vars
  BY <1>12 DEF vars
<1> QED
  BY <1>1, <1>2, <1>3, <1>4, <1>5, <1>6, <1>7, <1>8, <1>9, <1>10, <1>11, <1>12
     DEF Next, Handler, SystemCall

\* The invariant holds in every reachable state.
THEOREM IrqInvariance == Spec => []IrqInv
BY InitIrqInv, NextIrqInv, PTL DEF Spec

\* irq_enter_protection and irq_leave_protection work also when they are
\* nested, and when task_dispatch switches to another task between them:
\* protected code runs with interrupts off, all other code with them on.
THEOREM InterruptFlag == Spec => []FlagsRight
<1>1. IrqInv => FlagsRight
  BY DEF IrqInv
<1> QED
  BY <1>1, IrqInvariance, PTL

\* Nobody changes the kernel's lists between a task's reading them and its
\* writing them, so the system calls and the timer handler may be taken for
\* atomic, as module Task does.
THEOREM CallsAtomic == Spec => []ListsNotTorn
<1>1. IrqInv => ListsNotTorn
  BY DEF IrqInv
<1> QED
  BY <1>1, IrqInvariance, PTL

=============================================================================
