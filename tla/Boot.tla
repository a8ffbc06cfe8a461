-------------------------------- MODULE Boot --------------------------------
(***************************************************************************)
(* From power-on to the first task: the sector reads of boot/start.S, the  *)
(* loader (modules DetectMemory and LoadKernel), kernel_init and the       *)
(* beginning of init_main (kernel/init/init.c).                            *)
(*                                                                         *)
(* The point of the order is that the timer, started by timer_init, must   *)
(* find a current task when its first interrupt is taken, that no other    *)
(* device may interrupt, and that the mutexes are used before there is a   *)
(* task: get_alloc_desc locks and unlocks for the idle and the main task   *)
(* while task_manager.curr_task is null.                                   *)
(***************************************************************************)
EXTENDS DetectMemory, LoadKernel, Descriptor

CONSTANTS
  IDT_TABLE_NR,   \* gates in idt_table
  IRQ_PIC_START,  \* the vector of line 0 of the first 8259
  Devices,        \* interrupt lines with a device that may raise them
  main_task, NULL

ASSUME BootAssumption ==
  /\ main_task # NULL
  /\ {IDT_TABLE_NR, IRQ_PIC_START} \subseteq Nat
  /\ IRQ_PIC_START \in 22 .. IDT_TABLE_NR - 1
  /\ 8 * IDT_TABLE_NR <= HALF
  /\ 0 \in Devices /\ Devices \subseteq (0 .. 15) \ {2}

VARIABLES
  stage,      \* what runs next
  eflags_IF,  \* the CPU takes interrupts
  pit_on,     \* the timer has been started
  imr,        \* lines masked in the two 8259
  idt_table,
  idtr,       \* the CPU's register for it
  handled,    \* the address of the last interrupt's handler, -1 when the CPU
              \* has found none, 0 before the first interrupt
  curr_task,  \* task_manager.curr_task
  owner,      \* of the mutex in cpu.c
  locker      \* of the mutex in cpu.c

irqVars == <<pit_on, imr, idt_table, idtr>>
mutexVars == <<owner, locker>>
kernelVars == <<eflags_IF, irqVars, handled, curr_task, mutexVars>>
vars == <<memVars, loadVars, stage, kernelVars>>

\* Addresses in the kernel's image: the table, the handler of a vector, and
\* exception_handler_unknown.
idt_address == HALF + 4096
handler(v) == HALF + 16 * (v + 1)
unknown == HALF

\* The image is in the address space: its addresses have two halves.
ASSUME AddressAssumption ==
  /\ idt_address \div HALF < HALF
  /\ handler(IDT_TABLE_NR) \div HALF < HALF

IRQ0_TIMER == IRQ_PIC_START

\* Vectors irq_init installs a handler for; 15 is reserved.
Exceptions == (0 .. 21) \ {15}

Init ==
  /\ MemInit /\ LoadInit
  /\ stage = "read_loader"
  /\ eflags_IF = TRUE
  /\ pit_on = FALSE
  /\ imr = {}
  /\ idt_table = <<>>
  /\ idtr = table_reg(0, HALF)
  /\ handled = 0
  /\ curr_task = NULL
  /\ owner = NULL
  /\ locker = 0

-----------------------------------------------------------------------------
(* Boot sector and loader.                                                 *)

\* int 0x13 succeeds; when it fails it is tried again, with nothing changed.
read_loader ==
  /\ stage = "read_loader"
  /\ stage' = "loader16"
  /\ UNCHANGED <<memVars, loadVars, kernelVars>>

loader16 ==
  /\ stage = "loader16"
  /\ detect_memory \/ detect_fail
  /\ UNCHANGED <<loadVars, stage, kernelVars>>

\* The loader goes on when detect_memory has failed, too.
enter_protect_mode ==
  /\ stage = "loader16" /\ detect # "loop"
  /\ stage' = "load_kernel"
  /\ eflags_IF' = FALSE
  /\ UNCHANGED <<memVars, loadVars, irqVars, handled, curr_task, mutexVars>>

\* Jumps to the kernel in the end, or stops.
loader32 ==
  /\ stage = "load_kernel"
  /\ load_kernel
  /\ stage' = CASE load' = "entered" -> "cpu_init"
                [] load' = "dead" -> "stopped"
                [] OTHER -> stage
  /\ UNCHANGED <<memVars, kernelVars>>

disk == disk_answers /\ UNCHANGED <<memVars, stage, kernelVars>>

-----------------------------------------------------------------------------
(* kernel_init and init_main: each step is a call, or half of a call that  *)
(* holds the mutex between them.                                           *)

kernel_init ==
  <<"cpu_init", "timer_init", "task_manager_init", "idle_unlock", "log_init">>

\* mutant of init_main: interrupts are enabled before there is a task
init_main_sti_first ==
  <<"irq_enable_global", "main_lock", "main_unlock", "task_main_init",
    "running">>

init_main ==
  <<"main_lock", "main_unlock", "task_main_init", "irq_enable_global",
    "running">>

Call(f) ==
  LET order == kernel_init \o init_main
  IN  /\ stage = f
      /\ \E k \in DOMAIN order : order[k] = f /\ stage' = order[k + 1]
      /\ UNCHANGED <<memVars, loadVars, handled>>

irq_install(table, irq_num, pointer) ==
  [table EXCEPT ![irq_num] = gate_desc_set(8, pointer, GATE_INT)]

\* mutant of pic_init: nothing is masked
pic_init_open == {}

\* All lines but the one of the second 8259.
pic_init == (0 .. 15) \ {2}

\* Defaults first, then the exceptions' own handlers.
irq_init ==
  /\ idt_table' = [v \in 0 .. IDT_TABLE_NR - 1 |->
       gate_desc_set(8, IF v \in Exceptions THEN handler(v) ELSE unknown, GATE_INT)]
  /\ idtr' = table_reg(idt_address, 8 * IDT_TABLE_NR)
  /\ imr' = pic_init

cpu_init ==
  /\ Call("cpu_init")
  /\ owner' = NULL /\ locker' = 0
  /\ irq_init
  /\ UNCHANGED <<eflags_IF, pit_on, curr_task>>

irq_enable(irq_num) == imr \ {irq_num - IRQ_PIC_START}

timer_init ==
  /\ Call("timer_init")
  /\ pit_on' = TRUE
  /\ idt_table' = irq_install(idt_table, IRQ0_TIMER, handler(IRQ0_TIMER))
  /\ imr' = irq_enable(IRQ0_TIMER)
  /\ UNCHANGED <<eflags_IF, idtr, curr_task, mutexVars>>

\* mutant of Lock: whoever finds the mutex free does not count its lock
Lock_uncounted ==
  /\ locker = 0 \/ owner = curr_task
  /\ owner' = IF locker = 0 THEN curr_task ELSE owner
  /\ locker' = IF locker = 0 THEN locker ELSE locker + 1

\* get_alloc_desc takes the mutex for the current task; there is none yet.  A
\* call that had to wait would wait forever: nobody else is running.
Lock ==
  /\ locker = 0 \/ owner = curr_task
  /\ owner' = IF locker = 0 THEN curr_task ELSE owner
  /\ locker' = locker + 1

task_manager_init ==
  /\ Call("task_manager_init")
  /\ curr_task' = NULL
  /\ Lock
  /\ UNCHANGED <<eflags_IF, irqVars>>

main_lock == Call("main_lock") /\ Lock /\ UNCHANGED <<eflags_IF, irqVars, curr_task>>

unlock(f) ==
  /\ Call(f)
  /\ locker' = locker - 1
  /\ owner' = IF locker' = 0 THEN NULL ELSE owner
  /\ UNCHANGED <<eflags_IF, irqVars, curr_task>>

log_init ==
  Call("log_init") /\ UNCHANGED <<eflags_IF, irqVars, curr_task, mutexVars>>

task_main_init ==
  /\ Call("task_main_init")
  /\ curr_task' = main_task
  /\ UNCHANGED <<eflags_IF, irqVars, mutexVars>>

irq_enable_global ==
  /\ Call("irq_enable_global")
  /\ eflags_IF' = TRUE
  /\ UNCHANGED <<irqVars, curr_task, mutexVars>>

-----------------------------------------------------------------------------
(* Interrupts.  Until the loader turns them off they are the BIOS's.       *)

\* The second 8259 is behind line 2 of the first.
Passes(line) == line \notin imr /\ (line >= 8 => 2 \notin imr)

\* What the CPU finds for a vector.
HandlerOf(v) ==
  IF /\ StartOf(idtr) = idt_address /\ 8 * v + 7 <= idtr.limit
     /\ idt_table[v].attr = GATE_INT
  THEN OffsetOf(idt_table[v])
  ELSE -1

\* The timer's handler returns; all others print and halt.
interrupt(line) ==
  /\ eflags_IF /\ idt_table # <<>>
  /\ line = 0 => pit_on
  /\ Passes(line)
  /\ handled' = HandlerOf(IRQ_PIC_START + line)
  /\ stage' = IF handled' = handler(IRQ0_TIMER) THEN stage ELSE "stopped"
  /\ UNCHANGED <<memVars, loadVars, eflags_IF, irqVars, curr_task, mutexVars>>

Calls ==
  \/ read_loader \/ loader16 \/ enter_protect_mode \/ loader32
  \/ cpu_init \/ timer_init \/ task_manager_init \/ unlock("idle_unlock")
  \/ log_init \/ main_lock \/ unlock("main_unlock") \/ task_main_init
  \/ irq_enable_global

\* The machine has stopped, or it waits for a disk that has failed.
Stopped == (stage = "stopped" \/ status = "error") /\ UNCHANGED vars

Next == Calls \/ disk \/ (\E line \in Devices : interrupt(line)) \/ Stopped

\* The CPU executes its instructions; a sector read by the BIOS succeeds in
\* the end; the disk offers a sector or fails.
Spec == Init /\ [][Next]_vars /\ WF_vars(Calls) /\ WF_vars(disk)

-----------------------------------------------------------------------------

\* Only the timer interrupts, every interrupt finds a current task, and the CPU
\* finds the timer's handler in the table irq_init and timer_init have packed,
\* the first time as well: nothing comes through between timer_init, which
\* starts the timer, and task_main_init, and no other device ever does.
OnlyTimerInterrupts ==
  [][handled' # handled =>
       handled' = handler(IRQ0_TIMER) /\ curr_task # NULL]_vars

\* The assertions of rein_mutex_unlock hold during the initialisation, where
\* the mutex is taken and given back while the current task is null.
BootAssertsHold ==
  stage \in {"idle_unlock", "main_unlock"}
    => locker # 0 /\ owner = curr_task

\* The machine comes up, unless the disk fails or holds no kernel.
ComesUp ==
  <>(\/ stage = "running"
     \/ status = "error"
     \/ stage = "stopped" /\ image.e_entry = 0)

=============================================================================
