----------------------------- MODULE BootProofs ------------------------------
(***************************************************************************)
(* Proofs about module Boot: the order in which kernel_init and init_main  *)
(* bring up the interrupts, the first task and the mutex of cpu.c, and the *)
(* memory map and the kernel's image that the loader hands over.           *)
(***************************************************************************)
EXTENDS Boot, ListLemmas, FiniteSetTheorems

\* Stages in which the CPU's interrupt table is the BIOS's, or not yet needed.
EarlyStages == {"read_loader", "loader16", "load_kernel", "cpu_init", "stopped"}

\* Stages from timer_init's return on, when the timer ticks.
TimerStages ==
  {"task_manager_init", "idle_unlock", "log_init", "main_lock", "main_unlock",
   "task_main_init", "irq_enable_global", "running"}

\* Interrupts are off from the loader's last real-mode instruction until
\* init_main has a task to be interrupted.
FlagInv ==
  /\ stage \in EarlyStages \cup {"timer_init"} \cup TimerStages
  /\ eflags_IF \in BOOLEAN
  /\ eflags_IF => stage \in {"read_loader", "loader16", "running"}
  /\ stage \in EarlyStages => idt_table = <<>>
  /\ curr_task = IF stage \in {"irq_enable_global", "running"} THEN main_task ELSE NULL

\* The mutex is taken by the task NULL, and given back by it.
LockInv ==
  /\ owner = NULL
  /\ locker = IF stage \in {"idle_unlock", "main_unlock"} THEN 1 ELSE 0

\* The table is installed before the timer, and the timer before its line is
\* opened; no other line ever is.
TableInv ==
  /\ stage \in {"timer_init"} \cup TimerStages =>
       /\ idtr = table_reg(idt_address, 8 * IDT_TABLE_NR)
       /\ DOMAIN idt_table = 0 .. IDT_TABLE_NR - 1
  /\ stage = "timer_init" => imr = (0 .. 15) \ {2}
  /\ stage \in TimerStages =>
       /\ imr = (1 .. 15) \ {2}
       /\ idt_table[IRQ0_TIMER] = gate_desc_set(8, handler(IRQ0_TIMER), GATE_INT)

BootInv == FlagInv /\ LockInv /\ TableInv

-----------------------------------------------------------------------------
(* What the CPU reads in the interrupt table.                              *)

\* Widths and vectors, as the proofs need them.
LEMMA Widths ==
  /\ HALF \in Nat /\ HALF > 0
  /\ IDT_TABLE_NR \in Nat /\ IDT_TABLE_NR > 0 /\ 8 * IDT_TABLE_NR <= HALF
  /\ IRQ_PIC_START \in Nat /\ IRQ_PIC_START \in 0 .. IDT_TABLE_NR - 1
  /\ main_task # NULL
BY BootAssumption, DescriptorAssumption DEF HALF

\* The two halves of an address make up the address.
LEMMA Halves ==
  ASSUME NEW h \in Nat, h > 0, NEW x \in Nat, x \div h < h
  PROVE  (x % h) + h * ((x \div h) % h) = x
<1> DEFINE q == x \div h
<1>1. q \in Nat /\ (x % h) \in Nat /\ x = h * q + (x % h)
  OBVIOUS
<1>2. q % h = q
  <2> HIDE DEF q
  <2> QED
    BY <1>1
<1>3. h * q \in Nat
  <2> HIDE DEF q
  <2> QED
    BY <1>1
<1> HIDE DEF q
<1>4. (x % h) + h * q = x
  BY <1>1, <1>3
<1> QED
  BY <1>2, <1>4 DEF q

\* lidt is given the address and the size of the table.
LEMMA TableReadBack ==
  LET r == table_reg(idt_address, 8 * IDT_TABLE_NR)
  IN  StartOf(r) = idt_address /\ r.limit = 8 * IDT_TABLE_NR - 1
<1> DEFINE size == 8 * IDT_TABLE_NR
           r == table_reg(idt_address, size)
<1>1. size \in Nat /\ size > 0 /\ size <= HALF /\ idt_address \in Nat
  BY Widths DEF idt_address
<1>2. /\ r.limit = (size - 1) % HALF
      /\ r.start15_0 = idt_address % HALF
      /\ r.start32_16 = (idt_address \div HALF) % HALF
  BY DEF table_reg, low16
<1>3. (size - 1) % HALF = size - 1
  <2> HIDE DEF size
  <2> QED
    BY <1>1, Widths
<1>4. StartOf(r) = idt_address
  BY <1>1, <1>2, Widths, AddressAssumption, Halves DEF StartOf
<1> QED
  BY <1>2, <1>3, <1>4

\* A gate leads to the handler it was set for.
LEMMA GateReadBack ==
  LET g == gate_desc_set(8, handler(IRQ0_TIMER), GATE_INT)
  IN  OffsetOf(g) = handler(IRQ0_TIMER) /\ g.attr = GATE_INT
<1> DEFINE x == handler(IRQ0_TIMER)
           g == gate_desc_set(8, x, GATE_INT)
<1>1. x \in Nat /\ handler(IDT_TABLE_NR) \in Nat /\ x <= handler(IDT_TABLE_NR)
  BY Widths DEF handler, IRQ0_TIMER
<1>2. x \div HALF < HALF
  <2> DEFINE y == handler(IDT_TABLE_NR)
  <2>1. y \div HALF < HALF
    BY AddressAssumption
  <2> HIDE DEF x, y
  <2>2. x \div HALF <= y \div HALF
    BY <1>1, Widths DEF y
  <2>3. x \div HALF \in Int /\ y \div HALF \in Int
    BY <1>1, Widths DEF y
  <2> QED
    BY <2>1, <2>2, <2>3, Widths
<1>3. /\ g.offset15_0 = x % HALF
      /\ g.offset31_16 = (x \div HALF) % HALF
      /\ g.attr = GATE_INT
  BY DEF gate_desc_set, low16
<1>4. OffsetOf(g) = x
  <2> HIDE DEF x, g
  <2> QED
    BY <1>1, <1>2, <1>3, Widths, Halves DEF OffsetOf
<1> QED
  BY <1>3, <1>4

\* The CPU finds the timer's handler once timer_init has installed it.
LEMMA TimerHandler ==
  ASSUME TableInv, stage \in TimerStages
  PROVE  HandlerOf(IRQ_PIC_START) = handler(IRQ0_TIMER)
<1>1. /\ StartOf(idtr) = idt_address /\ idtr.limit = 8 * IDT_TABLE_NR - 1
      /\ OffsetOf(idt_table[IRQ_PIC_START]) = handler(IRQ0_TIMER)
      /\ idt_table[IRQ_PIC_START].attr = GATE_INT
  BY TableReadBack, GateReadBack DEF TableInv, IRQ0_TIMER
<1>2. 8 * IRQ_PIC_START + 7 <= 8 * IDT_TABLE_NR - 1
  BY Widths
<1> QED
  BY <1>1, <1>2 DEF HandlerOf

-----------------------------------------------------------------------------
(* The order of the calls.                                                 *)

\* What each call of kernel_init and init_main is followed by.
Follows(f, g) ==
  <<f, g>> \in {<<"cpu_init", "timer_init">>,
                <<"timer_init", "task_manager_init">>,
                <<"task_manager_init", "idle_unlock">>,
                <<"idle_unlock", "log_init">>,
                <<"log_init", "main_lock">>,
                <<"main_lock", "main_unlock">>,
                <<"main_unlock", "task_main_init">>,
                <<"task_main_init", "irq_enable_global">>,
                <<"irq_enable_global", "running">>}

\* A call is followed by the next one in the order of the source.
LEMMA InOrder ==
  ASSUME NEW f \in {"cpu_init", "timer_init", "task_manager_init", "idle_unlock",
                    "log_init", "main_lock", "main_unlock", "task_main_init",
                    "irq_enable_global"},
         Call(f)
  PROVE  Follows(f, stage')
<1> DEFINE all == <<"cpu_init", "timer_init", "task_manager_init", "idle_unlock",
                    "log_init", "main_lock", "main_unlock", "task_main_init",
                    "irq_enable_global", "running">>
           Names == {"cpu_init", "timer_init", "task_manager_init", "idle_unlock",
                     "log_init", "main_lock", "main_unlock", "task_main_init",
                     "irq_enable_global", "running"}
<1>1. kernel_init \o init_main = all
  <2>1. /\ kernel_init \in Seq(Names) /\ init_main \in Seq(Names)
        /\ all \in Seq(Names)
    <3>1. \A x \in {"cpu_init", "timer_init", "task_manager_init", "idle_unlock",
                    "log_init", "main_lock", "main_unlock", "task_main_init",
                    "irq_enable_global", "running"} : x \in Names
      OBVIOUS
    <3> HIDE DEF Names
    <3> QED
      BY <3>1 DEF kernel_init, init_main
  <2>2. Pieces(all, kernel_init, init_main)
    BY DEF Pieces, kernel_init, init_main
  <2> HIDE DEF all, Names
  <2> QED
    BY <2>1, <2>2, Joined
<1>2. PICK k \in DOMAIN all : all[k] = f /\ stage' = all[k + 1]
  BY <1>1 DEF Call
<1>3. k \in 1 .. 10
  OBVIOUS
<1>4. \A j \in 1 .. 9 : Follows(all[j], all[j + 1])
  BY DEF Follows
<1>5. k # 10
  BY <1>2
<1> QED
  BY <1>2, <1>3, <1>4, <1>5

-----------------------------------------------------------------------------
(* The invariant.                                                          *)

\* Power-on.
LEMMA InitBootInv == Init => BootInv
BY DEF Init, BootInv, FlagInv, LockInv, TableInv, EarlyStages, TimerStages

\* Only the timer's line is open, and only when there is a task: an interrupt
\* is the timer's, finds its handler and leaves everything as it was.
LEMMA OnlyTheTimer ==
  ASSUME BootInv, NEW line \in Devices, interrupt(line)
  PROVE  /\ handled' = handler(IRQ0_TIMER) /\ curr_task # NULL
         /\ UNCHANGED <<stage, eflags_IF, irqVars, curr_task, mutexVars>>
<1>1. eflags_IF /\ idt_table # <<>> /\ Passes(line)
  BY DEF interrupt
<1>2. stage = "running"
  BY <1>1 DEF BootInv, FlagInv, EarlyStages
<1>3. imr = (1 .. 15) \ {2}
  BY <1>2 DEF BootInv, TableInv, TimerStages
<1>4. line = 0
  BY <1>1, <1>3, BootAssumption DEF Passes
<1>5. HandlerOf(IRQ_PIC_START) = handler(IRQ0_TIMER)
  BY <1>2, TimerHandler DEF BootInv, TimerStages
<1>6. IRQ_PIC_START + line = IRQ_PIC_START
  BY <1>4, Widths
<1>7. handled' = handler(IRQ0_TIMER)
  BY <1>5, <1>6 DEF interrupt
<1>8. curr_task = main_task
  BY <1>2 DEF BootInv, FlagInv
<1> QED
  BY <1>7, <1>8, Widths DEF interrupt

\* The boot sector and the loader.
LEMMA LoaderStep ==
  ASSUME BootInv, read_loader \/ loader16 \/ enter_protect_mode \/ loader32
  PROVE  BootInv'
<1>1. UNCHANGED <<curr_task, owner, locker, idt_table>>
  BY DEF read_loader, loader16, enter_protect_mode, loader32, kernelVars,
         mutexVars, irqVars
<1>2. /\ stage \in {"read_loader", "loader16", "load_kernel"}
      /\ stage' \in EarlyStages
      /\ eflags_IF' \in BOOLEAN
      /\ eflags_IF' => stage' \in {"read_loader", "loader16"}
  <2>1. CASE read_loader
    BY <2>1 DEF read_loader, kernelVars, EarlyStages, BootInv, FlagInv
  <2>2. CASE loader16
    BY <2>2 DEF loader16, kernelVars, EarlyStages, BootInv, FlagInv
  <2>3. CASE enter_protect_mode
    BY <2>3 DEF enter_protect_mode, EarlyStages
  <2>4. CASE loader32
    <3>1. stage' \in {"load_kernel", "cpu_init", "stopped"} /\ stage = "load_kernel"
      BY <2>4 DEF loader32
    <3>2. eflags_IF' = FALSE
      BY <2>4, <3>1 DEF loader32, kernelVars, BootInv, FlagInv
    <3> QED
      BY <3>1, <3>2 DEF EarlyStages
  <2> QED
    BY <2>1, <2>2, <2>3, <2>4
<1> QED
  BY <1>1, <1>2 DEF BootInv, FlagInv, LockInv, TableInv, EarlyStages, TimerStages

\* cpu_init packs the table and masks every line.
LEMMA CpuInitStep ==
  ASSUME BootInv, cpu_init
  PROVE  BootInv'
<1>1. stage = "cpu_init" /\ stage' = "timer_init"
  BY InOrder DEF cpu_init, Call, Follows
<1>2. /\ UNCHANGED <<eflags_IF, curr_task>> /\ owner' = NULL /\ locker' = 0
      /\ idtr' = table_reg(idt_address, 8 * IDT_TABLE_NR)
      /\ DOMAIN idt_table' = 0 .. IDT_TABLE_NR - 1
      /\ imr' = (0 .. 15) \ {2}
  BY DEF cpu_init, irq_init, pic_init
<1> QED
  BY <1>1, <1>2 DEF BootInv, FlagInv, LockInv, TableInv, EarlyStages, TimerStages

\* timer_init opens the timer's line when its gate is set.
LEMMA TimerInitStep ==
  ASSUME BootInv, timer_init
  PROVE  BootInv'
<1>1. stage = "timer_init" /\ stage' = "task_manager_init"
  BY InOrder DEF timer_init, Call, Follows
<1>2. /\ UNCHANGED <<eflags_IF, curr_task, owner, locker, idtr>>
      /\ idt_table' = [idt_table EXCEPT ![IRQ0_TIMER] =
                         gate_desc_set(8, handler(IRQ0_TIMER), GATE_INT)]
      /\ imr' = imr \ {IRQ0_TIMER - IRQ_PIC_START}
  BY DEF timer_init, irq_install, irq_enable, mutexVars
<1>3. /\ DOMAIN idt_table = 0 .. IDT_TABLE_NR - 1 /\ imr = (0 .. 15) \ {2}
      /\ idtr = table_reg(idt_address, 8 * IDT_TABLE_NR)
  BY <1>1 DEF BootInv, TableInv
<1>4. /\ DOMAIN idt_table' = 0 .. IDT_TABLE_NR - 1
      /\ idt_table'[IRQ0_TIMER] = gate_desc_set(8, handler(IRQ0_TIMER), GATE_INT)
  BY <1>2, <1>3, Widths DEF IRQ0_TIMER
<1>5. imr' = (1 .. 15) \ {2}
  <2>1. IRQ0_TIMER - IRQ_PIC_START = 0
    BY Widths DEF IRQ0_TIMER
  <2> QED
    BY <1>2, <1>3, <2>1
<1>6. TableInv'
  BY <1>1, <1>2, <1>3, <1>4, <1>5 DEF TableInv, TimerStages
<1> QED
  BY <1>1, <1>2, <1>6 DEF BootInv, FlagInv, LockInv, EarlyStages, TimerStages

\* The other calls leave the interrupt table and the controllers alone.
LEMMA CallsStep ==
  ASSUME BootInv,
         NEW f \in {"task_manager_init", "idle_unlock", "log_init", "main_lock",
                    "main_unlock", "task_main_init", "irq_enable_global"},
         Call(f), UNCHANGED irqVars, eflags_IF' \in BOOLEAN,
         eflags_IF' => eflags_IF \/ f = "irq_enable_global",
         curr_task' = IF f = "task_main_init" THEN main_task ELSE curr_task,
         owner' = NULL,
         locker' = IF f \in {"task_manager_init", "main_lock"} THEN 1 ELSE 0
  PROVE  BootInv'
<1>1. stage = f /\ Follows(f, stage')
  BY InOrder DEF Call
<1>2. stage' \in TimerStages \ {"task_manager_init"} /\ stage \in TimerStages
  BY <1>1 DEF Follows, TimerStages
<1>3. FlagInv'
  <2>1. eflags_IF' => stage' = "running"
    BY <1>1 DEF BootInv, FlagInv, Follows
  <2>2. stage' \notin EarlyStages
    BY <1>2 DEF TimerStages, EarlyStages
  <2>3. curr_task' = IF stage' \in {"irq_enable_global", "running"}
                     THEN main_task ELSE NULL
    BY <1>1 DEF BootInv, FlagInv, Follows
  <2> QED
    BY <1>2, <2>1, <2>2, <2>3 DEF FlagInv
<1>4. LockInv'
  BY <1>1 DEF LockInv, Follows
<1>5. TableInv'
  BY <1>2 DEF BootInv, TableInv, irqVars, TimerStages
<1> QED
  BY <1>3, <1>4, <1>5 DEF BootInv

\* Every step keeps BootInv.
LEMMA NextBootInv == BootInv /\ [Next]_vars => BootInv'
<1> SUFFICES ASSUME BootInv, [Next]_vars PROVE BootInv'
  OBVIOUS
<1>1. CASE UNCHANGED <<stage, eflags_IF, irqVars, curr_task, mutexVars>>
  BY <1>1 DEF BootInv, FlagInv, LockInv, TableInv, irqVars, mutexVars
<1>2. CASE UNCHANGED vars
  BY <1>1, <1>2 DEF vars, kernelVars
<1>3. CASE disk
  BY <1>1, <1>3 DEF disk, kernelVars
<1>4. ASSUME NEW line \in Devices, interrupt(line)
      PROVE  BootInv'
  BY <1>1, <1>4, OnlyTheTimer
<1>5. owner = NULL /\ locker \in Nat /\ eflags_IF \in BOOLEAN
  BY DEF BootInv, FlagInv, LockInv
<1>6. CASE task_manager_init
  <2>1. stage = "task_manager_init" /\ locker = 0 /\ curr_task = NULL
    BY <1>6 DEF task_manager_init, Call, BootInv, FlagInv, LockInv
  <2> QED
    BY <1>5, <1>6, <2>1, CallsStep DEF task_manager_init, Lock
<1>7. CASE main_lock
  <2>1. stage = "main_lock" /\ locker = 0 /\ curr_task = NULL
    BY <1>7 DEF main_lock, Call, BootInv, FlagInv, LockInv
  <2> QED
    BY <1>5, <1>7, <2>1, CallsStep DEF main_lock, Lock
<1>8. ASSUME NEW f \in {"idle_unlock", "main_unlock"}, unlock(f)
      PROVE  BootInv'
  <2>1. stage = f /\ locker = 1
    BY <1>8 DEF unlock, Call, BootInv, LockInv
  <2>2. locker' = 0 /\ owner' = NULL
    BY <1>8, <2>1 DEF unlock
  <2> QED
    BY <1>5, <1>8, <2>2, CallsStep DEF unlock
<1>9. CASE log_init \/ task_main_init \/ irq_enable_global
  <2>1. stage \in {"log_init", "task_main_init", "irq_enable_global"} /\ locker = 0
    BY <1>9 DEF log_init, task_main_init, irq_enable_global, Call, BootInv, LockInv
  <2>2. CASE log_init
    BY <1>5, <2>1, <2>2, CallsStep DEF log_init, mutexVars
  <2>3. CASE task_main_init
    BY <1>5, <2>1, <2>3, CallsStep DEF task_main_init, mutexVars
  <2>4. CASE irq_enable_global
    BY <1>5, <2>1, <2>4, CallsStep DEF irq_enable_global, mutexVars
  <2> QED
    BY <1>9, <2>2, <2>3, <2>4
<1>10. CASE Calls
  BY <1>6, <1>7, <1>8, <1>9, <1>10, LoaderStep, CpuInitStep, TimerInitStep DEF Calls
<1> QED
  BY <1>2, <1>3, <1>4, <1>10 DEF Next, Stopped

-----------------------------------------------------------------------------
(* What the initialisation promises.                                       *)

\* The order of kernel_init and init_main keeps BootInv, whatever the memory
\* map, the disk and the image are.
THEOREM BootInvariance == Spec => []BootInv
<1> QED
  BY InitBootInv, NextBootInv, PTL DEF Spec

\* The assertions of rein_mutex_unlock hold when get_alloc_desc gives back the
\* mutex it has taken without a current task.
THEOREM AssertsHold == Spec => []BootAssertsHold
<1>1. BootInv => BootAssertsHold
  BY DEF BootInv, FlagInv, LockInv, BootAssertsHold
<1> QED
  BY <1>1, BootInvariance, PTL

\* No interrupt but the timer's is ever taken, and none before there is a
\* current task, on any set of devices and with any layout of the vectors; the
\* CPU finds the timer's handler each time, the first time included.
THEOREM TimerAlone == Spec => OnlyTimerInterrupts
<1>1. BootInv /\ [Next]_vars =>
        [handled' # handled =>
           handled' = handler(IRQ0_TIMER) /\ curr_task # NULL]_vars
  <2> SUFFICES ASSUME BootInv, Next, handled' # handled
               PROVE  handled' = handler(IRQ0_TIMER) /\ curr_task # NULL
    OBVIOUS
  <2>1. CASE Calls
    BY <2>1 DEF Calls, read_loader, loader16, enter_protect_mode, loader32,
                cpu_init, timer_init, task_manager_init, unlock, log_init,
                main_lock, task_main_init, irq_enable_global, Call, kernelVars
  <2>2. CASE disk
    BY <2>2 DEF disk, kernelVars
  <2>3. CASE Stopped
    BY <2>3 DEF Stopped, vars, kernelVars
  <2>4. ASSUME NEW line \in Devices, interrupt(line)
        PROVE  handled' = handler(IRQ0_TIMER) /\ curr_task # NULL
    BY <2>4, OnlyTheTimer
  <2> QED
    BY <2>1, <2>2, <2>3, <2>4 DEF Next
<1> QED
  BY <1>1, BootInvariance, PTL DEF Spec, OnlyTimerInterrupts

-----------------------------------------------------------------------------
(* The memory map.                                                         *)

\* The map does not end in an entry to ignore: otherwise detect_memory would
\* miss its end and read it again.
EndsUsed == LastIgnored \subseteq {FALSE}

\* A region of boot_info.
Region == [start : Nat, size : Nat]

\* In the loop, the regions are those of the entries read so far, and there is
\* room for two more.
MemInv ==
  /\ map \in MapsOK
  /\ regions \in Seq(Region)
  /\ Len(regions) < BOOT_RAM_REGION_MAX
  /\ detect = "loop" =>
       /\ contID \in 0 .. Len(map) - 1
       /\ Recorded(contID)
       /\ Len(regions) < BOOT_RAM_REGION_MAX - 1
  /\ RegionsRight

\* What the BIOS's map is.
LEMMA MapFacts ==
  ASSUME map \in MapsOK
  PROVE  /\ Len(map) \in Nat /\ Len(map) > 0
         /\ \A k \in 1 .. Len(map) : map[k] \in Entries
         /\ EndsUsed => ~ignored(map[Len(map)])
<1>1. PICK last \in 1 .. MaxEntries : map \in [1 .. last -> Entries]
  BY DEF MapsOK
<1>2. last \in Nat /\ last > 0
  BY DetectMemoryAssumption
<1>3. Len(map) = last
  BY <1>1, <1>2
<1>4. ignored(map[Len(map)]) \in LastIgnored
  BY DEF MapsOK
<1> QED
  BY <1>1, <1>2, <1>3, <1>4 DEF EndsUsed

\* A region keeps the low words, which are all there is below 4 GB.
LEMMA LowWords ==
  ASSUME NEW e \in Entries
  PROVE  /\ region(e) \in Region
         /\ Below4G(e) => region(e) = [start |-> e.Base, size |-> e.Length]
<1>1. UINT_MOD \in Nat /\ UINT_MOD > 0 /\ e.Base \in Nat /\ e.Length \in Nat
  BY DetectMemoryAssumption, EntriesAssumption
<1>2. e.Base % UINT_MOD \in Nat /\ e.Length % UINT_MOD \in Nat
  BY <1>1
<1>3. ASSUME Below4G(e)
      PROVE  e.Base % UINT_MOD = e.Base /\ e.Length % UINT_MOD = e.Length
  BY <1>1, <1>3 DEF Below4G
<1> QED
  BY <1>2, <1>3 DEF region, Region

\* Rank counts the usable entries.
LEMMA RankNext ==
  ASSUME NEW last \in Nat
  PROVE  /\ Rank(last) \in Nat /\ Rank(0) = 0
         /\ Rank(last + 1) = IF Usable(last + 1) THEN Rank(last) + 1 ELSE Rank(last)
<1> DEFINE S(m) == {j \in 1 .. m : Usable(j)}
<1>1. IsFiniteSet(1 .. last) /\ S(last) \in SUBSET (1 .. last)
  BY FS_Interval
<1>2. IsFiniteSet(S(last)) /\ Cardinality(S(last)) \in Nat
  BY <1>1, FS_Subset, FS_CardinalityType
<1>3. S(0) = {} /\ last + 1 \notin S(last)
  OBVIOUS
<1>4. S(last + 1) = IF Usable(last + 1) THEN S(last) \cup {last + 1} ELSE S(last)
  OBVIOUS
<1> HIDE DEF S
<1>5. Cardinality(S(last) \cup {last + 1}) = Cardinality(S(last)) + 1
  BY <1>2, <1>3, FS_AddElement
<1>6. Cardinality(S(0)) = 0
  BY <1>3, FS_EmptySet
<1> QED
  BY <1>2, <1>4, <1>5, <1>6 DEF Rank, S

\* The entries up to one have no higher rank.
LEMMA RankGrows ==
  ASSUME NEW last \in Nat, NEW j \in 1 .. last, Usable(j)
  PROVE  Rank(j) \in 1 .. Rank(last)
<1> DEFINE S(m) == {i \in 1 .. m : Usable(i)}
<1>1. IsFiniteSet(1 .. last) /\ S(last) \in SUBSET (1 .. last)
  BY FS_Interval
<1>2. IsFiniteSet(S(last))
  BY <1>1, FS_Subset
<1>3. S(j) \in SUBSET S(last) /\ j \in S(j)
  OBVIOUS
<1> HIDE DEF S
<1>4. IsFiniteSet(S(j)) /\ Cardinality(S(j)) <= Cardinality(S(last))
  BY <1>2, <1>3, FS_Subset
<1>5. Cardinality(S(j)) # 0 /\ Cardinality(S(j)) \in Nat /\ Cardinality(S(last)) \in Nat
  BY <1>2, <1>3, <1>4, FS_EmptySet, FS_CardinalityType
<1> QED
  BY <1>4, <1>5 DEF Rank, S

\* Recording one entry more, or passing over one.
LEMMA RecordNext ==
  ASSUME NEW last \in Nat, regions \in Seq(Region), Recorded(last), UNCHANGED map,
         map[last + 1] \in Entries,
         regions' = IF Usable(last + 1) THEN Append(regions, region(map[last + 1]))
                                        ELSE regions
  PROVE  /\ regions' \in Seq(Region) /\ Len(regions') <= Len(regions) + 1
         /\ Recorded(last + 1)'
<1>1. \A k : Usable(k)' = Usable(k) /\ Rank(k)' = Rank(k)
  BY DEF Usable, Rank
<1>2. /\ Len(regions) \in Nat /\ Len(regions) = Rank(last)
      /\ Rank(last + 1) = IF Usable(last + 1) THEN Rank(last) + 1 ELSE Rank(last)
      /\ last + 1 \in Nat
  BY RankNext DEF Recorded
<1>3. \A k \in 1 .. last : Usable(k) /\ Below4G(map[k]) =>
        regions[Rank(k)] = [start |-> map[k].Base, size |-> map[k].Length]
  BY DEF Recorded
<1>4. CASE ~Usable(last + 1)
  <2>1. regions' = regions /\ Len(regions') = Rank(last + 1)
    BY <1>2, <1>4
  <2>2. \A k \in 1 .. last + 1 : Usable(k) => k \in 1 .. last
    BY <1>4
  <2> QED
    BY <1>1, <1>2, <1>3, <2>1, <2>2 DEF Recorded
<1>5. CASE Usable(last + 1)
  <2>1. PICK r \in Region :
          /\ regions' = Append(regions, r)
          /\ Below4G(map[last + 1]) =>
               r = [start |-> map[last + 1].Base, size |-> map[last + 1].Length]
    BY <1>5, LowWords
  <2>2. /\ regions' \in Seq(Region) /\ Len(regions') = Len(regions) + 1
        /\ \A k \in 1 .. Len(regions) : regions'[k] = regions[k]
        /\ regions'[Len(regions) + 1] = r
    BY <2>1
  <2>3. Len(regions') = Rank(last + 1)
    BY <1>2, <1>5, <2>2
  <2>4. ASSUME NEW k \in 1 .. last + 1, Usable(k), Below4G(map[k])
        PROVE  regions'[Rank(k)] = [start |-> map[k].Base, size |-> map[k].Length]
    <3>1. CASE k = last + 1
      BY <1>2, <1>5, <2>1, <2>2, <2>4, <3>1
    <3>2. CASE k \in 1 .. last
      <4>1. Rank(k) \in 1 .. Len(regions)
        BY <1>2, <2>4, <3>2, RankGrows
      <4> QED
        BY <1>3, <2>2, <2>4, <3>2, <4>1
    <3>3. k = last + 1 \/ k \in 1 .. last
      BY <2>4
    <3> QED
      BY <3>1, <3>2, <3>3
  <2>5. Recorded(last + 1)'
    BY <1>1, <2>3, <2>4 DEF Recorded
  <2> QED
    BY <1>2, <2>2, <2>5
<1> QED
  BY <1>4, <1>5

\* The loop reads the map in order and stops at its end.
LEMMA DetectStep ==
  ASSUME EndsUsed, MemInv, detect_memory
  PROVE  MemInv'
<1> DEFINE B == BOOT_RAM_REGION_MAX
<1>0. PICK last \in Nat : last = contID
  BY MapFacts DEF MemInv, detect_memory
<1> DEFINE k == last + 1
<1>1. /\ detect = "loop" /\ UNCHANGED map /\ contID' = bios_next
      /\ \/ ignored(map[k]) /\ UNCHANGED <<regions, detect>>
         \/ /\ ~ignored(map[k])
            /\ regions' = IF map[k].Type = 1 THEN Append(regions, region(map[k])) ELSE regions
            /\ detect' = IF detect_done(regions', contID') THEN "ok" ELSE "loop"
  BY <1>0 DEF detect_memory
<1>2. /\ map \in MapsOK /\ Len(map) \in Nat /\ ~ignored(map[Len(map)])
      /\ B \in Nat /\ B > 1
      /\ \A j \in 1 .. Len(map) : map[j] \in Entries
  BY MapFacts, DetectMemoryAssumption DEF MemInv
<1>3. /\ k \in 1 .. Len(map) /\ Recorded(last) /\ map[k] \in Entries
      /\ regions \in Seq(Region) /\ Len(regions) \in Nat /\ Len(regions) < B - 1
  BY <1>0, <1>1, <1>2 DEF MemInv
<1>4. regions' = IF Usable(k) THEN Append(regions, region(map[k])) ELSE regions
  BY <1>1 DEF Usable
<1>5. /\ regions' \in Seq(Region) /\ Len(regions') <= Len(regions) + 1
      /\ Recorded(k)'
  BY <1>1, <1>3, <1>4, RecordNext
<1>6. Len(regions') \in Nat /\ Len(regions') < B
  BY <1>2, <1>3, <1>5
<1>7. bios_next = IF k = Len(map) THEN 0 ELSE k
  BY <1>0 DEF bios_next
<1>8. CASE ignored(map[k])
  <2>1. k # Len(map) /\ contID' = k /\ detect' = "loop" /\ regions' = regions
    BY <1>1, <1>2, <1>7, <1>8
  <2>2. contID' \in 0 .. Len(map') - 1 /\ Recorded(contID)'
    <3>1. Recorded(contID)' = Recorded(k)'
      BY <2>1 DEF Recorded, Rank, Usable
    <3> QED
      BY <1>1, <1>2, <1>3, <1>5, <2>1, <3>1
  <2> QED
    BY <1>1, <1>2, <1>3, <1>5, <1>6, <2>1, <2>2 DEF MemInv, RegionsRight
<1>9. CASE ~ignored(map[k]) /\ detect_done(regions', contID')
  <2>1. detect' = "ok" /\ (contID' = 0 \/ Len(regions') = B - 1)
    BY <1>1, <1>9 DEF detect_done
  <2>2. k = Len(map) \/ Len(regions') = B - 1
    BY <1>1, <1>3, <1>7, <2>1
  <2>3. RegionsRight'
    BY <1>1, <1>3, <1>5, <1>6, <2>2 DEF RegionsRight
  <2> QED
    BY <1>1, <1>2, <1>5, <1>6, <2>1, <2>3 DEF MemInv
<1>10. CASE ~ignored(map[k]) /\ ~detect_done(regions', contID')
  <2>1. detect' = "loop" /\ contID' # 0 /\ Len(regions') # B - 1
    BY <1>1, <1>10 DEF detect_done
  <2>2. contID' = k /\ k # Len(map)
    BY <1>1, <1>7, <2>1
  <2>3. contID' \in 0 .. Len(map') - 1 /\ Len(regions') < B - 1
    BY <1>1, <1>2, <1>3, <1>6, <2>1, <2>2
  <2>4. Recorded(contID)'
    <3>1. Recorded(contID)' = Recorded(k)'
      BY <2>2 DEF Recorded, Rank, Usable
    <3> QED
      BY <1>5, <3>1
  <2> QED
    BY <1>1, <1>2, <1>5, <1>6, <2>1, <2>3, <2>4 DEF MemInv, RegionsRight
<1> QED
  BY <1>8, <1>9, <1>10

\* Every step keeps MemInv.
LEMMA NextMemInv == EndsUsed /\ MemInv /\ [Next]_vars => MemInv'
<1> SUFFICES ASSUME EndsUsed, MemInv, [Next]_vars PROVE MemInv'
  OBVIOUS
<1>1. CASE UNCHANGED memVars
  BY <1>1 DEF MemInv, RegionsRight, Recorded, Rank, Usable, memVars
<1>2. CASE loader16
  <2>1. CASE detect_memory
    BY <2>1, DetectStep
  <2>2. CASE detect_fail
    BY <2>2 DEF detect_fail, MemInv, RegionsRight
  <2> QED
    BY <1>2, <2>1, <2>2 DEF loader16
<1>3. CASE Calls
  BY <1>1, <1>2, <1>3 DEF Calls, read_loader, enter_protect_mode, loader32,
     cpu_init, timer_init, task_manager_init, unlock, log_init, main_lock,
     task_main_init, irq_enable_global, Call
<1>4. ASSUME NEW line \in Devices, interrupt(line)
      PROVE  MemInv'
  BY <1>1, <1>4 DEF interrupt
<1> QED
  BY <1>1, <1>3, <1>4 DEF Next, disk, Stopped, vars

\* detect_memory records one region for each usable entry, in order, or as many
\* as boot_info has room for, with the entry's base and length when they are
\* below 4 GB, whatever the entries and their number and the size of boot_info,
\* provided the map does not end in an entry to ignore.
THEOREM RegionsRecorded == EndsUsed /\ Spec => []RegionsRight
<1>1. Init => MemInv
  <2> SUFFICES ASSUME Init PROVE MemInv
    OBVIOUS
  <2>1. map \in MapsOK /\ contID = 0 /\ regions = <<>> /\ detect = "loop"
    BY DEF Init, MemInit
  <2>2. regions \in Seq(Region) /\ Len(regions) = 0
    BY <2>1
  <2>3. Recorded(0)
    BY <2>2, RankNext DEF Recorded
  <2> QED
    BY <2>1, <2>2, <2>3, MapFacts, DetectMemoryAssumption DEF MemInv, RegionsRight
<1>2. EndsUsed /\ MemInv /\ [Next]_vars => MemInv'
  BY NextMemInv
<1>3. MemInv => RegionsRight
  BY DEF MemInv
<1>4. EndsUsed <=> EndsUsed'
  BY DEF EndsUsed
<1> QED
  BY <1>1, <1>2, <1>3, <1>4, PTL DEF Spec

-----------------------------------------------------------------------------
(* The kernel's image.                                                     *)

\* A quotient is determined by its remainder.
LEMMA Quotient ==
  ASSUME NEW c \in Nat \ {0}, NEW q \in Nat, NEW r \in 0 .. c - 1
  PROVE  (c * q + r) \div c = q /\ (c * q + r) % c = r
<1> DEFINE x == c * q + r
           d == x \div c
           e == x % c
<1>1. x \in Nat /\ d \in Nat /\ e \in 0 .. c - 1 /\ x = c * d + e
  OBVIOUS
<1> HIDE DEF x, d, e
<1>2. c * d + e = c * q + r
  BY <1>1 DEF x
<1>3. ASSUME d > q PROVE FALSE
  <2>1. c * d >= c * (q + 1)
    BY <1>1, <1>3
  <2> QED
    BY <1>1, <1>2, <2>1
<1>4. ASSUME q > d PROVE FALSE
  <2>1. c * q >= c * (d + 1)
    BY <1>1, <1>4
  <2> QED
    BY <1>1, <1>2, <2>1
<1>5. d = q
  BY <1>1, <1>3, <1>4
<1> QED
  BY <1>2, <1>5, <1>1 DEF x, d, e

\* Shifting twice is shifting once by more.
LEMMA ShiftTwice ==
  ASSUME NEW x \in Nat, NEW a \in Nat \ {0}, NEW b \in Nat \ {0}
  PROVE  x \div (a * b) = (x \div a) \div b
<1> DEFINE q == x \div a
           r == x % a
           t == q \div b
           u == q % b
<1>1. q \in Nat /\ r \in 0 .. a - 1 /\ x = a * q + r
  OBVIOUS
<1>2. t \in Nat /\ u \in 0 .. b - 1 /\ q = b * t + u
  BY <1>1
<1> HIDE DEF q, r, t, u
<1>3. x = (a * b) * t + (a * u + r)
  <2>1. a * (b * t + u) = (a * b) * t + a * u
    BY <1>2
  <2> QED
    BY <1>1, <1>2, <2>1
<1>4. a * b \in Nat \ {0} /\ a * u + r \in 0 .. a * b - 1
  <2>1. a * u <= a * (b - 1) /\ a * u >= 0
    BY <1>2
  <2>2. a * (b - 1) = a * b - a
    OBVIOUS
  <2> QED
    BY <1>1, <1>2, <2>1, <2>2
<1>5. x \div (a * b) = t
  BY <1>2, <1>3, <1>4, Quotient
<1> QED
  BY <1>5 DEF q, t

\* The disk puts together again what read_disk takes apart.
LEMMA ShiftsBack ==
  ASSUME NEW x \in Nat
  PROVE  /\ x < REG * REG => shr(x, 1) + REG * shr(x, REG) = x
         /\ x < REG * REG * REG * REG =>
              shr(x, 1) + REG * (shr(x, REG) + REG * (shr(x, REG * REG)
                + REG * shr(x, REG * REG * REG))) = x
<1> DEFINE R == REG
           x1 == x \div R
           x2 == x1 \div R
           x3 == x2 \div R
<1>1. R \in Nat \ {0, 1}
  BY LoadKernelAssumption
<1> HIDE DEF R
<1>2. /\ x1 \in Nat /\ x = (x % R) + R * x1
      /\ x % R \in 0 .. R - 1
  BY <1>1
<1> HIDE DEF x1
<1>3. /\ x2 \in Nat /\ x1 = (x1 % R) + R * x2
      /\ x1 % R \in 0 .. R - 1
  BY <1>1, <1>2 DEF x2
<1> HIDE DEF x2
<1>4. /\ x3 \in Nat /\ x2 = (x2 % R) + R * x3
      /\ x2 % R \in 0 .. R - 1
  BY <1>1, <1>3 DEF x3
<1> HIDE DEF x3
<1>5. /\ shr(x, 1) = x % R
      /\ shr(x, R) = x1 % R
  BY <1>1 DEF shr, x1, R
<1>6. /\ x \div (R * R) = x2
      /\ shr(x, R * R) = x2 % R
  <2>1. R \in Nat \ {0}
    BY <1>1
  <2>2. x \div (R * R) = (x \div R) \div R
    BY <2>1, ShiftTwice
  <2> QED
    BY <2>2 DEF shr, x1, x2, R
<1>7. shr(x, R * R * R) = x3 % R
  <2>1. R * R \in Nat \ {0} /\ R \in Nat \ {0}
    BY <1>1
  <2>2. x \div ((R * R) * R) = (x \div (R * R)) \div R
    BY <2>1, ShiftTwice
  <2> QED
    BY <1>6, <2>2 DEF shr, x3, R
<1>8. ASSUME x < R * R PROVE x1 % R = x1
  <2>1. ASSUME x1 >= R PROVE FALSE
    <3>1. R * x1 >= R * R
      BY <1>1, <1>2, <2>1
    <3> QED
      BY <1>1, <1>2, <1>8, <3>1
  <2> QED
    BY <1>1, <1>2, <2>1
<1>9. ASSUME x < R * R * R * R PROVE x3 % R = x3
  <2>1. ASSUME x3 >= R PROVE FALSE
    <3>1. R * x3 >= R * R
      BY <1>1, <1>4, <2>1
    <3>2. x2 >= R * R
      BY <1>1, <1>4, <3>1
    <3>3. R * x2 >= R * (R * R)
      BY <1>1, <1>3, <3>2
    <3>4. x1 >= R * (R * R)
      BY <1>1, <1>3, <3>3
    <3>5. R * x1 >= R * (R * (R * R))
      BY <1>1, <1>2, <3>4
    <3>6. R * (R * (R * R)) = R * R * R * R
      BY <1>1
    <3> QED
      BY <1>1, <1>2, <1>9, <3>5, <3>6
  <2> QED
    BY <1>1, <1>4, <2>1
<1>10. x < R * R => shr(x, 1) + R * shr(x, R) = x
  BY <1>2, <1>5, <1>8
<1>11. x < R * R * R * R =>
         shr(x, 1) + R * (shr(x, R) + R * (shr(x, R * R) + R * shr(x, R * R * R))) = x
  BY <1>2, <1>3, <1>4, <1>5, <1>6, <1>7, <1>9
<1> QED
  BY <1>10, <1>11 DEF R

\* The register of the m-th write, and of the fourth write after it.
Register(m) ==
  regs[\h1F1 + m] =
    IF n <= m THEN <<0, 0>>
    ELSE IF n <= m + 4 THEN <<0, setup[m][2]>>
    ELSE <<setup[m][2], setup[m + 4][2]>>

RegsInv ==
  /\ n \in 1 .. 9
  /\ DOMAIN regs = \h1F2 .. \h1F5
  /\ \A m \in 1 .. 4 : Register(m)

\* The sectors of the file from the one after the first m.
FileFrom(m) ==
  [j \in 1 .. KERNEL_MAX_SECTORS_IN_SIZE - m |-> KERNEL_BEGIN_SECTOR + m + j - 1]

\* What has been read and what the disk has yet to deliver make up the file.
TransferInv ==
  LET c == KERNEL_MAX_SECTORS_IN_SIZE
  IN  /\ n \in 0 .. c
      /\ file_buffer = [j \in 1 .. c - n |-> KERNEL_BEGIN_SECTOR + j - 1]
      /\ serve = FileFrom(c - n)

\* Each stage of load_kernel finds what the one before has promised.
LoadInv ==
  /\ image \in Images
  /\ load \in {"select", "regs"} => RegsInv /\ file_buffer = <<>> /\ InPlace(0)
  /\ load = "transfer" => TransferInv /\ InPlace(0)
  /\ load = "elf" =>
       /\ file_buffer = FileFrom(0)
       /\ n \in 1 .. Len(image.phdr) + 1
       /\ InPlace(n - 1)
  /\ KernelInPlace

\* The writes go round the four registers twice.
LEMMA SetupFacts ==
  /\ Len(setup) = 8
  /\ \A m \in 1 .. 4 : setup[m][1] = \h1F1 + m /\ setup[m + 4][1] = \h1F1 + m
<1>1. Len(setup) = 8
  BY DEF setup
<1>2. /\ setup[1][1] = \h1F2 /\ setup[2][1] = \h1F3
      /\ setup[3][1] = \h1F4 /\ setup[4][1] = \h1F5
      /\ setup[5][1] = \h1F2 /\ setup[6][1] = \h1F3
      /\ setup[7][1] = \h1F4 /\ setup[8][1] = \h1F5
  BY DEF setup
<1>3. ASSUME NEW m \in 1 .. 4
      PROVE  setup[m][1] = \h1F1 + m /\ setup[m + 4][1] = \h1F1 + m
  <2>1. m = 1 \/ m = 2 \/ m = 3 \/ m = 4
    OBVIOUS
  <2> HIDE DEF setup
  <2> QED
    BY <1>2, <2>1
<1> QED
  BY <1>1, <1>3

\* An outb moves the register's last byte up.
LEMMA SetRegister ==
  ASSUME RegsInv, set_register
  PROVE  RegsInv'
<1>1. /\ n \in 1 .. 8 /\ n' = n + 1
      /\ regs' = [regs EXCEPT ![setup[n][1]] = <<@[2], setup[n][2]>>]
  BY SetupFacts DEF RegsInv, set_register, outb
<1>2. DOMAIN regs' = \h1F2 .. \h1F5
  BY <1>1 DEF RegsInv
<1>3. ASSUME NEW m \in 1 .. 4
      PROVE  Register(m)'
  <2>1. Register(m) /\ \h1F1 + m \in DOMAIN regs
    BY DEF RegsInv
  <2>2. setup[m]' = setup[m] /\ setup[m + 4]' = setup[m + 4]
    BY DEF setup, shr
  <2>3. CASE n = m
    <3>1. setup[n][1] = \h1F1 + m /\ regs[\h1F1 + m] = <<0, 0>>
      BY <2>1, <2>3, SetupFacts DEF Register
    <3>2. regs'[\h1F1 + m] = <<0, setup[m][2]>>
      BY <1>1, <2>1, <2>3, <3>1
    <3> QED
      BY <1>1, <2>2, <2>3, <3>2 DEF Register
  <2>4. CASE n = m + 4
    <3>1. setup[n][1] = \h1F1 + m /\ regs[\h1F1 + m] = <<0, setup[m][2]>>
      BY <2>1, <2>4, SetupFacts DEF Register
    <3>2. regs'[\h1F1 + m] = <<setup[m][2], setup[m + 4][2]>>
      BY <1>1, <2>1, <2>4, <3>1
    <3> QED
      BY <1>1, <2>2, <2>4, <3>2 DEF Register
  <2>5. CASE n # m /\ n # m + 4
    <3>1. setup[n][1] # \h1F1 + m
      <4>1. \/ n \in 1 .. 4 /\ setup[n][1] = \h1F1 + n
            \/ n - 4 \in 1 .. 4 /\ setup[n][1] = \h1F1 + (n - 4)
        <5>1. CASE n \in 1 .. 4
          BY <5>1, SetupFacts
        <5>2. CASE n - 4 \in 1 .. 4
          <6>1. setup[(n - 4) + 4][1] = \h1F1 + (n - 4)
            BY <5>2, SetupFacts
          <6> QED
            BY <1>1, <5>2, <6>1
        <5> QED
          BY <1>1, <5>1, <5>2
      <4> QED
        BY <1>1, <2>5, <4>1
    <3>2. regs'[\h1F1 + m] = regs[\h1F1 + m]
      BY <1>1, <2>1, <3>1
    <3> QED
      BY <1>1, <2>1, <2>2, <2>5, <3>2 DEF Register
  <2> QED
    BY <2>3, <2>4, <2>5
<1> QED
  BY <1>1, <1>2, <1>3 DEF RegsInv

\* The command finds the registers as read_disk was asked to set them.
LEMMA ReadsFile ==
  ASSUME RegsInv, start_read
  PROVE  lba = KERNEL_BEGIN_SECTOR /\ sectors = KERNEL_MAX_SECTORS_IN_SIZE
<1> DEFINE c == KERNEL_MAX_SECTORS_IN_SIZE
           s == KERNEL_BEGIN_SECTOR
<1>1. n = 9
  BY SetupFacts DEF RegsInv, start_read
<1>2. \A m \in 1 .. 4 : regs[\h1F1 + m] = <<setup[m][2], setup[m + 4][2]>>
  BY <1>1 DEF RegsInv, Register
<1>3. /\ regs[\h1F2] = <<setup[1][2], setup[5][2]>>
      /\ regs[\h1F3] = <<setup[2][2], setup[6][2]>>
      /\ regs[\h1F4] = <<setup[3][2], setup[7][2]>>
      /\ regs[\h1F5] = <<setup[4][2], setup[8][2]>>
  <2>1. /\ regs[\h1F1 + 1] = <<setup[1][2], setup[1 + 4][2]>>
        /\ regs[\h1F1 + 2] = <<setup[2][2], setup[2 + 4][2]>>
        /\ regs[\h1F1 + 3] = <<setup[3][2], setup[3 + 4][2]>>
        /\ regs[\h1F1 + 4] = <<setup[4][2], setup[4 + 4][2]>>
    BY <1>2
  <2> QED
    BY <2>1
<1>4. /\ setup[1][2] = shr(c, REG) /\ setup[2][2] = shr(s, REG * REG * REG)
      /\ setup[3][2] = 0 /\ setup[4][2] = 0
      /\ setup[5][2] = shr(c, 1) /\ setup[6][2] = shr(s, 1)
      /\ setup[7][2] = shr(s, REG) /\ setup[8][2] = shr(s, REG * REG)
  BY DEF setup
<1>5. /\ c \in Nat /\ c < REG * REG
      /\ s \in Nat /\ s < REG * REG * REG * REG
      /\ REG \in Nat
  BY LoadKernelAssumption
<1> HIDE DEF c, s
<1>6. sectors = shr(c, 1) + REG * shr(c, REG)
  BY <1>3, <1>4 DEF sectors
<1>7. lba = shr(s, 1) + REG * (shr(s, REG) + REG * (shr(s, REG * REG)
              + REG * (shr(s, REG * REG * REG) + REG * (0 + REG * 0))))
  BY <1>3, <1>4 DEF lba
<1>8. REG * (0 + REG * 0) = 0 /\ shr(s, REG * REG * REG) \in Int
  BY <1>5, LoadKernelAssumption DEF shr
<1> QED
  BY <1>5, <1>6, <1>7, <1>8, ShiftsBack DEF c, s

\* The image on the disk, as the proofs need it.
LEMMA ImageFacts ==
  ASSUME NEW m \in Images
  PROVE  /\ Len(m.phdr) \in Nat
         /\ \A j \in 1 .. Len(m.phdr) : m.phdr[j].p_type = PT_LOAD => m.phdr[j] \in Phdrs
<1>1. CASE m = NoImage \/ m = [NoImage EXCEPT !.magic = TRUE]
  <2>1. m.phdr = <<>>
    BY <1>1 DEF NoImage
  <2> QED
    BY <2>1
<1>2. CASE m \notin {NoImage, [NoImage EXCEPT !.magic = TRUE]}
  <2>1. m.phdr \in UNION {[1 .. j -> Phdrs] : j \in 0 .. MaxPhdrs}
    BY <1>2 DEF Images
  <2>2. PICK j \in 0 .. MaxPhdrs : m.phdr \in [1 .. j -> Phdrs]
    BY <2>1
  <2>3. j \in Nat
    BY <2>2, LoadKernelAssumption
  <2>4. Len(m.phdr) = j
    BY <2>2, <2>3
  <2> QED
    BY <2>2, <2>3, <2>4
<1> QED
  BY <1>1, <1>2

\* The file's sectors, one after the other.
LEMMA FileFacts ==
  ASSUME NEW m \in 0 .. KERNEL_MAX_SECTORS_IN_SIZE
  PROVE  /\ FileFrom(m) \in Seq(Nat)
         /\ Len(FileFrom(m)) = KERNEL_MAX_SECTORS_IN_SIZE - m
         /\ \A j \in 1 .. KERNEL_MAX_SECTORS_IN_SIZE - m :
              FileFrom(m)[j] = KERNEL_BEGIN_SECTOR + m + j - 1
<1>1. KERNEL_MAX_SECTORS_IN_SIZE \in Nat /\ KERNEL_BEGIN_SECTOR \in Nat
  BY LoadKernelAssumption
<1>2. \A j \in 1 .. KERNEL_MAX_SECTORS_IN_SIZE - m : KERNEL_BEGIN_SECTOR + m + j - 1 \in Nat
  BY <1>1
<1> QED
  BY <1>1, <1>2 DEF FileFrom

\* The memory is not touched while its image, the file, stays the same.
LEMMA InPlaceStutter ==
  ASSUME NEW m, InPlace(m), UNCHANGED <<mem, image>>
  PROVE  InPlace(m)'
BY DEF InPlace, Covers, Contents

\* A sector is read from the disk and appended to the file.
LEMMA ReadSector ==
  ASSUME TransferInv, read_sector
  PROVE  TransferInv'
<1> DEFINE c == KERNEL_MAX_SECTORS_IN_SIZE
           b == KERNEL_BEGIN_SECTOR
           m == c - n
           f == [j \in 1 .. m |-> b + j - 1]
<1>1. /\ c \in Nat /\ b \in Nat /\ n \in 1 .. c /\ n' = n - 1
      /\ m \in 0 .. c /\ m + 1 \in 0 .. c /\ c - n' = m + 1
  BY LoadKernelAssumption DEF TransferInv, read_sector
<1>2. /\ file_buffer = f /\ serve = FileFrom(m)
      /\ file_buffer' = Append(f, Head(FileFrom(m)))
      /\ serve' = Tail(FileFrom(m))
  BY DEF TransferInv, read_sector
<1> HIDE DEF m
<1>3. f \in Seq(Nat) /\ Len(f) = m /\ \A j \in 1 .. m : f[j] = b + j - 1
  <2>1. \A j \in 1 .. m : b + j - 1 \in Nat
    BY <1>1
  <2> QED
    BY <1>1, <2>1
<1>4. /\ FileFrom(m) \in Seq(Nat) /\ Len(FileFrom(m)) = c - m
      /\ FileFrom(m) # <<>>
      /\ \A j \in 1 .. c - m : FileFrom(m)[j] = b + m + j - 1
  BY <1>1, FileFacts DEF m
<1>5. /\ FileFrom(m + 1) \in Seq(Nat) /\ Len(FileFrom(m + 1)) = c - (m + 1)
      /\ \A j \in 1 .. c - (m + 1) : FileFrom(m + 1)[j] = b + (m + 1) + j - 1
  BY <1>1, FileFacts
<1>6. serve' = FileFrom(m + 1)
  <2>1. /\ Tail(FileFrom(m)) \in Seq(Nat) /\ Len(Tail(FileFrom(m))) = c - m - 1
        /\ \A j \in 1 .. c - m - 1 : Tail(FileFrom(m))[j] = FileFrom(m)[j + 1]
    BY <1>1, <1>4, HeadTailProperties
  <2>2. Len(Tail(FileFrom(m))) = Len(FileFrom(m + 1))
    BY <1>1, <1>5, <2>1
  <2>3. ASSUME NEW j \in 1 .. Len(FileFrom(m + 1))
        PROVE  Tail(FileFrom(m))[j] = FileFrom(m + 1)[j]
    <3>1. j \in 1 .. c - m - 1 /\ j \in 1 .. c - (m + 1) /\ j + 1 \in 1 .. c - m
      BY <1>1, <1>5, <2>3
    <3>2. /\ Tail(FileFrom(m))[j] = b + m + (j + 1) - 1
          /\ FileFrom(m + 1)[j] = b + (m + 1) + j - 1
      BY <1>4, <1>5, <2>1, <3>1
    <3>3. b \in Int /\ m \in Int /\ j \in Int
      BY <1>1, <3>1
    <3>4. b + m + (j + 1) - 1 = b + (m + 1) + j - 1
      BY <3>3
    <3> QED
      BY <3>2, <3>4
  <2> QED
    BY <1>2, <1>5, <2>1, <2>2, <2>3, SeqEqual
<1>7. file_buffer' = [j \in 1 .. m + 1 |-> b + j - 1]
  <2> DEFINE g == [j \in 1 .. m + 1 |-> b + j - 1]
  <2>1. g \in Seq(Nat) /\ Len(g) = m + 1 /\ \A j \in 1 .. m + 1 : g[j] = b + j - 1
    <3>1. \A j \in 1 .. m + 1 : b + j - 1 \in Nat
      BY <1>1
    <3> QED
      BY <1>1, <3>1
  <2>2. Head(FileFrom(m)) = b + m
    BY <1>1, <1>4 DEF m
  <2>3. /\ Append(f, b + m) \in Seq(Nat) /\ Len(Append(f, b + m)) = m + 1
        /\ \A j \in 1 .. m + 1 :
             Append(f, b + m)[j] = IF j = m + 1 THEN b + m ELSE f[j]
    BY <1>1, <1>3, AppendProperties
  <2> HIDE DEF f, g
  <2>4. Append(f, b + m) = g
    <3>1. \A j \in 1 .. m + 1 : Append(f, b + m)[j] = g[j]
      BY <1>1, <1>3, <2>1, <2>3
    <3> QED
      BY <2>1, <2>3, <3>1, SeqEqual
  <2> QED
    BY <1>2, <2>2, <2>4 DEF g
<1> QED
  BY <1>1, <1>6, <1>7 DEF TransferInv, FileFrom

\* The file has been read from its first sector, so that its header is there.
LEMMA HeaderFound ==
  ASSUME file_buffer = FileFrom(0)
  PROVE  elf_hdr = image
<1>1. /\ KERNEL_MAX_SECTORS_IN_SIZE \in Nat /\ KERNEL_BEGIN_SECTOR \in Nat
      /\ 0 \in 0 .. KERNEL_MAX_SECTORS_IN_SIZE
      /\ 1 \in 1 .. KERNEL_MAX_SECTORS_IN_SIZE - 0
  BY LoadKernelAssumption
<1>2. file_buffer[1] = KERNEL_BEGIN_SECTOR + 0 + 1 - 1
  BY <1>1, FileFacts
<1> QED
  BY <1>1, <1>2 DEF elf_hdr

\* Copying one segment more.
LEMMA LoadSegment ==
  ASSUME image \in Images, file_buffer = FileFrom(0),
         n \in 1 .. Len(image.phdr) + 1, InPlace(n - 1), load_segment
  PROVE  n' \in 1 .. Len(image.phdr) + 1 /\ InPlace(n - 1)'
<1> DEFINE s == elf_hdr.phdr[n]
           pa == s.p_paddr
           fs == s.p_filesz
           ms == s.p_memsz
           off == s.p_offset
<1>1. PICK m \in 1 .. Len(image.phdr) : m = n
  BY HeaderFound, ImageFacts DEF load_segment
<1>2. /\ n = m /\ n' = m + 1 /\ m \in Nat /\ Len(image.phdr) \in Nat
      /\ s = image.phdr[m]
      /\ UNCHANGED <<image, file_buffer>>
  BY <1>1, HeaderFound, ImageFacts DEF load_segment
<1>3. /\ DOMAIN mem' = DOMAIN mem
      /\ s.p_type # PT_LOAD => mem' = mem
      /\ s.p_type = PT_LOAD => \A a \in DOMAIN mem : mem'[a] = Copied(s, a)
  BY DEF load_segment
<1>4. s.p_type = PT_LOAD =>
        /\ pa \in Nat /\ fs \in Nat /\ ms \in Nat /\ off \in Nat
        /\ fs <= ms /\ off + fs <= KERNEL_MAX_SECTORS_IN_SIZE
  BY <1>1, <1>2, ImageFacts, PhdrsAssumption
<1>5. KERNEL_MAX_SECTORS_IN_SIZE \in Nat /\ KERNEL_BEGIN_SECTOR \in Nat
  BY LoadKernelAssumption
<1>6. \A a : Covers(s, a) <=> s.p_type = PT_LOAD /\ a \in pa .. pa + ms - 1
  BY DEF Covers
<1>7. \A a : /\ Contents(s, a)
                  = IF a < pa + fs THEN KERNEL_BEGIN_SECTOR + off + a - pa ELSE 0
             /\ Copied(s, a)
                  = IF a \in pa .. (pa + fs) - 1 THEN file_buffer[off + a - pa + 1]
                    ELSE IF a \in pa + fs .. pa + fs + (ms - fs) - 1 THEN 0
                    ELSE mem[a]
  BY Zenon DEF Contents, Copied, fill_bytes
<1> HIDE DEF s, pa, fs, ms, off
<1>8. ASSUME NEW a \in DOMAIN mem, ~Covers(s, a)
      PROVE  mem'[a] = mem[a]
  <2>1. CASE s.p_type # PT_LOAD
    BY <1>3, <2>1
  <2>2. CASE s.p_type = PT_LOAD
    <3>1. a \notin pa .. (pa + fs) - 1 /\ a \notin pa + fs .. pa + fs + (ms - fs) - 1
      BY <1>4, <1>6, <1>8, <2>2
    <3> QED
      BY <1>3, <1>7, <2>2, <3>1
  <2> QED
    BY <2>1, <2>2
<1>9. ASSUME NEW a \in DOMAIN mem, Covers(s, a)
      PROVE  mem'[a] = Contents(s, a)
  <2>1. /\ s.p_type = PT_LOAD
        /\ pa \in Nat /\ fs \in Nat /\ ms \in Nat /\ off \in Nat
        /\ fs <= ms /\ off + fs <= KERNEL_MAX_SECTORS_IN_SIZE
    BY <1>4, <1>6, <1>9
  <2>2. a \in Int /\ a >= pa /\ a <= pa + ms - 1
    BY <1>6, <1>9, <2>1
  <2>3. CASE a < pa + fs
    <3>1. a \in pa .. (pa + fs) - 1
      BY <2>1, <2>2, <2>3
    <3>2. mem'[a] = file_buffer[off + a - pa + 1]
      BY <1>3, <1>7, <2>1, <3>1
    <3>3. /\ off + a - pa + 1 \in 1 .. KERNEL_MAX_SECTORS_IN_SIZE - 0
          /\ 0 \in 0 .. KERNEL_MAX_SECTORS_IN_SIZE
      BY <1>5, <2>1, <2>2, <2>3
    <3>4. mem'[a] = KERNEL_BEGIN_SECTOR + 0 + (off + a - pa + 1) - 1
      BY <3>2, <3>3, FileFacts
    <3> QED
      BY <1>5, <1>7, <2>1, <2>2, <2>3, <3>4
  <2>4. CASE ~(a < pa + fs)
    <3>1. a \notin pa .. (pa + fs) - 1 /\ a \in pa + fs .. pa + fs + (ms - fs) - 1
      BY <2>1, <2>2, <2>4
    <3>2. mem'[a] = 0
      BY <1>3, <1>7, <2>1, <3>1
    <3> QED
      BY <1>7, <2>4, <3>2
  <2> QED
    BY <2>3, <2>4
<1>10. ASSUME NEW a \in DOMAIN mem
       PROVE  LET new == {j \in 1 .. m : Covers(image.phdr[j], a)}
              IN  IF new = {} THEN mem'[a] = -1
                  ELSE \E j \in new : mem'[a] = Contents(image.phdr[j], a)
  <2> DEFINE old == {j \in 1 .. m - 1 : Covers(image.phdr[j], a)}
             new == {j \in 1 .. m : Covers(image.phdr[j], a)}
  <2>1. /\ old = {} => mem[a] = -1
        /\ old # {} => \E j \in old : mem[a] = Contents(image.phdr[j], a)
    BY <1>1 DEF InPlace
  <2>2. CASE Covers(s, a)
    <3>1. m \in new
      BY <1>1, <1>2, <2>2
    <3> QED
      BY <1>2, <1>9, <2>2, <3>1
  <2>3. CASE ~Covers(s, a)
    <3>1. new = old
      BY <1>1, <1>2, <2>3
    <3> QED
      BY <1>8, <2>1, <2>3, <3>1
  <2> QED
    BY <2>2, <2>3
<1>11. InPlace(m)'
  BY <1>2, <1>3, <1>10 DEF InPlace, Covers, Contents
<1>12. InPlace(n - 1)'
  <2>1. n' - 1 = m
    BY <1>2
  <2> QED
    BY <1>11, <2>1 DEF InPlace
<1> QED
  BY <1>1, <1>2, <1>12

\* The disk delivers the file from its first sector on.
LEMMA StartRead ==
  ASSUME RegsInv, file_buffer = <<>>, start_read
  PROVE  TransferInv'
<1> DEFINE c == KERNEL_MAX_SECTORS_IN_SIZE
           b == KERNEL_BEGIN_SECTOR
<1>1. /\ c \in Nat /\ b \in Nat /\ lba = b /\ sectors = c
  BY ReadsFile, LoadKernelAssumption
<1>2. /\ n' = c /\ file_buffer' = <<>>
      /\ serve' = [j \in 1 .. c |-> b + j - 1]
  BY <1>1 DEF start_read
<1>3. c - c = 0 /\ c - 0 = c /\ 1 .. 0 = {} /\ \A j \in 1 .. c : b + 0 + j - 1 = b + j - 1
  BY <1>1
<1>4. FileFrom(0) = [j \in 1 .. c |-> b + j - 1]
  BY <1>1, <1>3 DEF FileFrom
<1>5. <<>> = [j \in 1 .. 0 |-> b + j - 1]
  BY <1>3
<1> QED
  BY <1>1, <1>2, <1>3, <1>4, <1>5 DEF TransferInv, FileFrom

\* Every step of load_kernel keeps LoadInv.
LEMMA LoadStep ==
  ASSUME LoadInv, load_kernel
  PROVE  LoadInv'
<1>1. CASE set_register
  <2>1. RegsInv' /\ InPlace(0)'
    BY <1>1, SetRegister, InPlaceStutter DEF LoadInv, set_register
  <2> QED
    BY <1>1, <2>1 DEF LoadInv, KernelInPlace, set_register
<1>2. CASE start_read
  <2>1. TransferInv' /\ InPlace(0)'
    BY <1>2, StartRead, InPlaceStutter DEF LoadInv, start_read
  <2> QED
    BY <1>2, <2>1 DEF LoadInv, KernelInPlace, start_read
<1>3. CASE read_sector
  <2>1. TransferInv' /\ InPlace(0)'
    BY <1>3, ReadSector, InPlaceStutter DEF LoadInv, read_sector
  <2> QED
    BY <1>3, <2>1 DEF LoadInv, KernelInPlace, read_sector
<1>4. CASE check_magic
  <2>1. /\ load = "transfer" /\ n = 0 /\ n' = 1 /\ load' \in {"elf", "dead"}
        /\ UNCHANGED <<file_buffer, image, mem>>
    BY <1>4 DEF check_magic
  <2>2. Len(image.phdr) \in Nat /\ KERNEL_MAX_SECTORS_IN_SIZE \in Nat
    BY ImageFacts, LoadKernelAssumption DEF LoadInv
  <2>3. file_buffer = FileFrom(0)
    <3>1. /\ KERNEL_MAX_SECTORS_IN_SIZE - 0 = KERNEL_MAX_SECTORS_IN_SIZE
          /\ \A j \in 1 .. KERNEL_MAX_SECTORS_IN_SIZE :
               KERNEL_BEGIN_SECTOR + j - 1 = KERNEL_BEGIN_SECTOR + 0 + j - 1
      BY <2>2, LoadKernelAssumption
    <3>2. file_buffer = [j \in 1 .. KERNEL_MAX_SECTORS_IN_SIZE - 0 |-> KERNEL_BEGIN_SECTOR + j - 1]
      BY <2>1 DEF LoadInv, TransferInv
    <3> QED
      BY <3>1, <3>2 DEF FileFrom
  <2>4. InPlace(n - 1)'
    <3>1. n' - 1 = 0 /\ InPlace(0)'
      BY <2>1, InPlaceStutter DEF LoadInv
    <3> QED
      BY <3>1 DEF InPlace
  <2> QED
    BY <2>1, <2>2, <2>3, <2>4 DEF LoadInv, KernelInPlace, FileFrom
<1>5. CASE load_segment
  <2>1. /\ load = "elf" /\ UNCHANGED <<load, file_buffer, image>>
    BY <1>5 DEF load_segment
  <2>2. n' \in 1 .. Len(image.phdr) + 1 /\ InPlace(n - 1)'
    BY <1>5, <2>1, LoadSegment DEF LoadInv
  <2> QED
    BY <2>1, <2>2 DEF LoadInv, KernelInPlace, FileFrom
<1>6. CASE enter_kernel
  <2>1. /\ load = "elf" /\ load' \in {"dead", "entered"}
        /\ UNCHANGED <<n, file_buffer, image, mem>>
    BY <1>6 DEF enter_kernel
  <2>2. Len(image.phdr) \in Nat /\ n > Len(image.phdr)
    BY <1>6, <2>1, HeaderFound, ImageFacts DEF enter_kernel, LoadInv
  <2>3. n - 1 = Len(image.phdr)
    BY <2>1, <2>2 DEF LoadInv
  <2>4. InPlace(Len(image.phdr))'
    BY <2>1, <2>3, InPlaceStutter DEF LoadInv
  <2> QED
    BY <2>1, <2>4 DEF LoadInv, KernelInPlace
<1>7. CASE select_drive
  <2>1. /\ load = "select" /\ load' = "regs"
        /\ UNCHANGED <<n, regs, file_buffer, image, mem>>
    BY <1>7 DEF select_drive
  <2>2. RegsInv' /\ InPlace(0)'
    <3>1. RegsInv' <=> RegsInv
      BY <2>1 DEF RegsInv, Register, setup, shr
    <3> QED
      BY <2>1, <3>1, InPlaceStutter DEF LoadInv
  <2> QED
    BY <2>1, <2>2 DEF LoadInv, KernelInPlace
<1> QED
  BY <1>1, <1>2, <1>3, <1>4, <1>5, <1>6, <1>7 DEF load_kernel

\* Steps that leave load_kernel alone keep its invariant.
LEMMA LoadStutter ==
  ASSUME LoadInv, UNCHANGED <<load, n, regs, serve, file_buffer, image, mem>>
  PROVE  LoadInv'
<1>1. RegsInv' <=> RegsInv
  BY DEF RegsInv, Register, setup, shr
<1>2. TransferInv' <=> TransferInv
  BY DEF TransferInv, FileFrom
<1>3. \A m : InPlace(m)' <=> InPlace(m)
  BY DEF InPlace, Covers, Contents
<1>4. InPlace(n - 1)' <=> InPlace(n - 1)
  BY DEF InPlace, Covers, Contents
<1>5. KernelInPlace' <=> KernelInPlace
  BY DEF KernelInPlace, InPlace, Covers, Contents
<1> QED
  BY <1>1, <1>2, <1>3, <1>4, <1>5 DEF LoadInv, FileFrom

\* Every step keeps LoadInv.
LEMMA NextLoadInv == LoadInv /\ [Next]_vars => LoadInv'
<1> SUFFICES ASSUME LoadInv, [Next]_vars PROVE LoadInv'
  OBVIOUS
<1>1. CASE UNCHANGED loadVars
  BY <1>1, LoadStutter DEF loadVars, diskVars
<1>2. CASE loader32
  BY <1>2, LoadStep DEF loader32
<1>3. CASE disk
  BY <1>3, LoadStutter DEF disk, disk_answers
<1>4. CASE Calls
  BY <1>1, <1>2, <1>4 DEF Calls, read_loader, loader16, enter_protect_mode,
     cpu_init, timer_init, task_manager_init, unlock, log_init, main_lock,
     task_main_init, irq_enable_global, Call
<1>5. ASSUME NEW line \in Devices, interrupt(line)
      PROVE  LoadInv'
  BY <1>1, <1>5 DEF interrupt
<1> QED
  BY <1>1, <1>3, <1>4, <1>5 DEF Next, Stopped, vars

\* load_kernel reads the right sectors, whatever the width of the disk's
\* registers, and has every loadable segment of the file in place, with its
\* .bss cleared, when it enters the kernel: for every list of segments that
\* lie in the file, at whatever addresses below the file and in whatever order.
THEOREM ImageInPlace == Spec => []KernelInPlace
<1>1. Init => LoadInv
  <2> SUFFICES ASSUME Init PROVE LoadInv
    OBVIOUS
  <2>1. /\ load = "select" /\ n = 1 /\ image \in Images /\ file_buffer = <<>>
        /\ regs = [r \in \h1F2 .. \h1F5 |-> <<0, 0>>]
        /\ mem = [a \in 0 .. SYS_KERNEL_LOAD_ADDR - 1 |-> -1]
    BY DEF Init, LoadInit
  <2>2. RegsInv
    BY <2>1 DEF RegsInv, Register
  <2>3. InPlace(0)
    BY <2>1 DEF InPlace
  <2> QED
    BY <2>1, <2>2, <2>3 DEF LoadInv, KernelInPlace
<1>2. LoadInv /\ [Next]_vars => LoadInv'
  BY NextLoadInv
<1>3. LoadInv => KernelInPlace
  BY DEF LoadInv
<1> QED
  BY <1>1, <1>2, <1>3, PTL DEF Spec

=============================================================================
