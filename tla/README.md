# os-toy-i386: specifications and proofs

os-toy-i386 is a small preemptive kernel for one 32-bit x86 CPU, with its boot
sector and loader. This directory holds TLA+ models of it, TLC configurations
that check them on small instances, and TLAPS proofs, for instances of any
size, of all the safety properties that the passing runs check. Paths
below are relative to `src/source/`.

Run a model with `tlc -config X.cfg M`, check the proofs with `tlapm M.tla`
for `ListLemmas`, `KernelProofs`, `IrqProofs`, `GdtProofs`, `DListProofs`,
`MainProofs`, `BootProofs` and `KlibProofs`. `PROJECT.json` is the index: runs,
the source lines of every definition, mutants, findings, hazards, theorems.

## 1. The system

| Part | Files | State | Operations |
|---|---|---|---|
| task manager | `kernel/core/task.c` | `task_list`, `ready_list`, `sleep_list`, `curr_task`; per task `state`, `slice_ticks`, `sleep_ticks` | `task_init`, `sys_sched_yield`, `sys_sleep`, `task_set_ready/block/sleep/wakeup`, `task_dispatch`, `task_time_tick` |
| semaphores | `kernel/ipc/sem.c` | `count`, `wait_list` | `sem_init`, `sem_wait`, `sem_notify`, `sem_count` |
| mutexes | `kernel/ipc/mutex.c` | `locker`, `owner`, `wait_list` | `rein_mutex_init/lock/unlock` |
| lists | `kernel/tools/list.c` | `frist`, `last`, `count`; `pre`, `next` of a node | insert first/last, pop first/last/any |
| interrupts | `kernel/cpu/irq.c`, `kernel/init/start.S` | IF in EFLAGS, the copies of it on stacks and in TSSs, `idt_table`, the two 8259 | `irq_init`, `pic_init`, `irq_install`, `irq_enable`, `irq_enter_protection`, `irq_leave_protection`, the handler macro, `pic_send_eoi` |
| timer | `kernel/dev/timer.c` | the interval timer | `timer_init`, `do_handler_timer` |
| descriptors | `kernel/cpu/cpu.c` | `gdt_table`, a mutex | `gdt_init`, `get_alloc_desc`, `segment_desc_set` |
| log | `kernel/tools/log.c` | the serial port, a mutex | `log_init`, `log_println`, `log_printfln` |
| program | `kernel/init/init.c` | the semaphore `notify_task_print` | `kernel_init`, `init_main`, three task entries |
| boot sector, loader | `boot/start.S`, `loader/` | `boot_info`, the disk, the memory the kernel is linked for | read loader, `detect_memory`, `read_disk`, `reload_elf_file` |
| library | `kernel/tools/klib.c` | none | formatting, strings, `panic` |

How they interact: a running task calls the task manager, the semaphores and
the mutexes; these share the task manager's lists (a task's `run_node` is on
`ready_list` or `sleep_list`, its `wait_node` on the `wait_list` of a semaphore
or mutex). The timer interrupts any task outside protected code and changes the
same lists. The log and the descriptor table are guarded by mutexes. There is
no second CPU and nothing is persistent, so the hard behaviours are
*interleaving* (the timer at any instruction that is not protected; task
switches in the middle of nested protected regions and inside the handler),
*order* (the initialisation, the end of interrupt, first come first served),
*liveness* (preemption, sleepers while the CPU idles) and *edges* (rounding and
wrapping of tick counts, full tables, numbers of both signs, packed fields). The list of hazards in `PROJECT.json`
places each at its line.

What makes each part correct:

* task manager: every task is on one list only; the running task is the head of
  `ready_list`; nobody starves, sleeps short, late or forever, or is overtaken;
* semaphores and mutexes: no lost wakeup; they implement an abstract semaphore
  and an abstract reentrant lock with first-come-first-served waiters;
* lists: the pointers describe the sequence that the callers mean;
* interrupts: protected code is never interrupted, other code always can be;
* descriptors: each task has its own and the CPU reads in it what the kernel
  meant; failure reported;
* log: lines are never mixed, and always finished;
* boot: a correct and bounded memory map, the kernel's segments in place, no
  interrupt before there is a task and none but the timer's;
* library: the output and the results of a reference definition, within the
  room the caller can compute, and calls that return.

## 2. The modules

### Task, Sem, Mutex, Kernel

`Task` is the task manager, `Sem` and `Mutex` extend it, `Kernel` composes the
three for tasks that may make any call at any time. A list is the sequence of
the tasks it links. Each system call runs with interrupts off and is one action
(`Irq` justifies that). The timer handler is split: `tick_slice` (up to the
loop), `tick_sleeper` (one iteration) and `tick_dispatch`, with `in_tick`
excluding everything else meanwhile, because the loop moves nodes off the list
that it walks and its intermediate states are where that could go wrong.

`task_dispatch(rl, st)` is the effect of `task_dispatch` on `curr_task` and
`state` once the caller has made the ready list `rl`. `BlockOn` and `WakeFirst`
are the steps `sem.c` and `mutex.c` share. `TicksOf` is the rounding of
`sys_sleep` with the wrap of `uint32_t`. The auxiliary variable `owed` counts
the milliseconds that a sleeper is still to be kept, independently of
`sleep_ticks`. The code's identifiers are kept. The properties of one state
(`OneQueue`, `CurrIsHead`, `SemNoLostWakeup` and so on) are stated in the module
whose variables they speak of, because `Main` and `Exception` rely on them too;
`Kernel` has the properties of steps, the refinements and the liveness.

`AbstractSem` and `AbstractMutex` say what the semaphores and mutexes promise,
without a scheduler: an integer that may be negative, and a table of hold counts
with turns. `Kernel` instantiates both with refinement mappings
(`value` is `count` less the number of waiters; `held` is `locker` for the
owner and 0 for all others).

### DList

`list.c` pointer by pointer, with the auxiliary `order` for the sequences the
callers mean. Its callers insert nodes that are on no list and pop nodes of the
list that they name; that they do is `OneQueue` of `Kernel`.

### Irq

Every instruction that reads or writes IF is a step (the wrappers of
`comm/cpuistr.h` are the operators `cli`, `sti`, `Save`, `write_eflags` and
`far_jump`): the interrupt gate, the
handler, `iret`, both halves of `irq_enter_protection`, the far jump that saves
and loads EFLAGS through the TSS, both levels of `irq_leave_protection`. A
change of the kernel's lists is two steps, reading and writing a version number,
so that a change torn by another is visible. Which task is dispatched is left
open. For the two list steps and the choice whether to dispatch, the map names
`sem_notify` as the representative system call.

### Main

`Main` is the program of `init.c` on top of `Sem` and `Mutex`: `init_main`
notifies, `new_task_entry` waits, printers print and sleep, and all print
through `log_printfln` one character at a time, preempted anywhere. `init_main`
has the creation of `new_task2` and `new_task3` commented out; the instance
creates one of them so that there is a task of each kind. Its specification is
`MainSpec`, which implements `Spec` of `Kernel` (`ProgramOnKernel`).

### Exception

`do_default_handler` on top of `Main`: any task may fault anywhere outside
protected code. The handler runs with interrupts off, so a line of its report is
one step once it has the log's mutex; while it waits for the mutex the other
tasks run. The code's report has seven lines, the model's fewer; `HexLine` is
where the registers are printed in base 16. Faults inside the kernel's own
protected code, the timer handler or the idle loop are not modelled.
`handler_push` and `exception_frame_t` are the two sides of the stack between
`start.S` and `irq.h`; `cpu_push` is the CPU's part, which differs between
exceptions.

### Descriptor, Gdt

`Descriptor` packs segment descriptors, gates and the operands of `lgdt` and
`lidt` as the code does and reads them as the CPU does. Its widths are scaled by
`BYTE` and `NIBBLE` (TLC's integers have 32 bits, a limit of 2^32 - 1 does not
fit); `attr` is the set of its bits.

`Gdt` is concurrent `task_init` calls up to the point where the task gets ready,
with the scan of `get_alloc_desc` entry by entry and the descriptors packed. The
mutex is a holder variable; that `mutex.c` provides it is the business of
`Kernel`. The writes of `tss_init` to the task's own `tss` are left out.

### DetectMemory, LoadKernel, Boot

`DetectMemory` is the E820 loop, one BIOS call per step (the BIOS is external:
it returns the entries of a map in order and 0 with the last one, or fails). A
base or a length of the map has two words, of which `boot_info` keeps the low
one: `region` takes both modulo `UINT_MOD`. `ignored` follows the code
(`loader16.c:63`), which reads bit 0 of `ACPI` as the standard defines it.

`LoadKernel` is `loader32.c`. The disk is external: registers two bytes deep, a
command that starts it, sectors that it offers one by one, an error after which
it never offers one. The selection of the drive is a step (`select_drive`), each
`outb` to an address register (`set_register`) and the command (`start_read`)
others; a drive that is not selected does not obey the command. The unit of data is a
sector, which stands for its own number, so that data from the wrong place is
visible. The segments an image may have are the constant `Phdrs`; each lies in
the file, is no larger there than in memory, and ends below the buffer that the
file is read to (`PhdrsAssumption`). In the machine buffer and segments are
places in one memory; the kernel is linked for 64 KB (`kernel/kernel.lds`) and
the buffer is at 1 MB (`SYS_KERNEL_LOAD_ADDR`, `info.h:31`), so the model keeps
them apart.

`Boot` composes them and goes on to `irq_enable_global`. `kernel_init` and
`init_main` are the calls in the code's order, `Call(f)` one of them; `Lock` and
`unlock` are `mutex.c` as `get_alloc_desc` uses it while there is no current
task. `irq_init` and `timer_init` fill `idt_table` and the masks of the 8259.
From then on any of the `Devices` may raise its line; one that the masks and IF
let through ends in the handler that the CPU finds in the packed table:
`handled` is its address, 0 before the first interrupt and -1 when the CPU finds
none.

### Format, Strings, Klib, Tools

`Format` is `kernel_vsprintf` and `kernel_itoa`, a character per step, with the
division of C (towards zero), an `int` of `INT_MAX + 1` negative values, and the
terminator that `kernel_vsprintf` writes last (`finish`);
`Numeral` and `Piece` are the reference definition, a recursive function of the
format and the arguments that knows nothing of the code's state machine;
`Output` joins the pieces and `Room` adds up their greatest widths. `Strings` is
the helpers, an iteration per step, on a memory of a few bytes. `Klib` runs one
call of either to its end. `Tools` puts `Klib` and `DList` side by side, the two
files under `kernel/tools` that the rest of the kernel is built on; they share
nothing, so that each step is one of either (`ListSpec` of `DList` and `Spec` of
`Klib` are what the theorems speak of).

## 3. The runs

| Run | Instance | Shows |
|---|---|---|
| `kernel` | 3 tasks, 1 semaphore, 1 mutex nested to 2, slice 2, sleeps of 0 and 1 ms at 2 ms per tick | `TypeOK`, `OneQueue`, `CurrIsHead`, `TickConsistent`, `TicksLeft`, `StateAgrees`, `SemNoLostWakeup`, `MutexNoLostWakeup`, `SleepPunctual`, `NoEarlyWake`, `OnlySelfBlocks`, `FirstComeFirstServed`; refinement `SemSpec`, `MutexSpec`; liveness `NoStarvation`, `SleepersRun` |
| `irq` | 2 tasks | `FlagsRight`, `ListsNotTorn`, `TicksForever` |
| `main` | `main`, `new_task`, `new_task2`, messages of 1 character and CR, LF | `LinesWhole`, `SignalsConserved`, `HolderIsReady`, `LinesPrinted`, `NotificationsPrinted` |
| `exception` | `main`, `new_task`, reports of 3 lines, exceptions 0 and 14 | `FrameRight`, `ReportBalanced`, `FaultStops` |
| `gdt` | 4 calls, room for 2, bytes of 16 values | `TableRight`, `AllReturn` |
| `boot` | maps of 1 to 3 entries with regions below and above 4 GB, a table of 3, images of 0 to 2 segments out of 3, 2 sectors, 3 devices | `RegionsRight`, `KernelInPlace`, `BootAssertsHold`, `OnlyTimerInterrupts`, `ComesUp` |
| `tools` | formats of up to 4 characters, all ints of 8 bits, 5 bytes of memory; 5 nodes, 2 lists | `OutputRight`, `BufferEnough`, `HelpersRight`, `CallsReturn`; `Linked`, `PopReturns` |
| `kernel_wrap`, `gdt_full`, `exception_regs`, `boot_reread`, `klib_equal` | | the findings below |

Bounds. Three tasks are enough for a running task, one that is overtaken and one
that overtakes, and for two waiters behind an owner. A slice of 2 has both
outcomes of the decrement; sleeps of 0 and 1 ms give 1 and 2 ticks, so sleepers
expire together and apart, first, in the middle and last on the list. A count
bounded by 1 (`MaxCount`) has both outcomes of every test; nesting up to 2
(`MaxLocker`) has both outcomes of the last unlock. Five nodes on two lists
reach every combination of first, middle, last and only. A GDT of 5 has two free
entries, so that two of four calls fail. `UINT_MOD` is 16 instead of 2^32; the passing runs use
sleeps that do not wrap, `kernel_wrap` one that does. The loader's table of 3
keeps 2 regions, and maps of 3 entries overflow it; there a word has 4 values,
and one of the entries has a base that does not fit. `Versions` only has to tell
a list from the next version of it. Registers of the disk have 2 values, so that
sector 5 needs three of them and a count of 2 both bytes of its register; two
segments and one that is not loaded, in any order, have a copy with and without
a part to fill. Devices 0, 1 and 8 are the timer, an undriven line of the first
8259 and one of the second. In `gdt` a byte has 16 values, so an address has 4
bytes and a limit of the whole memory needs pages; tasks lie far enough apart
that every field of the base is used. Formats of 4 characters have two
directives; 8-bit ints have every number of digits from 1 to 3 (10), 8 (2) and
2 (16), and both extremes; `kernel_itoa` alone is given all of them, and
directives those of `ArgInts`, where the sign or the number of digits changes. 5 bytes of memory hold two strings of which one has
two characters, the least for which the loop of `kernel_str_equal` matters.

Fairness. `kernel` assumes only that the timer goes on and that its
handler, which runs with interrupts off, gets to its end; tasks may do anything
or nothing. `irq` proves the first half on the level of the chip: it assumes the
timer chip never stops (weak fairness of `pit_request`), that the CPU, which
looks for requests after every instruction with interrupts on, takes one that is
possible again and again (strong fairness of `interrupt`), and that kernel code,
once started, goes on. `main`, `exception` and `gdt` assume that a task that gets the CPU
again and again makes progress, which `NoStarvation` and a slice of many
instructions justify. `boot` assumes that instructions are executed, that a
sector read of the BIOS succeeds in the end, and that the disk answers a command
of the loader with data or with an error. `tools` assumes that instructions are
executed.

### Findings

* **Long sleeps** (`kernel_wrap`). "向上取整" (`task.c:209`) wraps for the last
  `OS_TICKS_MS - 1` values of `ms`; the sleep then ends after one tick.
* **Full GDT** (`gdt_full`). `task_init` ignores the failure of `tss_init`
  (`task.c:44`) and returns 0.
* **Register dump** (`exception_regs`). `dump_core_regs` prints registers with
  `%x`; `kernel_itoa` takes an `int` and spins on a negative one in base 16
  (`klib.c:65`), so a register of 0x80000000 or more ends the report that is to
  print the registers ("打印寄存器信息", `irq.c:38`).
* **Memory map** (`boot_reread`). An entry to ignore that is the last one makes
  the loop start again (`loader16.c:65` against the comment at line 139). The
  passing run `boot` therefore has maps whose last entry is not to be ignored;
  on other maps the usable entries would be recorded again until the table is
  full, or forever if there are none.
* **String comparison** (`klib_equal`). `kernel_str_equal` evaluates
  `kernel_strlen(s1)` again with the advanced pointer (`klib.c:14`), so that it
  compares the first half of the strings only and returns 1 for "11" and "12",
  against the comment "1 相等, 0 不相等" (`klib.c:9`). It has no caller. What does
  hold of it is in `HelpersRight`.

More was met while modelling that no run is about:

* `task_set_block` leaves the state of the task to its callers (`task.c:117`),
  but `sem_wait` and `rein_mutex_lock` do not set it, and `TASK_WAITTING` is
  never assigned: `StateAgrees` is what does hold of `state`.
* The busy wait of the log, `inb(...) & (1<<6) == 0` (`log.c:29`, `56`), compares
  before it masks, so that it never waits; the model's `log_put` does not wait
  either.
* The two places that speak of `ACPI` in an entry of the memory map contradict
  each other: the declaration says that bit 0 = 1 means the entry is to be
  ignored ("bit0=1时表明此条目应当被忽略", `comm/types.h:28`), the code and its
  comment ignore an entry with bit 0 = 0 (`loader16.c:62-66`). The code is as
  ACPI 3.0 defines the bit, so the model and `RegionsRight` follow it, and the
  comment in `types.h` is taken to be wrong: read the other way, the loader would
  ignore every entry that a BIOS marks as valid.
* `boot_info` keeps the low words of an entry (`loader16.c:76-77`): a usable
  region above 4 GB is recorded at an address where it is not. `RegionsRight`
  says nothing of the place of such a region, only that it is counted. Nothing
  reads the table yet.
* `kernel_memset` writes its first byte only (`klib.c:52`), which `HelpersRight`
  states. `tss_init` uses it, on memory that is zero already.
* A line of the log has 127 characters and a terminator (`log.c:46`). By
  `BufferEnough` the general registers in `dump_core_regs` may take 135 and a
  terminator, so `log_printfln` does not leave the room this format needs.
* `kernel_itoa` drops the sign of a negative number in base 2; nothing says what
  it should do.
* `read_cr0` returns a `uint8_t` (`cpuistr.h:100`), so `enter_protect_mode`
  clears the upper bits of CR0 when it sets PE.

## 4. The proofs

The theorems hold for every value of the constants that satisfies the named
assumptions of the modules; TLC evaluates those in the runs. Every invariant
below was checked by TLC before it was proved. Each module of proofs has one
lemma per action and, under it, one step per part that the action can disturb.

### ListLemmas

What removing an element, appending, taking the tail, joining and reversing do
to the length, the elements, the set of elements and the injectivity of a
sequence.

The library's induction theorems have a predicate as a parameter, which the
provers cannot instantiate. `SetInduction` says the same of a set of numbers
(one with 0 that is closed under successor is all of `Nat`), which is first-order
and follows from the least element of a non-empty set (`LeastNat`). From it,
`Recursion`: a function that is given by its first value and its steps exists.
A recursive definition in TLA+ is a CHOOSE among functions that satisfy its
equation, so existence is what turns the equation into a fact: `FlattenIs` for
`FlattenSeq` here, `NumeralTable`, `OpenIs` and `RoomIs` in `KlibProofs`.

### KernelProofs

The first half defines the inductive invariant `IInv` and shows that each
operation of `Task`, `Sem` and `Mutex` keeps it, whatever program makes the
calls. Its parts depend on each other:

* `OneQueue` needs `CurrIsHead`: a task that blocks is popped from `ready_list`,
  which is only harmless if it is there; and inside the handler
  `TickConsistent`, for the node that is popped from `sleep_list`;
* `TickConsistent` needs `OneQueue`: the next node, read before the current one
  is moved, is another sleeper because the list has no repetitions;
* `CurrIsHead` needs `TickConsistent`: a task switched away from by the handler
  is still ready;
* the types of the counters need `TicksLeft`;
* `SemNoLostWakeup` and `MutexNoLostWakeup` need `OneQueue`: the task that
  blocks is not waiting already, a woken one was on no other list.

The second half draws from it:

* each part as a theorem (`TypeCorrect`, `TaskOnOneQueue`, `RunningIsHead`,
  `TickWalksSleepers`, `CountersPositive`, `SemWakeups`, `MutexWakeups`);
* `StatesAgree`, from `StateInv`: between `tick_slice` and `tick_dispatch` the
  interrupted task may be no longer the head of `ready_list`; then its state is
  already `TASK_READY`, which `tick_dispatch` relies on and does not set;
* `SelfBlocking` and `InTurn`, properties of steps: only the running task leaves
  the ready queue, and no waiter of a semaphore or mutex is overtaken;
* `SemaphoresImplemented` and `MutexesImplemented`: every step of the kernel is
  a step of `AbstractSem` (`AbstractMutex`) or leaves its state alone. A waiter
  that is handed the semaphore or mutex takes its turn in the step of the task
  that wakes it;
* `SleepersPunctual` and `NobodyWokenEarly`, from `SleepInv`, which relates
  `owed` (milliseconds) to `sleep_ticks` of every sleeper. In the middle of the
  handler's walk the sleepers not yet visited are one tick behind the others
  (`Pending`), so the relation depends on where the walk is. Both have the
  hypothesis `NoWrap`, that no sleep is so long that the rounding wraps; the run
  `kernel_wrap` shows that they need it.

### IrqProofs

`InterruptFlag` (`FlagsRight`) and `CallsAtomic` (`ListsNotTorn`): protected code
runs with interrupts off, all other code with interrupts on, and no change of the
lists is torn by another. This is what justifies that a system call is one
action in the other modules, for any number of tasks. The properties speak of
the running task; they are not inductive since `iret`, `irq_leave_protection`
and the far jump load flags that were saved long before. `SavedRight` says what
each task has on its stack and in its TSS at each place it can be suspended, and
`Suspended` says which places those are.

### DListProofs

`ListsLinked` (`Linked`) and `ReturnsPopped` (`PopReturns`): `list.c` keeps its
pointers in step with the sequences that the other modules use instead of
pointers. `ListInv` adds to `Linked` that no sequence repeats a node and that no
two share one; otherwise writing `next` and `pre` of the neighbours of a popped
node could change another list. The lemmas on `Chain` say what inserting and
removing a node does to one list; the others are untouched because disjoint.

### GdtProofs

`DescriptorsRight` (`TableRight`): the TSS descriptors of concurrent `task_init`
calls never collide and the CPU reads in them what the code meant. The lemmas
`BaseReadBack` and its neighbours show that for any width of a byte, packing a
base and a limit in the fields of a descriptor loses nothing. `GdtInv` says that
only the holder of the mutex is inside the scan, that the entry it has seen free
is still free, and that the entries given out are `Mine` of one call each. The
assumption that a TSS is smaller than `LIMIT` was found by the proof: a limit of
`LIMIT` itself would be counted in pages and read back larger. `sizeof(tss_t)`
is 104.

### MainProofs

`ProgramOnKernel` and `FaultsOnKernel`: the program of `init.c`, and the same
program with tasks that fault, implement `Spec` of `Kernel`, in which tasks may
make any call at any time. So whatever `KernelProofs` shows holds for them: no
lost wakeup, first come first served, the abstract semaphores and mutexes.

`Main`, from `IInv` and `ProgInv`: `LogLinesWhole` (`LinesWhole`), `SignalsKept`
(`SignalsConserved`), `LogHolderReady` (`HolderIsReady`). The parts of `ProgInv`
say that a task is between lock and unlock of `log_printfln` exactly when it
owns the mutex or waits for it, never nested (`LogInv`), that only the owner is
in the middle of a line and the wire has what it has printed of it (`LineInv`),
that a task that sleeps, waits for something else or does not exist yet is
outside `log_printfln` (`IdleInv`), and that notifications sent, taken and
pending balance (`SignalInv`).

`Exception`, from `IInv` and `ExcInv`: `ReportsBalanced` (`ReportBalanced`) and
`FramesRight` (`FrameRight`). A task that faults within `log_printfln` holds the
mutex and takes it again for each line of its report. `HoldInv` says that
`locker` is the number of calls its owner has not undone, one for its own line
(`Outer`) and one for the line of the report (`Inner`), and that nobody waits
for the mutex while holding it. `HoldInv` is not kept by the last step, which
stops the machine, and need not be.

### BootProofs

`AssertsHold` (`BootAssertsHold`), `TimerAlone` (`OnlyTimerInterrupts`), from
`BootInv`: IF is off from the loader's last instruction in real mode until
`irq_enable_global`, by which time there is a current task (`FlagInv`); the mutex
of the GDT, taken by no task at all, is given back by each caller (`LockInv`);
the table is in place before the timer, which has the gate that `timer_init`
wrote, and the masks admit the timer only (`TableInv`). That the CPU finds the
timer's handler in the packed table, already at the first interrupt, needs table
and addresses that fit their fields (`BootAssumption`, `AddressAssumption`).

`RegionsRecorded` (`RegionsRight`): `detect_memory` records one region for each
usable entry of the map, in order, up to the room of the table, and its base and
length are the entry's below 4 GB. `MemInv` says so of the entries already read:
the usable entry k is the region with number `Rank(k)`. Its hypothesis `EndsUsed`, that the last entry of the map is not to
be ignored, is the one that the run `boot_reread` shows to be necessary.

`ImageInPlace` (`KernelInPlace`), from `LoadInv`, which has one part for each
stage of `load_kernel`. While the registers are written, each holds the last two
bytes sent to it (`RegsInv`), so that the number and the count which the disk
assembles are those that `read_disk` was given, for any width of a register.
While sectors arrive, what has been read and what the disk has yet to deliver
are the two parts of the file (`TransferInv`). While segments are copied, those
before the loop variable are in place and all other memory is as it was
(`InPlace`). It assumes that the sector number and the count fit their registers
and `PhdrsAssumption`, which keeps the segments out of the buffer.

### KlibProofs

`HelpersDoTheirJob` (`HelpersRight`), from `StrInv`: how far each helper has
come and what it has copied, compared or set by then, in a memory that has
changed in the destination only. For `kernel_str_equal` it is the half that
holds, that equal strings are never told apart and strings of different lengths
never taken for equal; the other half is the finding `klib_equal`.

`OutputIsRight` (`OutputRight`), from `FmtInv`. Between two characters of the
format the buffer holds the `Output` of what has been read (`ReadInv`). Within
`kernel_itoa` (`NumberInv`) it holds the output before the number, the sign, and

* while digits are written, a sequence that, reversed and put behind the
  `Numeral` of what is left of the number, gives the whole `Numeral`
  (`DigitsInv`); this is where division towards zero and `INT_MIN`, which has no
  positive counterpart, matter;
* while they are turned round, digits that are in order outside of the two
  pointers and in reverse between them (`ReverseInv`).

When a call has finished, the buffer has the whole output and the terminator.

`BufferIsEnough` (`BufferEnough`), from `FmtInv` and `RoomInv`: each piece fits
its width, and the terminator comes behind the last one. That no number is longer than `INT_MIN` in base 10 or `INT_MAX` in
base 16 is `NumeralLonger`, by induction on the number.

The only assumption is that the constants are numbers and `ArgInts` ints. TLC
has checked `StrInv`, `FmtInv` and `RoomInv` on the instance of the run `tools`;
that `args` is a sequence was checked as `args` having the domain of one, since
its elements have different types.

### What is only model-checked

* Liveness (`NoStarvation`, `SleepersRun`, `TicksForever`, `LinesPrinted`,
  `NotificationsPrinted`, `FaultStops`, `AllReturn`, `ComesUp`, `CallsReturn`):
  fairness and ENABLED are outside what the prover handles.
* The violations: they are facts about one instance.

## 5. What is not modelled

* `panic`: no caller makes an ASSERT fail (`BootAssertsHold` during the start,
  the guards of `rein_mutex_unlock` in `Kernel` and its use in `Main` after it).
  It prints and halts like `do_default_handler`.
* Segment registers, stacks and CR0 in the boot sector and `enter_protect_mode`:
  register moves without a choice. A20 and the temporary GDT likewise.
* `irq_disable` and `kernel_sprintf` are not called.
* `sem_count`, `list_count`, `task_main_task` and the like only read.
* `simple_switch` (`kernel/init/start.S`) is not called any more.
* `sys_tick` is never read.
* The text of messages, stacks, register contents and addresses.

## 6. State of the project

All components but `panic` are modelled, with their runs. Every safety invariant,
every property of steps and both refinements that the passing runs check are
proved. What is left to TLC is liveness.
