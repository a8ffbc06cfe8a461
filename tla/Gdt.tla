--------------------------------- MODULE Gdt ---------------------------------
(***************************************************************************)
(* How task_init gets a task its TSS descriptor: gdt_init and              *)
(* get_alloc_desc of kernel/cpu/cpu.c, tss_init and the first half of      *)
(* task_init of kernel/core/task.c, run by several tasks at once.  The     *)
(* second half of task_init, which makes the task ready, is in Task.       *)
(*                                                                         *)
(* The mutex of cpu.c is the holder variable here: module Kernel shows     *)
(* that mutex.c behaves like it.                                           *)
(***************************************************************************)
EXTENDS Descriptor

CONSTANTS
  Creators,        \* the calls of task_init, numbered; each for its own task_t
  GDT_TABLE_SIZE,  \* entries of gdt_table
  TASK_SIZE,       \* sizeof(task_t): the task_t are laid out one by one
  TSS_SIZE,        \* sizeof(tss_t)
  NULL

ASSUME GdtAssumption ==
  /\ Creators \subseteq Nat /\ NULL \notin Creators
  /\ \A c \in Creators : (c + 1) * TASK_SIZE < ADDRESS
  /\ GDT_TABLE_SIZE \in Nat /\ GDT_TABLE_SIZE > 3
  /\ TSS_SIZE \in 1 .. LIMIT - 1 /\ TASK_SIZE \in Nat /\ TASK_SIZE > TSS_SIZE

VARIABLES
  gdt_table,
  holder,  \* the call that holds the mutex of cpu.c
  pc, i,   \* where each call is, and its loop variable
  tss_sel, \* tss_sel of the task it creates, as a table index; 0 at first
  result   \* what task_init returned

vars == <<gdt_table, holder, pc, i, tss_sel, result>>

tss(c) == c * TASK_SIZE  \* &task->tss

Segment(type) ==
  segment_desc_set(0, ADDRESS - 1,
                   SEG_P_PRESENT \cup SEG_S_NORMAL \cup SEG_DB_DOUBLE_BYTE \cup type)

gdt_init ==
  gdt_table = [k \in 0 .. GDT_TABLE_SIZE - 1 |->
                 CASE k = 1 -> Segment(SEG_TYPE_CODE)
                   [] k = 2 -> Segment(SEG_TYPE_RW)
                   [] OTHER -> segment_desc_set(0, 0, {})]

Init ==
  /\ gdt_init
  /\ holder = NULL
  /\ pc = [c \in Creators |-> "lock"]
  /\ i = [c \in Creators |-> 1]
  /\ tss_sel = [c \in Creators |-> 0]
  /\ result = [c \in Creators |-> NULL]

Goto(c, from, to) == pc[c] = from /\ pc' = [pc EXCEPT ![c] = to]

\* mutant of Take: no mutex
Take_not(c) == UNCHANGED holder

\* mutant of Give: the mutex is kept when there is no free descriptor
Give_found(c) == holder' = IF pc[c] = "scan" THEN holder ELSE NULL

Take(c) == holder = NULL /\ holder' = c
Give(c) == holder' = NULL

alloc_lock(c) ==
  /\ Goto(c, "lock", "scan")
  /\ Take(c)
  /\ UNCHANGED <<gdt_table, i, tss_sel, result>>

\* One iteration of the loop looks at attr, 0 in a free entry ...
alloc_scan(c) ==
  /\ pc[c] = "scan" /\ i[c] < GDT_TABLE_SIZE
  /\ IF gdt_table[i[c]].attr = {}
     THEN Goto(c, "scan", "mark") /\ UNCHANGED i
     ELSE i' = [i EXCEPT ![c] = @ + 1] /\ UNCHANGED pc
  /\ UNCHANGED <<gdt_table, holder, tss_sel, result>>

\* ... and takes the entry when it is free.
alloc_mark(c) ==
  /\ Goto(c, "mark", "unlock")
  /\ gdt_table' = [gdt_table EXCEPT ![i[c]].attr = SEG_P_PRESENT]
  /\ UNCHANGED <<holder, i, tss_sel, result>>

alloc_unlock(c) ==
  /\ Goto(c, "unlock", "set")
  /\ Give(c)
  /\ UNCHANGED <<gdt_table, i, tss_sel, result>>

\* The table is full: get_alloc_desc and tss_init return -1, and task_init
\* goes on.
alloc_fail(c) ==
  /\ Goto(c, "scan", "name")
  /\ i[c] = GDT_TABLE_SIZE
  /\ Give(c)
  /\ UNCHANGED <<gdt_table, i, tss_sel, result>>

\* The rest of tss_init, without the mutex.  What it writes to the task's own
\* tss is left out.
tss_init(c) ==
  /\ Goto(c, "set", "name")
  /\ gdt_table' = [gdt_table EXCEPT
                     ![i[c]] = segment_desc_set(tss(c), TSS_SIZE,
                                                SEG_P_PRESENT \cup SEG_TYPE_TSS)]
  /\ tss_sel' = [tss_sel EXCEPT ![c] = i[c]]
  /\ UNCHANGED <<holder, i, result>>

\* A name that is empty or too long ends task_init with -1; the descriptor
\* is not given back.
check_name(c) ==
  /\ Goto(c, "name", "done")
  /\ \E r \in {0, -1} : result' = [result EXCEPT ![c] = r]
  /\ UNCHANGED <<gdt_table, holder, i, tss_sel>>

Step(c) ==
  \/ alloc_lock(c)
  \/ alloc_scan(c)
  \/ alloc_mark(c)
  \/ alloc_unlock(c)
  \/ alloc_fail(c)
  \/ tss_init(c)
  \/ check_name(c)

Done == (\A c \in Creators : pc[c] = "done") /\ UNCHANGED vars

Next == Done \/ \E c \in Creators : Step(c)

\* Every task gets the CPU and the mutex is handed on in turn (module Main,
\* module Kernel), so no call stops half way.
Spec == Init /\ [][Next]_vars /\ \A c \in Creators : WF_vars(Step(c))

-----------------------------------------------------------------------------

\* However the calls interleave, the CPU reads in the table what was meant.  The
\* kernel's code and data segments cover all addresses from 0, so that no
\* segment register ever has to change; and no two tasks share a descriptor:
\* the one that a task's tss_sel names is a TSS with the base and the limit of
\* that task's own tss.
TableRight ==
  /\ \A k \in {1, 2} : /\ SEG_P_PRESENT \subseteq gdt_table[k].attr
                       /\ BaseOf(gdt_table[k]) = 0
                       /\ LimitOf(gdt_table[k]) = ADDRESS - 1
  /\ \A c \in Creators : tss_sel[c] # 0 =>
       LET d == gdt_table[tss_sel[c]]
       IN  /\ d.attr = SEG_P_PRESENT \cup SEG_TYPE_TSS
           /\ BaseOf(d) = tss(c)
           /\ LimitOf(d) \in TSS_SIZE - 1 .. TASK_SIZE - 1
           /\ \A e \in Creators \ {c} : tss_sel[e] # tss_sel[c]

\* Every call of task_init returns, also when the table is full.
AllReturn == \A c \in Creators : <>(pc[c] = "done")

\* task_init returns -1 when it could not initialise the task, so a task it
\* returns 0 for has a TSS the CPU can switch to.
ZeroMeansUsable ==
  \A c \in Creators : result[c] = 0 => tss_sel[c] # 0

=============================================================================
