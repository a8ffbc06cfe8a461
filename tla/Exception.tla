----------------------------- MODULE Exception ------------------------------
(***************************************************************************)
(* What happens when a task of the program in module Main faults:          *)
(* do_default_handler of kernel/cpu/irq.c reports the exception and stops  *)
(* the machine.  It prints through the log and its mutex, in the middle of *)
(* whatever the task was doing outside protected code.                     *)
(*                                                                         *)
(* It runs with interrupts off (every gate is an interrupt gate), so the   *)
(* timer does not take the CPU from it, but rein_mutex_lock may: then the  *)
(* other tasks go on, with interrupts on, and may fault as well.           *)
(***************************************************************************)
EXTENDS Main

CONSTANTS
  Vectors,      \* bound: the exceptions that happen
  ReportLines,  \* lines of the report, each a call of the log
  HexLine       \* the lines left when the registers are printed in base 16

ASSUME ExceptionAssumption ==
  /\ HexLine \in Nat \ {0}
  /\ ReportLines \in Nat
  /\ ReportLines > HexLine

VARIABLES
  left,     \* lines of its report that a task has yet to print
  top_bit,  \* whether a register that the report prints is negative as an int
  vector,   \* the exception a task has taken
  at,       \* where the task was when it faulted
  stopped   \* the CPU halts or spins, with interrupts off

excVars == <<left, top_bit, vector, at, stopped>>
allVars == <<progVars, excVars>>

ExcInit ==
  /\ MainInit
  /\ left = [t \in Tasks |-> 0]
  /\ top_bit = [t \in Tasks |-> FALSE]
  /\ vector = [t \in Tasks |-> -1]
  /\ at = [t \in Tasks |-> "nowhere"]
  /\ stopped = FALSE

-----------------------------------------------------------------------------
(* The stack of the handler: exception_handler of kernel/init/start.S and  *)
(* exception_frame_t of kernel/include/cpu/irq.h.                          *)

\* What the CPU pushes; for some exceptions an error code, too.
cpu_push(v) ==
  <<"eflags", "cs", "eip">>
    \o IF v \in {8, 10, 11, 12, 13, 14, 17, 21} THEN <<"error_code">> ELSE <<>>

pusha == <<"eax", "ecx", "edx", "ebx", "esp", "ebp", "esi", "edi">>

\* mutant of with_err_code: page faults forgotten
with_err_code_no_page_fault == {8, 10, 11, 12, 13, 17, 21}

with_err_code == {8, 10, 11, 12, 13, 14, 17, 21}

\* What the handler pushes: 0 when there is no error code, and the number.
handler_push(v) ==
  (IF v \in with_err_code THEN <<>> ELSE <<"error_code">>)
    \o <<"num">> \o pusha \o <<"ds", "es", "fs", "gs">>

\* The fields of the frame, from the top of the stack.
exception_frame_t ==
  <<"gs", "fs", "es", "ds", "edi", "esi", "ebp", "esp", "ebx", "edx", "ecx",
    "eax", "num", "error_code", "eip", "cs", "eflags">>

frame(v) == Reverse(cpu_push(v) \o handler_push(v))

-----------------------------------------------------------------------------
(* The report.                                                             *)

Reporting(t) == pc[t] \in {"report", "print", "complain"}

\* Every exception ends in do_default_handler.
fault(t) ==
  /\ Runs(t) /\ ~Reporting(t)
  /\ left' = [left EXCEPT ![t] = ReportLines]
  /\ \E b \in BOOLEAN : top_bit' = [top_bit EXCEPT ![t] = b]
  /\ \E v \in Vectors : vector' = [vector EXCEPT ![t] = v]
  /\ at' = [at EXCEPT ![t] = pc[t]]
  /\ Goto(t, "report")
  /\ UNCHANGED <<taskVars, count, mutexVars, pos, line, due, stopped>>

\* kernel_itoa refuses a negative number in base 16, and %x takes an int.
itoa_refuses(t) == left[t] = HexLine /\ top_bit[t]

\* The next line.  It is formatted before the mutex is taken, so that what
\* kernel_itoa prints comes in place of the line.
report_lock(t) ==
  /\ Runs(t) /\ pc[t] = "report" /\ left[t] > 0
  /\ log_acquire
  /\ Goto(t, IF itoa_refuses(t) THEN "complain" ELSE "print")
  /\ UNCHANGED <<count, pos, line, due, excVars>>

\* With the mutex held and interrupts off nobody comes between the characters.
report_print(t) ==
  /\ Runs(t) /\ pc[t] = "print"
  /\ line' = <<>>
  /\ log_release
  /\ left' = [left EXCEPT ![t] = @ - 1]
  /\ Goto(t, "report")
  /\ UNCHANGED <<count, pos, due, top_bit, vector, at, stopped>>

\* kernel_itoa prints its complaint and never returns.
complain(t) ==
  /\ Runs(t) /\ pc[t] = "complain"
  /\ line' = <<>>
  /\ log_release
  /\ stopped' = TRUE
  /\ UNCHANGED <<count, pc, pos, due, left, top_bit, vector, at>>

halt(t) ==
  /\ Runs(t) /\ pc[t] = "report" /\ left[t] = 0
  /\ stopped' = TRUE
  /\ UNCHANGED <<taskVars, count, mutexVars, mainVars, left, top_bit, vector, at>>

ExcStep(t) ==
  /\ ~stopped
  /\ \/ report_lock(t)
     \/ report_print(t)
     \/ complain(t)
     \/ halt(t)
     \/ Step(t) /\ UNCHANGED excVars

\* Interrupts are off while the CPU is in a report.
ExcTick ==
  /\ ~stopped
  /\ ~(curr_task \in Tasks /\ Reporting(curr_task) /\ ~in_tick)
  /\ Tick
  /\ UNCHANGED excVars

Dead == stopped /\ UNCHANGED allVars

ExcNext ==
  \/ ExcTick
  \/ Dead
  \/ \E t \in Tasks : ExcStep(t) \/ (~stopped /\ fault(t))

\* Fairness is that of module Main: nothing makes a task fault.
ExcSpec ==
  /\ ExcInit
  /\ [][ExcNext]_allVars
  /\ WF_allVars(ExcTick)
  /\ \A t \in Tasks : SF_allVars(ExcStep(t))

-----------------------------------------------------------------------------

\* A fault stops the machine, even when another task holds the mutex of the
\* log and the report of do_default_handler has to wait for it.
FaultStops == (\E t \in Tasks : Reporting(t)) ~> stopped

\* Between two lines of its report a task owns the mutex of the log exactly
\* when it faulted while it was printing a line of its own: the nested locks
\* of the report are undone, and the outer one is not given away.
ReportBalanced ==
  \A t \in Tasks : pc[t] = "report" =>
    (owner[log_mutex] = t <=> at[t] \in {"put", "unlock"})

\* The handler reads what the CPU and its own pushes have put on the stack,
\* with an error code or without: no field is displaced, and nothing is left
\* over below the frame, which iret relies on.
FrameRight ==
  \A t \in Tasks : Reporting(t) => frame(vector[t]) = exception_frame_t

\* do_default_handler prints the registers: when the machine has stopped, the
\* report of the task that stopped it is complete.
RegistersPrinted == stopped => left[curr_task] = 0

=============================================================================
