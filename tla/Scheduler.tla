----------------------------- MODULE Scheduler -----------------------------
(***************************************************************************)
(* The preemptive scheduler of kernel/src/task/scheduler.rs, with the      *)
(* assembly that saves and restores contexts (tick_handler.S,              *)
(* restore_context.S), the accesses through CURRENT_TASK of runtime.rs and *)
(* the tasks' path from start_user_task to user mode and back by system    *)
(* calls.  One CPU; the timer may fire between any two steps, since system *)
(* calls and kernel tasks run with interrupts enabled.                     *)
(*                                                                         *)
(* A context is where its code is (rip: pc), whether rsp is the one that   *)
(* code had, and the other registers.  The source's slots 0, 1, ... are 1, *)
(* 2, ... here.  The slots live in a Vec: `gen' counts its reallocations,  *)
(* and a CURRENT_TASK of an older generation points into memory the Vec    *)
(* has given back.                                                         *)
(***************************************************************************)
EXTENDS Naturals, Sequences

CONSTANTS
    InitialTasks,   \* tasks spawned before interrupts are enabled
    MaxTasks,       \* bound: tasks over a run
    MinCapacity,    \* a Vec's first capacity (4 for a Task), doubled when full
    NULL            \* CURRENT_TASK before the first task

ASSUME TasksAssumption ==
    /\ InitialTasks \in Nat \ {0} /\ MaxTasks \in Nat /\ MinCapacity \in Nat
    /\ InitialTasks <= MinCapacity /\ InitialTasks <= MaxTasks
    /\ NULL \notin [gen : Nat, slot : 1..MaxTasks]

Slots == 1..MaxTasks

(* Where a task's code can be: start_user_task from entry to the jump to user *)
(* mode, user code, and a system call that takes SCHEDULER to spawn a task or *)
(* CLOCK to stamp a journal event.  Code that holds a lock is at a point of   *)
(* its own, because the timer fires there too.                                *)
Points == {"entry", "creating", "created", "bundled", "mapped", "user",
           "syscall", "spawning", "stamping", "return"}
LockPoints == {"creating", "spawning", "stamping", "locked"}

(* The boot code is in start_first: before it, with SCHEDULER locked, and after *)
(* it has set CURRENT_TASK but is still running itself.                         *)
BootPoints == {"enabled", "locked", "chosen"}

(* rsp is exact or below its true value; the registers besides rip and rsp are *)
(* what the code at pc left in them, or lost.                                  *)
Lost == "lost"
Context == [pc : Points \cup BootPoints, sp : {"exact", "low"},
            regs : Points \cup BootPoints \cup {Lost}]
At(p) == [pc |-> p, sp |-> "exact", regs |-> p]
IsUser(ctx) == ctx.pc = "user"

KernelTable == 0
Task == [ctx : Context, cr3 : {KernelTable} \cup Slots, bundle : {KernelTable} \cup Slots]

VARIABLES
    tasks,          \* SCHEDULER.tasks
    capacity, gen,  \* of the Vec's buffer
    current,        \* SCHEDULER.current
    CURRENT_TASK,   \* NULL or [gen, slot]
    cpu,            \* [ctx, cr3, stack]: what runs, its page table, kernel stack
    running,        \* history: the slot that runs, 0 for the boot code
    status,         \* "ok", "hung" in the interrupt handler, or "panicked"
    stopped,        \* history: the context each slot was last stopped with
    mishaps         \* history: which of "boot" and "realloc" has happened

vars == <<tasks, capacity, gen, current, CURRENT_TASK, cpu, running, status,
          stopped, mishaps>>

(* Task::new: a kernel-mode context at the entry point, the page table in use *)
(* where the task is spawned, and the kernel's bundle.                        *)
new_task(cr3) == [ctx |-> At("entry"), cr3 |-> cr3, bundle |-> KernelTable]

Init ==
    /\ tasks = [i \in 1..InitialTasks |-> new_task(KernelTable)]
    /\ capacity = MinCapacity /\ gen = 0
    /\ current = 1
    /\ CURRENT_TASK = NULL
    /\ cpu = [ctx |-> At("enabled"), cr3 |-> KernelTable, stack |-> 0]
    /\ running = 0
    /\ status = "ok"
    /\ stopped = [i \in Slots |-> At("entry")]
    /\ mishaps = {}

pointer(slot) == [gen |-> gen, slot |-> slot]
Dangling == CURRENT_TASK # NULL /\ CURRENT_TASK.gen # gen

(* What a write through CURRENT_TASK does to the slots: nothing if it is null, *)
(* and nothing a slot shows if it dangles.                                     *)
write_current(task) ==
    IF CURRENT_TASK = NULL \/ Dangling THEN tasks
    ELSE [tasks EXCEPT ![CURRENT_TASK.slot] = task]

current_task == tasks[CURRENT_TASK.slot]

(* tick_handler: of code interrupted in kernel mode the handler computes rsp as *)
(* if the CPU had pushed three words, but it pushes five (and aligns) in long   *)
(* mode whatever the mode it interrupts.                                        *)
saved_context(ctx) == IF IsUser(ctx) THEN ctx ELSE [ctx EXCEPT !.sp = "low"]

(* restore_context: a user context is popped whole and left by iretq; a kernel *)
(* context gets back its rip, rsp, rflags and rax only.                        *)
restore_context_partly(ctx) == [ctx EXCEPT !.regs = Lost]

restore_context(ctx) == IF IsUser(ctx) THEN ctx ELSE [ctx EXCEPT !.regs = Lost]

(* next_ready_task: one slot is looked at, the one after the current. *)
next_ready_task_skipping == ((current + 1) % Len(tasks)) + 1

next_ready_task == (current % Len(tasks)) + 1
----------------------------------------------------------------------------
(* The timer: tick_handler and rust_schedule_and_switch *)

SaveKernelOnly ==
    IF IsUser(cpu.ctx) THEN tasks
    ELSE write_current([current_task EXCEPT !.ctx = saved_context(cpu.ctx)])

Save == write_current([current_task EXCEPT !.ctx = saved_context(cpu.ctx)])

NewMishaps ==
    IF running = 0 /\ CURRENT_TASK # NULL THEN {"boot"} ELSE {}

Switch(slots, next) ==
    /\ tasks' = slots
    /\ current' = next
    /\ CURRENT_TASK' = pointer(next)
    /\ cpu' = [ctx |-> restore_context(slots[next].ctx), cr3 |-> slots[next].cr3,
               stack |-> next]
    /\ running' = next
    /\ stopped' = IF running = 0 THEN stopped
                  ELSE [stopped EXCEPT ![running] = cpu.ctx]
    /\ mishaps' = mishaps \cup NewMishaps
    /\ UNCHANGED <<capacity, gen, status>>

Tick ==
    /\ status = "ok"
    /\ cpu.ctx.pc \notin LockPoints
    /\ Switch(Save, next_ready_task)

(* SCHEDULER.lock(), or now_fn's lock of CLOCK, spins with interrupts off *)
(* while the code it interrupted holds the lock.                          *)
TickHangs ==
    /\ status = "ok"
    /\ cpu.ctx.pc \in LockPoints
    /\ tasks' = Save
    /\ status' = "hung"
    /\ UNCHANGED <<capacity, gen, current, CURRENT_TASK, cpu, running, stopped, mishaps>>

(* The memory behind a dangling CURRENT_TASK may have lost its magic. *)
TickPanics ==
    /\ status = "ok"
    /\ Dangling
    /\ status' = "panicked"
    /\ UNCHANGED <<tasks, capacity, gen, current, CURRENT_TASK, cpu, running,
                   stopped, mishaps>>
----------------------------------------------------------------------------
(* Boot: start_first, with interrupts already enabled *)

BootStep(from, to) ==
    /\ status = "ok" /\ running = 0
    /\ cpu.ctx.pc = from
    /\ cpu' = [cpu EXCEPT !.ctx = At(to)]
    /\ UNCHANGED <<tasks, capacity, gen, current, running, status, stopped, mishaps>>

StartFirstLock == BootStep("enabled", "locked") /\ UNCHANGED CURRENT_TASK
StartFirstChoose == BootStep("locked", "chosen") /\ CURRENT_TASK' = pointer(1)

(* The page table is not switched: the first task's is the one in use. *)
StartFirstRestore ==
    /\ status = "ok" /\ running = 0
    /\ cpu.ctx.pc = "chosen"
    /\ cpu' = [cpu EXCEPT !.ctx = restore_context(tasks[1].ctx), !.stack = 1]
    /\ running' = 1
    /\ UNCHANGED <<tasks, capacity, gen, current, CURRENT_TASK, status, stopped, mishaps>>
----------------------------------------------------------------------------
(* The running task.  A slot that holds the boot code's context makes no    *)
(* progress: it restores itself over and over.  What kernel code does with  *)
(* a low rsp and lost registers is undefined; here it goes on or it faults. *)

Running(p) == status = "ok" /\ running # 0 /\ cpu.ctx.pc = p

Move(from, to) ==
    /\ Running(from)
    /\ cpu' = [cpu EXCEPT !.ctx.pc = to, !.ctx.regs = to]

Unmoved == UNCHANGED <<capacity, gen, current, CURRENT_TASK, running, status,
                       stopped, mishaps>>

CreateTask == /\ Move("entry", "creating") \/ Move("creating", "created")
              /\ Unmoved /\ UNCHANGED tasks

assign_current_bundle ==
    /\ Move("created", "bundled")
    /\ tasks' = write_current([current_task EXCEPT !.bundle = running])
    /\ Unmoved

set_current_cr3_unsaved == Move("bundled", "mapped") /\ Unmoved /\ UNCHANGED tasks

set_current_cr3 ==
    /\ Move("bundled", "mapped")
    /\ tasks' = write_current([current_task EXCEPT !.cr3 = running])
    /\ Unmoved

jump_to_user ==
    /\ Running("mapped")
    /\ cpu' = [cpu EXCEPT !.ctx = At("user"), !.cr3 = running]
    /\ Unmoved /\ UNCHANGED tasks

(* syscall_entry_asm switches to the task's kernel stack. *)
EnterKernel == /\ Running("user")
               /\ cpu' = [cpu EXCEPT !.ctx = At("syscall")]
               /\ Unmoved /\ UNCHANGED tasks

SystemCall == /\ \/ Len(tasks) < MaxTasks /\ Move("syscall", "spawning")
                 \/ Move("syscall", "stamping")
                 \/ Move("stamping", "return")
                 \/ Move("return", "user")
              /\ Unmoved /\ UNCHANGED tasks

(* Scheduler::spawn, under the lock its caller holds: a full Vec moves to a *)
(* new buffer, and CURRENT_TASK still points into the old one.              *)
spawn ==
    /\ Len(tasks) < MaxTasks
    /\ Move("spawning", "return")
    /\ tasks' = Append(tasks, new_task(cpu.cr3))
    /\ IF Len(tasks) = capacity
         THEN /\ capacity' = 2 * capacity /\ gen' = gen + 1
              /\ mishaps' = mishaps \cup {"realloc"}
         ELSE UNCHANGED <<capacity, gen, mishaps>>
    /\ UNCHANGED <<current, CURRENT_TASK, running, status, stopped>>

(* A fault handler never returns. *)
Fault ==
    /\ status = "ok" /\ cpu.ctx.sp = "low"
    /\ status' = "panicked"
    /\ UNCHANGED <<tasks, capacity, gen, current, CURRENT_TASK, cpu, running,
                   stopped, mishaps>>

Next ==
    \/ Tick \/ TickHangs \/ TickPanics
    \/ StartFirstLock \/ StartFirstChoose \/ StartFirstRestore
    \/ CreateTask \/ assign_current_bundle \/ set_current_cr3 \/ jump_to_user
    \/ EnterKernel \/ SystemCall \/ spawn \/ Fault

Spec == Init /\ [][Next]_vars

(* The timer is periodic, so a tick that can be taken is taken. *)
FairSpec == Spec /\ WF_vars(Tick \/ TickHangs \/ TickPanics)
----------------------------------------------------------------------------
TypeOK ==
    /\ tasks \in Seq(Task) /\ Len(tasks) \in InitialTasks..MaxTasks
    /\ capacity \in Nat /\ Len(tasks) <= capacity /\ gen \in Nat
    /\ current \in 1..Len(tasks)
    /\ CURRENT_TASK \in {NULL} \cup [gen : 0..gen, slot : 1..Len(tasks)]
    /\ cpu \in [ctx : Context, cr3 : {KernelTable} \cup Slots, stack : {0} \cup Slots]
    /\ running \in 0..Len(tasks)
    /\ status \in {"ok", "hung", "panicked"}
    /\ stopped \in [Slots -> Context]
    /\ mishaps \subseteq {"boot", "realloc"}

(* A slot holds its context to the last register if it was stopped in user *)
(* mode, and but for rsp if it was stopped in the kernel.                  *)
SlotsExact ==
    \A t \in 1..Len(tasks) :
        t # running => \/ tasks[t].ctx = stopped[t]
                       \/ /\ ~IsUser(stopped[t])
                          /\ tasks[t].ctx = [stopped[t] EXCEPT !.sp = "low"]

(* Every task that is not running can be resumed where it was stopped: its slot
   holds the context it was interrupted with, however ticks, spawns and system
   calls interleave, and to the last register if that was in user mode.  Two
   things break it, and nothing else does: a tick while start_first has set
   CURRENT_TASK but still runs, and a spawn that moves the Vec under
   CURRENT_TASK (rust_schedule_and_switch, Scheduler::spawn). *)
SavedContexts == mishaps = {} => SlotsExact

(* User code runs with its own page table, on its own kernel stack, and what it
   asks of the kernel is charged to its own bundle, across any number of
   preemptions between start_user_task's steps (assign_current_bundle,
   set_current_cr3, jump_to_user, rust_schedule_and_switch). *)
UserRunsAsItself ==
    (mishaps = {} /\ IsUser(cpu.ctx)) =>
        /\ cpu.cr3 = running /\ cpu.stack = running
        /\ CURRENT_TASK = pointer(running)
        /\ tasks[running].bundle = running

(* A task that gets the CPU goes on from where it was stopped, and user code
   with all of its registers (tick_handler, restore_context). *)
ResumedWhereStopped ==
    [][(running' # running /\ mishaps' = {}) =>
         /\ cpu'.ctx.pc = stopped[running'].pc
         /\ IsUser(cpu'.ctx) => cpu'.ctx = stopped[running']]_vars

(* Every task gets the CPU again and again, unless a tick finds SCHEDULER or
   CLOCK locked by the code it interrupts, or kernel code faults: nothing else
   can keep the round robin from coming round (next_ready_task). *)
EveryTaskRunsUnlessStopped ==
    \A t \in Slots : t <= Len(tasks) ~> (running = t \/ status # "ok")

(* "After initialization the kernel enables interrupts and enters a preemptive
   round-robin scheduler" (README.md:136): as long as nothing faults, every task
   gets the CPU again. *)
EveryTaskRuns ==
    \A t \in Slots : t <= Len(tasks) ~> (running = t \/ status = "panicked")

(* "restore_context.S restores the next task's registers and iretq's to it"
   (scheduler.rs:13): a task that gets the CPU back has the registers that were
   saved for it.  The kernel path of restore_context restores only rax. *)
RegistersRestored ==
    [][(running' # running /\ running # 0 /\ mishaps' = {}) =>
         stopped[running'] = At("entry") \/ cpu'.ctx.regs = stopped[running'].regs]_vars

(* "Calculate original RSP" (tick_handler.S:40): the rsp in a slot is the one
   its code was interrupted with. *)
StackPointerSaved ==
    mishaps = {} =>
        \A t \in 1..Len(tasks) : t # running => tasks[t].ctx.sp = stopped[t].sp

(* "rust_schedule_and_switch copies saved context to current task"
   (scheduler.rs:11): a task's slot has its context, also when the Vec of
   slots has grown since the task got the CPU. *)
SavedAfterSpawn == "boot" \notin mishaps => SlotsExact

(* "Enter the first scheduled task" (runtime.rs:238): the first task's slot
   still holds that task when the boot code is left. *)
FirstTaskKept == "realloc" \notin mishaps => SlotsExact
============================================================================
