-------------------------- MODULE SchedulerProofs --------------------------
(***************************************************************************)
(* Scheduler's safety properties for any number of tasks: types, the       *)
(* exactness of the saved contexts and the identity user code runs with.   *)
(***************************************************************************)
EXTENDS Scheduler, SequenceTheorems, TLAPS

(* The points of a task's code after its bundle is assigned, after its page *)
(* table is recorded, and after it first entered user mode.                 *)
Entered == {"user", "syscall", "spawning", "stamping", "return"}
Mapped == {"mapped"} \cup Entered
Bundled == {"bundled"} \cup Mapped

(* What start_user_task has done to slot t when its code is at p. *)
SlotReady(t, p) ==
    /\ p \in Points
    /\ p \in Bundled => tasks[t].bundle = t
    /\ p \in Mapped => tasks[t].cr3 = t

(* CURRENT_TASK belongs to what runs: null until start_first has chosen the *)
(* first task, which is still to be entered.                                *)
BootOwned ==
    running = 0 =>
        /\ cpu.ctx.pc \in BootPoints
        /\ CURRENT_TASK = IF cpu.ctx.pc = "chosen" THEN pointer(1) ELSE NULL
        /\ tasks[1].ctx.pc = "entry"

TaskOwned ==
    running # 0 =>
        /\ CURRENT_TASK = pointer(running) /\ cpu.stack = running
        /\ SlotReady(running, cpu.ctx.pc)
        /\ cpu.ctx.pc \in Entered => cpu.cr3 = running

WaitingReady ==
    \A t \in 1..Len(tasks) : t # running => SlotReady(t, tasks[t].ctx.pc)

UnusedFresh == \A t \in Slots : t > Len(tasks) => stopped[t] = At("entry")

Orderly == BootOwned /\ TaskOwned /\ WaitingReady /\ SlotsExact

IndInv == TypeOK /\ UnusedFresh /\ (mishaps = {} => Orderly)
----------------------------------------------------------------------------
(* A CURRENT_TASK that is not null names a slot that exists. *)
LEMMA CurrentTask ==
    ASSUME TypeOK, CURRENT_TASK # NULL
    PROVE  /\ CURRENT_TASK.slot \in 1..Len(tasks) /\ CURRENT_TASK.gen \in 0..gen
           /\ current_task \in Task
BY TasksAssumption DEF TypeOK, current_task

(* A write through CURRENT_TASK replaces the slot it names if it is not null and
   does not dangle, and no other (Scheduler's write_current). *)
LEMMA WriteCurrent ==
    ASSUME TypeOK, NEW task,
           (CURRENT_TASK # NULL /\ CURRENT_TASK.gen = gen) => task \in Task
    PROVE  /\ write_current(task) \in Seq(Task)
           /\ Len(write_current(task)) = Len(tasks)
           /\ \A t \in 1..Len(tasks) :
                write_current(task)[t] =
                    IF CURRENT_TASK # NULL /\ CURRENT_TASK.gen = gen
                       /\ t = CURRENT_TASK.slot
                    THEN task ELSE tasks[t]
<1>1. tasks \in Seq(Task)
  BY DEF TypeOK
<1>2. CASE CURRENT_TASK = NULL \/ Dangling
  BY <1>1, <1>2 DEF write_current, Dangling
<1>3. CASE ~(CURRENT_TASK = NULL \/ Dangling)
  <2>1. CURRENT_TASK # NULL /\ CURRENT_TASK.gen = gen
    BY <1>3 DEF Dangling
  <2>2. CURRENT_TASK.slot \in 1..Len(tasks) /\ task \in Task
    BY <2>1, CurrentTask
  <2>3. write_current(task) = [tasks EXCEPT ![CURRENT_TASK.slot] = task]
    BY <1>3 DEF write_current
  <2> QED
    BY <1>1, <2>1, <2>2, <2>3
<1> QED
  BY <1>2, <1>3

(* Contexts stay contexts when they are saved and restored. *)
LEMMA ContextsTyped ==
    ASSUME NEW c \in Context
    PROVE  saved_context(c) \in Context /\ restore_context(c) \in Context
BY DEF Context, saved_context, restore_context, IsUser, Lost

LEMMA AtTyped ==
    ASSUME NEW p \in Points \cup BootPoints
    PROVE  At(p) \in Context
BY DEF At, Context

LEMMA NewTaskTyped ==
    ASSUME NEW c \in {KernelTable} \cup Slots
    PROVE  new_task(c) \in Task
<1>1. At("entry") \in Context
  BY AtTyped DEF Points
<1> QED
  BY <1>1 DEF new_task, Task

(* What tick_handler and rust_schedule_and_switch do to the slots. *)
LEMMA Saved ==
    ASSUME TypeOK
    PROVE  /\ Save \in Seq(Task) /\ Len(Save) = Len(tasks)
           /\ \A t \in 1..Len(tasks) :
                Save[t] = IF CURRENT_TASK # NULL /\ CURRENT_TASK.gen = gen
                             /\ t = CURRENT_TASK.slot
                          THEN [tasks[t] EXCEPT !.ctx = saved_context(cpu.ctx)]
                          ELSE tasks[t]
<1> DEFINE new == [current_task EXCEPT !.ctx = saved_context(cpu.ctx)]
<1>1. saved_context(cpu.ctx) \in Context
  BY ContextsTyped DEF TypeOK
<1>2. (CURRENT_TASK # NULL /\ CURRENT_TASK.gen = gen) => new \in Task
  BY <1>1, CurrentTask DEF Task
<1>3. CURRENT_TASK # NULL => new = [tasks[CURRENT_TASK.slot] EXCEPT !.ctx = saved_context(cpu.ctx)]
  BY DEF current_task
<1>4. Save = write_current(new)
  BY DEF Save
<1> HIDE DEF new
<1> QED
  BY <1>2, <1>3, <1>4, WriteCurrent, Zenon

LEMMA NextSlot ==
    ASSUME TypeOK
    PROVE  next_ready_task \in 1..Len(tasks)
<1>1. Len(tasks) \in Nat /\ Len(tasks) > 0 /\ current \in Nat
  BY TasksAssumption DEF TypeOK
<1>2. current % Len(tasks) \in 0..(Len(tasks) - 1)
  BY <1>1
<1> QED
  BY <1>1, <1>2 DEF next_ready_task
----------------------------------------------------------------------------
(* Init establishes the invariant. *)
LEMMA InitInv == Init => IndInv
<1> SUFFICES ASSUME Init PROVE IndInv
  OBVIOUS
<1>1. At("entry") \in Context /\ At("enabled") \in Context
  BY AtTyped DEF Points, BootPoints
<1>2. new_task(KernelTable) \in Task
  BY NewTaskTyped
<1>3. tasks \in Seq(Task) /\ Len(tasks) = InitialTasks
  BY <1>2, TasksAssumption DEF Init
<1>4. \A t \in 1..Len(tasks) : tasks[t].ctx = At("entry")
  BY <1>3, Zenon DEF Init, new_task
<1>5. TypeOK
  BY <1>1, <1>3, TasksAssumption DEF Init, TypeOK, KernelTable
<1>6. UnusedFresh
  BY DEF Init, UnusedFresh
<1>7. BootOwned /\ TaskOwned
  BY <1>3, <1>4, TasksAssumption DEF Init, BootOwned, TaskOwned, At, BootPoints
<1>8. WaitingReady
  BY <1>4 DEF WaitingReady, SlotReady, At, Points, Bundled, Mapped, Entered
<1>9. SlotsExact
  BY <1>3, <1>4, TasksAssumption DEF SlotsExact, Init, Slots
<1> QED
  BY <1>5, <1>6, <1>7, <1>8, <1>9 DEF IndInv, Orderly

(* A step that moves only the running code, within what its slot is ready for. *)
LEMMA MoveInv ==
    ASSUME IndInv, UNCHANGED tasks, Unmoved, running # 0,
           cpu' \in [ctx : Context, cr3 : {KernelTable} \cup Slots, stack : {0} \cup Slots],
           cpu'.stack = cpu.stack,
           mishaps = {} => /\ SlotReady(running, cpu'.ctx.pc)
                           /\ cpu'.ctx.pc \in Entered => cpu'.cr3 = running
    PROVE  IndInv'
<1>1. TypeOK'
  BY DEF IndInv, TypeOK, Unmoved
<1>2. UnusedFresh'
  BY DEF IndInv, UnusedFresh, Unmoved
<1>3. ASSUME mishaps = {} PROVE Orderly'
  <2>1. BootOwned'
    BY DEF BootOwned, Unmoved
  <2>2. TaskOwned'
    BY <1>3 DEF IndInv, Orderly, TaskOwned, Unmoved, pointer, SlotReady
  <2>3. WaitingReady' /\ SlotsExact'
    BY <1>3 DEF IndInv, Orderly, WaitingReady, SlotsExact, Unmoved, SlotReady
  <2> QED
    BY <2>1, <2>2, <2>3 DEF Orderly
<1> QED
  BY <1>1, <1>2, <1>3 DEF IndInv, Unmoved

LEMMA CpuTyped ==
    ASSUME TypeOK, NEW to \in Points \cup BootPoints
    PROVE  /\ [cpu EXCEPT !.ctx.pc = to, !.ctx.regs = to] \in
                  [ctx : Context, cr3 : {KernelTable} \cup Slots, stack : {0} \cup Slots]
           /\ [cpu EXCEPT !.ctx = At(to)] \in
                  [ctx : Context, cr3 : {KernelTable} \cup Slots, stack : {0} \cup Slots]
           /\ [cpu EXCEPT !.ctx.pc = to, !.ctx.regs = to].ctx.pc = to
           /\ [cpu EXCEPT !.ctx = At(to)].ctx.pc = to
<1>1. At(to) \in Context /\ At(to).pc = to
  BY AtTyped DEF At
<1>2. cpu \in [ctx : Context, cr3 : {KernelTable} \cup Slots, stack : {0} \cup Slots]
  BY DEF TypeOK
<1> QED
  BY <1>1, <1>2, Zenon DEF Context

(* What holds of the running task when Orderly does. *)
LEMMA RunningReady ==
    ASSUME IndInv, mishaps = {}, running # 0
    PROVE  /\ CURRENT_TASK = pointer(running) /\ CURRENT_TASK # NULL
           /\ CURRENT_TASK.slot = running /\ CURRENT_TASK.gen = gen
           /\ cpu.stack = running /\ running \in 1..Len(tasks) /\ running \in Slots
           /\ SlotReady(running, cpu.ctx.pc)
           /\ cpu.ctx.pc \in Entered => cpu.cr3 = running
<1>1. running \in 1..Len(tasks) /\ running \in Slots
  BY TasksAssumption DEF IndInv, TypeOK, Slots
<1>2. CURRENT_TASK = pointer(running)
  BY DEF IndInv, Orderly, TaskOwned
<1>3. gen \in Nat
  BY DEF IndInv, TypeOK
<1>4. pointer(running) # NULL
  BY <1>1, <1>3, TasksAssumption DEF pointer, Slots
<1> QED
  BY <1>1, <1>2, <1>4 DEF IndInv, Orderly, TaskOwned, pointer

LEMMA CreateTaskInv ==
    ASSUME IndInv, CreateTask
    PROVE  IndInv'
<1>1. PICK to \in {"creating", "created"} :
        cpu' = [cpu EXCEPT !.ctx.pc = to, !.ctx.regs = to]
  BY DEF CreateTask, Move
<1>2. running # 0 /\ Unmoved /\ UNCHANGED tasks
  BY DEF CreateTask, Move, Running
<1>3. TypeOK
  BY DEF IndInv
<1>4. to \in Points \cup BootPoints
  BY DEF Points
<1>5. /\ cpu' \in [ctx : Context, cr3 : {KernelTable} \cup Slots, stack : {0} \cup Slots]
      /\ cpu'.ctx.pc = to /\ cpu'.stack = cpu.stack /\ cpu'.cr3 = cpu.cr3
  BY <1>1, <1>3, <1>4, CpuTyped, Zenon DEF TypeOK
<1>6. SlotReady(running, to) /\ to \notin Entered
  BY DEF SlotReady, Points, Bundled, Mapped, Entered
<1> QED
  BY <1>2, <1>5, <1>6, MoveInv

LEMMA SystemCallInv ==
    ASSUME IndInv, SystemCall
    PROVE  IndInv'
<1>1. PICK to \in {"spawning", "stamping", "return", "user"} :
        cpu' = [cpu EXCEPT !.ctx.pc = to, !.ctx.regs = to]
  BY DEF SystemCall, Move
<1>2. running # 0 /\ Unmoved /\ UNCHANGED tasks /\ cpu.ctx.pc \in Entered
  BY DEF SystemCall, Move, Running, Entered
<1>3. TypeOK
  BY DEF IndInv
<1>4. to \in Points \cup BootPoints
  BY SMTT(60) DEF Points
<1>5. /\ cpu' \in [ctx : Context, cr3 : {KernelTable} \cup Slots, stack : {0} \cup Slots]
      /\ cpu'.ctx.pc = to /\ cpu'.stack = cpu.stack /\ cpu'.cr3 = cpu.cr3
  BY <1>1, <1>3, <1>4, CpuTyped, Zenon DEF TypeOK
<1>6. mishaps = {} => SlotReady(running, to) /\ cpu.cr3 = running
  BY <1>2, RunningReady DEF SlotReady, Points, Bundled, Mapped, Entered
<1> QED
  BY <1>2, <1>5, <1>6, MoveInv

LEMMA EnterKernelInv ==
    ASSUME IndInv, EnterKernel
    PROVE  IndInv'
<1>1. /\ cpu' = [cpu EXCEPT !.ctx = At("syscall")]
      /\ running # 0 /\ Unmoved /\ UNCHANGED tasks /\ cpu.ctx.pc \in Entered
  BY DEF EnterKernel, Running, Entered
<1>2. TypeOK
  BY SMTT(60) DEF IndInv
<1>3. /\ cpu' \in [ctx : Context, cr3 : {KernelTable} \cup Slots, stack : {0} \cup Slots]
      /\ cpu'.ctx.pc = "syscall" /\ cpu'.stack = cpu.stack /\ cpu'.cr3 = cpu.cr3
  BY <1>1, <1>2, CpuTyped, Zenon DEF TypeOK, Points
<1>4. mishaps = {} => SlotReady(running, "syscall") /\ cpu.cr3 = running
  BY <1>1, RunningReady DEF SlotReady, Points, Bundled, Mapped, Entered
<1> QED
  BY <1>1, <1>3, <1>4, MoveInv

LEMMA JumpInv ==
    ASSUME IndInv, jump_to_user
    PROVE  IndInv'
<1>1. /\ cpu' = [cpu EXCEPT !.ctx = At("user"), !.cr3 = running]
      /\ running # 0 /\ Unmoved /\ UNCHANGED tasks /\ cpu.ctx.pc = "mapped"
  BY DEF jump_to_user, Running
<1>2. running \in Slots
  BY <1>1, TasksAssumption DEF IndInv, TypeOK, Slots
<1>3. At("user") \in Context /\ At("user").pc = "user"
  BY AtTyped DEF Points, At
<1>4. /\ cpu' \in [ctx : Context, cr3 : {KernelTable} \cup Slots, stack : {0} \cup Slots]
      /\ cpu'.ctx.pc = "user" /\ cpu'.stack = cpu.stack /\ cpu'.cr3 = running
  BY <1>1, <1>2, <1>3, Zenon DEF IndInv, TypeOK
<1>5. mishaps = {} => SlotReady(running, "user")
  BY <1>1, RunningReady DEF SlotReady, Points, Bundled, Mapped, Entered
<1> QED
  BY <1>1, <1>4, <1>5, MoveInv

(* A step of the running task that writes its bundle or page table through
   CURRENT_TASK: unless the write is lost, its own slot is ready for the next
   point and the others are as they were. *)
LEMMA WriteInv ==
    ASSUME IndInv, NEW task, NEW to \in {"bundled", "mapped"},
           running # 0, Unmoved,
           (CURRENT_TASK # NULL /\ CURRENT_TASK.gen = gen) => task \in Task,
           tasks' = write_current(task),
           cpu' = [cpu EXCEPT !.ctx.pc = to, !.ctx.regs = to],
           mishaps = {} => /\ task.bundle = running
                           /\ to = "mapped" => task.cr3 = running
    PROVE  IndInv'
<1>1. TypeOK
  BY DEF IndInv
<1>2. /\ tasks' \in Seq(Task) /\ Len(tasks') = Len(tasks)
      /\ \A t \in 1..Len(tasks) :
           tasks'[t] = IF CURRENT_TASK # NULL /\ CURRENT_TASK.gen = gen
                          /\ t = CURRENT_TASK.slot
                       THEN task ELSE tasks[t]
  BY <1>1, WriteCurrent
<1>3. to \in Points \cup BootPoints
  BY DEF Points
<1>4. /\ cpu' \in [ctx : Context, cr3 : {KernelTable} \cup Slots, stack : {0} \cup Slots]
      /\ cpu'.ctx.pc = to /\ cpu'.stack = cpu.stack
  BY <1>1, <1>3, CpuTyped, Zenon DEF TypeOK
<1>5. TypeOK'
  BY <1>1, <1>2, <1>4 DEF TypeOK, Unmoved
<1>6. UnusedFresh'
  BY <1>2 DEF IndInv, UnusedFresh, Unmoved
<1>7. ASSUME mishaps = {} PROVE Orderly'
  <2>1. tasks'[running] = task
    BY <1>2, <1>7, RunningReady
  <2>2. \A t \in 1..Len(tasks) : t # running => tasks'[t] = tasks[t]
    BY <1>2, <1>7, RunningReady
  <2>3. BootOwned'
    BY DEF BootOwned, Unmoved
  <2>4. TaskOwned'
    <3>1. CURRENT_TASK' = pointer(running)' /\ cpu'.stack = running'
      BY <1>4, <1>7, RunningReady DEF Unmoved, pointer
    <3>2. SlotReady(running, cpu.ctx.pc)' /\ cpu'.ctx.pc \notin Entered
      BY <1>4, <1>7, <2>1 DEF SlotReady, Unmoved, Points, Bundled, Mapped, Entered
    <3> QED
      BY <3>1, <3>2 DEF TaskOwned
  <2>5. WaitingReady' /\ SlotsExact'
    BY <1>2, <1>7, <2>2 DEF IndInv, Orderly, WaitingReady, SlotsExact, Unmoved, SlotReady
  <2> QED
    BY <2>3, <2>4, <2>5 DEF Orderly
<1> QED
  BY <1>5, <1>6, <1>7 DEF IndInv, Unmoved

LEMMA AssignInv ==
    ASSUME IndInv, assign_current_bundle
    PROVE  IndInv'
<1> DEFINE new == [current_task EXCEPT !.bundle = running]
<1>1. running # 0 /\ Unmoved /\ tasks' = write_current(new)
      /\ cpu' = [cpu EXCEPT !.ctx.pc = "bundled", !.ctx.regs = "bundled"]
  BY DEF assign_current_bundle, Move, Running
<1>2. running \in Slots
  BY <1>1, TasksAssumption DEF IndInv, TypeOK, Slots
<1>3. CURRENT_TASK # NULL => new \in Task /\ new.bundle = running
  BY <1>2, CurrentTask DEF IndInv, Task
<1>4. mishaps = {} => CURRENT_TASK # NULL
  BY <1>1, RunningReady
<1> HIDE DEF new
<1> QED
  BY <1>1, <1>3, <1>4, WriteInv

LEMMA SetCr3Inv ==
    ASSUME IndInv, set_current_cr3
    PROVE  IndInv'
<1> DEFINE new == [current_task EXCEPT !.cr3 = running]
<1>1. running # 0 /\ Unmoved /\ tasks' = write_current(new) /\ cpu.ctx.pc = "bundled"
      /\ cpu' = [cpu EXCEPT !.ctx.pc = "mapped", !.ctx.regs = "mapped"]
  BY DEF set_current_cr3, Move, Running
<1>2. running \in Slots
  BY <1>1, TasksAssumption DEF IndInv, TypeOK, Slots
<1>3. CURRENT_TASK # NULL =>
        new \in Task /\ new.cr3 = running /\ new.bundle = current_task.bundle
  BY <1>2, CurrentTask DEF IndInv, Task
<1>4. mishaps = {} => CURRENT_TASK # NULL /\ current_task.bundle = running
  BY <1>1, RunningReady DEF SlotReady, Bundled, current_task
<1> HIDE DEF new
<1> QED
  BY <1>1, <1>3, <1>4, WriteInv

LEMMA SpawnInv ==
    ASSUME IndInv, spawn
    PROVE  IndInv'
<1> DEFINE new == new_task(cpu.cr3)
<1>1. /\ running # 0 /\ tasks' = Append(tasks, new) /\ cpu.ctx.pc = "spawning"
      /\ cpu' = [cpu EXCEPT !.ctx.pc = "return", !.ctx.regs = "return"]
      /\ UNCHANGED <<current, CURRENT_TASK, running, status, stopped>>
      /\ Len(tasks) < MaxTasks
  BY DEF spawn, Move, Running
<1>2. TypeOK
  BY DEF IndInv
<1>3. new \in Task /\ new.ctx = At("entry")
  BY <1>2, NewTaskTyped DEF TypeOK, new_task
<1> HIDE DEF new
<1>4. /\ tasks' \in Seq(Task) /\ Len(tasks') = Len(tasks) + 1
      /\ \A t \in 1..Len(tasks) : tasks'[t] = tasks[t]
      /\ tasks'[Len(tasks) + 1] = new
  BY <1>1, <1>2, <1>3, SMTT(60) DEF TypeOK
<1>5. /\ cpu' \in [ctx : Context, cr3 : {KernelTable} \cup Slots, stack : {0} \cup Slots]
      /\ cpu'.ctx.pc = "return" /\ cpu'.stack = cpu.stack /\ cpu'.cr3 = cpu.cr3
  BY <1>1, <1>2, CpuTyped, Zenon DEF TypeOK, Points
<1>6. /\ capacity' \in Nat /\ gen' \in Nat /\ gen <= gen' /\ Len(tasks) + 1 <= capacity'
      /\ mishaps' \subseteq {"boot", "realloc"}
      /\ mishaps' = {} => mishaps = {} /\ gen' = gen
  <2>1. Len(tasks) \in Nat /\ Len(tasks) > 0 /\ capacity \in Nat /\ gen \in Nat
        /\ Len(tasks) <= capacity
    BY <1>2, TasksAssumption DEF TypeOK
  <2>2. mishaps \subseteq {"boot", "realloc"}
    BY <1>2 DEF TypeOK
  <2>3. CASE Len(tasks) = capacity
    <3>1. capacity' = 2 * capacity /\ gen' = gen + 1 /\ mishaps' = mishaps \cup {"realloc"}
      BY <2>3 DEF spawn
    <3>2. mishaps' \subseteq {"boot", "realloc"} /\ mishaps' # {}
      BY <2>2, <3>1
    <3> QED
      BY <2>1, <2>3, <3>1, <3>2
  <2>4. CASE Len(tasks) # capacity
    <3>1. UNCHANGED <<capacity, gen, mishaps>>
      BY <2>4 DEF spawn
    <3> QED
      BY <2>1, <2>2, <2>4, <3>1
  <2> QED
    BY <2>3, <2>4
<1>7. TypeOK'
  <2>1. CURRENT_TASK \in {NULL} \cup [gen : 0..gen', slot : 1..Len(tasks')]
    BY <1>2, <1>4, <1>6 DEF TypeOK
  <2>2. /\ Len(tasks') \in InitialTasks..MaxTasks
        /\ current \in 1..Len(tasks') /\ running \in 0..Len(tasks')
    BY <1>1, <1>2, <1>4, TasksAssumption DEF TypeOK
  <2> QED
    BY <1>1, <1>2, <1>4, <1>5, <1>6, <2>1, <2>2 DEF TypeOK
<1>8. UnusedFresh'
  BY <1>1, <1>2, <1>4, TasksAssumption DEF IndInv, UnusedFresh, TypeOK, Slots
<1>9. ASSUME mishaps' = {} PROVE Orderly'
  <2>1. mishaps = {} /\ gen' = gen
    BY <1>6, <1>9
  <2>2. BootOwned'
    BY <1>1 DEF BootOwned
  <2>3. TaskOwned'
    <3>1. CURRENT_TASK' = pointer(running)' /\ cpu'.stack = running' /\ cpu'.cr3 = running'
      BY <1>1, <1>5, <2>1, RunningReady DEF pointer, Entered
    <3>2. tasks'[running] = tasks[running] /\ SlotReady(running, "spawning")
      BY <1>1, <1>4, <2>1, RunningReady
    <3>3. SlotReady(running, cpu.ctx.pc)'
      BY <1>1, <1>5, <3>2 DEF SlotReady, Points, Bundled, Mapped, Entered
    <3> QED
      BY <3>1, <3>3 DEF TaskOwned
  <2>4. ASSUME NEW t \in 1..Len(tasks'), t # running'
        PROVE  t \in 1..Len(tasks) \/ SlotReady(t, tasks[t].ctx.pc)'
    <3>1. t \in 1..Len(tasks) \/ t = Len(tasks) + 1
      BY <1>2, <1>4, SMTT(60) DEF TypeOK
    <3>2. t = Len(tasks) + 1 => tasks'[t].ctx.pc = "entry"
      BY <1>3, <1>4 DEF At
    <3>3. tasks'[t].ctx.pc = "entry" => SlotReady(t, tasks[t].ctx.pc)'
      BY DEF SlotReady, Points, Bundled, Mapped, Entered
    <3> QED
      BY <3>1, <3>2, <3>3
  <2>5. WaitingReady'
    <3>1. \A t \in 1..Len(tasks) : t # running' => SlotReady(t, tasks[t].ctx.pc)'
      BY <1>1, <1>4, <2>1 DEF IndInv, Orderly, WaitingReady, SlotReady
    <3> QED
      BY <2>4, <3>1 DEF WaitingReady
  <2>6. SlotsExact'
    <3>1. \A t \in 1..Len(tasks) : t # running' =>
            \/ tasks'[t].ctx = stopped'[t]
            \/ ~IsUser(stopped'[t]) /\ tasks'[t].ctx = [stopped'[t] EXCEPT !.sp = "low"]
      BY <1>1, <1>4, <2>1 DEF IndInv, Orderly, SlotsExact
    <3>2. tasks'[Len(tasks) + 1].ctx = stopped'[Len(tasks) + 1]
      BY <1>1, <1>2, <1>3, <1>4, TasksAssumption DEF IndInv, UnusedFresh, TypeOK, Slots
    <3>3. \A t \in 1..Len(tasks') : t \in 1..Len(tasks) \/ t = Len(tasks) + 1
      BY <1>2, <1>4 DEF TypeOK
    <3> QED
      BY <3>1, <3>2, <3>3 DEF SlotsExact
  <2> QED
    BY <2>2, <2>3, <2>5, <2>6 DEF Orderly
<1> QED
  BY <1>7, <1>8, <1>9 DEF IndInv

(* While CURRENT_TASK belongs to what runs, a tick's save changes the context
   of the running slot and nothing else. *)
LEMMA SavedSlots ==
    ASSUME IndInv, mishaps = {}, running = 0 => CURRENT_TASK = NULL
    PROVE  /\ \A t \in 1..Len(tasks) : t # running => Save[t] = tasks[t]
           /\ running # 0 =>
                /\ Save[running].ctx = saved_context(cpu.ctx)
                /\ Save[running].bundle = tasks[running].bundle
                /\ Save[running].cr3 = tasks[running].cr3
<1>1. TypeOK
  BY DEF IndInv
<1>2. \A t \in 1..Len(tasks) : t # running => Save[t] = tasks[t]
  <2>1. CASE running = 0
    BY <1>1, <2>1, Saved
  <2>2. CASE running # 0
    BY <1>1, <2>2, Saved, RunningReady, Zenon
  <2> QED
    BY <2>1, <2>2
<1>3. ASSUME running # 0
      PROVE  /\ Save[running].ctx = saved_context(cpu.ctx)
             /\ Save[running].bundle = tasks[running].bundle
             /\ Save[running].cr3 = tasks[running].cr3
  <2>1. running \in 1..Len(tasks) /\ tasks[running] \in Task
    BY <1>1, <1>3, RunningReady DEF TypeOK
  <2>2. Save[running] = [tasks[running] EXCEPT !.ctx = saved_context(cpu.ctx)]
    BY <1>1, <1>3, <2>1, Saved, RunningReady
  <2> QED
    BY <2>1, <2>2 DEF Task
<1> QED
  BY <1>2, <1>3

LEMMA TickInv ==
    ASSUME IndInv, Tick
    PROVE  IndInv'
<1> DEFINE next == next_ready_task
<1>1. TypeOK
  BY DEF IndInv
<1>2. next \in 1..Len(tasks) /\ next \in Slots /\ next # 0
  BY <1>1, NextSlot, TasksAssumption DEF TypeOK, Slots
<1>3. /\ Save \in Seq(Task) /\ Len(Save) = Len(tasks)
  BY <1>1, Saved
<1>4. /\ tasks' = Save /\ current' = next /\ running' = next
      /\ CURRENT_TASK' = pointer(next)
      /\ cpu' = [ctx |-> restore_context(Save[next].ctx), cr3 |-> Save[next].cr3,
                 stack |-> next]
      /\ stopped' = IF running = 0 THEN stopped ELSE [stopped EXCEPT ![running] = cpu.ctx]
      /\ mishaps' = mishaps \cup NewMishaps
      /\ UNCHANGED <<capacity, gen, status>>
  BY DEF Tick, Switch
<1> HIDE DEF next
<1>5. Save[next] \in Task /\ Save[next].ctx \in Context
  <2>1. Save[next] \in Task
    BY <1>2, <1>3, ElementOfSeq
  <2> QED
    BY <2>1 DEF Task
<1>6. /\ restore_context(Save[next].ctx) \in Context
      /\ restore_context(Save[next].ctx).pc = Save[next].ctx.pc
  BY <1>5, ContextsTyped DEF restore_context, Context
<1>7. TypeOK'
  <2>1. stopped' \in [Slots -> Context]
    BY <1>1, <1>4, Zenon DEF TypeOK
  <2>2. cpu' \in [ctx : Context, cr3 : {KernelTable} \cup Slots, stack : {0} \cup Slots]
    BY <1>2, <1>4, <1>5, <1>6 DEF Task
  <2>3. CURRENT_TASK' \in [gen : 0..gen', slot : 1..Len(tasks')]
    BY <1>1, <1>2, <1>3, <1>4 DEF TypeOK, pointer
  <2>4. mishaps' \subseteq {"boot", "realloc"}
    BY <1>1, <1>4 DEF TypeOK, NewMishaps
  <2> QED
    BY <1>1, <1>2, <1>3, <1>4, <2>1, <2>2, <2>3, <2>4 DEF TypeOK
<1>8. UnusedFresh'
  BY <1>1, <1>3, <1>4 DEF IndInv, UnusedFresh, TypeOK
<1>9. ASSUME mishaps' = {} PROVE Orderly'
  <2>1. mishaps = {} /\ (running = 0 => CURRENT_TASK = NULL)
    BY <1>4, <1>9 DEF NewMishaps
  <2>2. /\ \A t \in 1..Len(tasks) : t # running => Save[t] = tasks[t]
        /\ running # 0 =>
             /\ Save[running].ctx = saved_context(cpu.ctx)
             /\ Save[running].bundle = tasks[running].bundle
             /\ Save[running].cr3 = tasks[running].cr3
    BY <2>1, SavedSlots
  <2>3. saved_context(cpu.ctx).pc = cpu.ctx.pc
    BY <1>1 DEF TypeOK, saved_context, Context
  <2>4. ASSUME NEW t \in 1..Len(tasks)
        PROVE  SlotReady(t, tasks[t].ctx.pc)'
    <3>1. CASE t # running
      BY <1>4, <2>1, <2>2, <3>1 DEF IndInv, Orderly, WaitingReady, SlotReady
    <3>2. CASE t = running
      <4>1. running # 0 /\ SlotReady(running, cpu.ctx.pc)
        BY <1>1, <2>1, <3>2, RunningReady
      <4> QED
        BY <1>4, <2>2, <2>3, <3>2, <4>1 DEF SlotReady
    <3> QED
      BY <3>1, <3>2
  <2>5. BootOwned'
    BY <1>2, <1>4 DEF BootOwned
  <2>6. TaskOwned'
    <3>1. SlotReady(running, cpu.ctx.pc)'
      BY <1>2, <1>4, <1>6, <2>4
    <3>2. cpu'.ctx.pc \in Entered => cpu'.cr3 = next
      BY <1>4, <3>1 DEF SlotReady, Mapped
    <3> QED
      BY <1>4, <3>1, <3>2 DEF TaskOwned, pointer
  <2>7. WaitingReady'
    BY <1>3, <1>4, <2>4 DEF WaitingReady
  <2>8. SlotsExact'
    <3> SUFFICES ASSUME NEW t \in 1..Len(tasks'), t # running'
                 PROVE  \/ tasks'[t].ctx = stopped'[t]
                        \/ /\ ~IsUser(stopped'[t])
                           /\ tasks'[t].ctx = [stopped'[t] EXCEPT !.sp = "low"]
      BY DEF SlotsExact
    <3>1. t \in 1..Len(tasks) /\ t \in Slots
      BY <1>1, <1>3, <1>4, TasksAssumption DEF TypeOK, Slots
    <3>2. CASE t # running
      <4>1. tasks'[t] = tasks[t] /\ stopped'[t] = stopped[t]
        BY <1>1, <1>4, <2>2, <3>1, <3>2 DEF TypeOK
      <4> QED
        BY <2>1, <3>1, <3>2, <4>1 DEF IndInv, Orderly, SlotsExact
    <3>3. CASE t = running
      <4>1. tasks'[t].ctx = saved_context(cpu.ctx) /\ stopped'[t] = cpu.ctx
        BY <1>1, <1>4, <2>2, <3>1, <3>3 DEF TypeOK
      <4> QED
        BY <4>1 DEF saved_context
    <3> QED
      BY <3>2, <3>3
  <2> QED
    BY <2>5, <2>6, <2>7, <2>8 DEF Orderly
<1> QED
  BY <1>7, <1>8, <1>9 DEF IndInv

LEMMA TickHangsInv ==
    ASSUME IndInv, TickHangs
    PROVE  IndInv'
<1>1. TypeOK
  BY DEF IndInv
<1>2. /\ tasks' = Save /\ status' = "hung" /\ cpu.ctx.pc \in LockPoints
      /\ UNCHANGED <<capacity, gen, current, CURRENT_TASK, cpu, running, stopped, mishaps>>
  BY DEF TickHangs
<1>3. Save \in Seq(Task) /\ Len(Save) = Len(tasks)
  BY <1>1, Saved
<1>4. TypeOK'
  BY <1>1, <1>2, <1>3 DEF TypeOK
<1>5. UnusedFresh'
  BY <1>2, <1>3 DEF IndInv, UnusedFresh
<1>6. ASSUME mishaps = {} PROVE Orderly'
  <2>1. running = 0 => CURRENT_TASK = NULL
    BY <1>2, <1>6 DEF IndInv, Orderly, BootOwned, LockPoints
  <2>2. /\ \A t \in 1..Len(tasks) : t # running => Save[t] = tasks[t]
        /\ running # 0 => /\ Save[running].bundle = tasks[running].bundle
                          /\ Save[running].cr3 = tasks[running].cr3
    BY <1>6, <2>1, SavedSlots
  <2>3. BootOwned'
    <3>1. 1 \in 1..Len(tasks)
      BY <1>1, TasksAssumption DEF TypeOK
    <3> QED
      BY <1>2, <1>6, <2>2, <3>1 DEF IndInv, Orderly, BootOwned, pointer
  <2>4. TaskOwned'
    BY <1>2, <1>6, <2>2 DEF IndInv, Orderly, TaskOwned, pointer, SlotReady
  <2>5. WaitingReady' /\ SlotsExact'
    BY <1>2, <1>3, <1>6, <2>2 DEF IndInv, Orderly, WaitingReady, SlotsExact, SlotReady
  <2> QED
    BY <2>3, <2>4, <2>5 DEF Orderly
<1> QED
  BY <1>2, <1>4, <1>5, <1>6 DEF IndInv

(* A step that at most stops the machine. *)
LEMMA StopInv ==
    ASSUME IndInv, status' \in {"ok", "hung", "panicked"},
           UNCHANGED <<tasks, capacity, gen, current, CURRENT_TASK, cpu, running,
                       stopped, mishaps>>
    PROVE  IndInv'
<1>1. TypeOK' /\ UnusedFresh'
  BY DEF IndInv, TypeOK, UnusedFresh
<1>2. mishaps = {} => Orderly'
  BY DEF IndInv, Orderly, BootOwned, TaskOwned, WaitingReady, SlotsExact, SlotReady, pointer
<1> QED
  BY <1>1, <1>2 DEF IndInv

LEMMA BootStepInv ==
    ASSUME IndInv, StartFirstLock \/ StartFirstChoose
    PROVE  IndInv'
<1>1. TypeOK
  BY DEF IndInv
<1>2. PICK to \in {"locked", "chosen"} :
        /\ cpu' = [cpu EXCEPT !.ctx = At(to)]
        /\ running = 0 /\ cpu.ctx.pc \in {"enabled", "locked"}
        /\ UNCHANGED <<tasks, capacity, gen, current, running, status, stopped, mishaps>>
        /\ to = "locked" => CURRENT_TASK' = CURRENT_TASK
        /\ to = "chosen" => CURRENT_TASK' = pointer(1)
  BY DEF StartFirstLock, StartFirstChoose, BootStep
<1>3. to \in Points \cup BootPoints
  BY SMTT(60) DEF BootPoints
<1>4. /\ cpu' \in [ctx : Context, cr3 : {KernelTable} \cup Slots, stack : {0} \cup Slots]
      /\ cpu'.ctx.pc = to
  BY <1>1, <1>2, <1>3, CpuTyped, Zenon
<1>5. 1 \in 1..Len(tasks) /\ gen \in Nat
  BY <1>1, TasksAssumption DEF TypeOK
<1>6. CURRENT_TASK' \in {NULL} \cup [gen : 0..gen', slot : 1..Len(tasks')]
  BY <1>1, <1>2, <1>5 DEF TypeOK, pointer
<1>7. TypeOK' /\ UnusedFresh'
  BY <1>1, <1>2, <1>4, <1>6 DEF TypeOK, IndInv, UnusedFresh
<1>8. ASSUME mishaps = {} PROVE Orderly'
  <2>1. BootOwned'
    BY <1>2, <1>4, <1>8 DEF IndInv, Orderly, BootOwned, BootPoints, pointer
  <2>2. TaskOwned'
    BY <1>2 DEF TaskOwned
  <2>3. WaitingReady' /\ SlotsExact'
    BY <1>2, <1>8 DEF IndInv, Orderly, WaitingReady, SlotsExact, SlotReady
  <2> QED
    BY <2>1, <2>2, <2>3 DEF Orderly
<1> QED
  BY <1>2, <1>7, <1>8 DEF IndInv

LEMMA StartFirstInv ==
    ASSUME IndInv, StartFirstRestore
    PROVE  IndInv'
<1>1. TypeOK
  BY DEF IndInv
<1>2. /\ cpu' = [cpu EXCEPT !.ctx = restore_context(tasks[1].ctx), !.stack = 1]
      /\ running = 0 /\ cpu.ctx.pc = "chosen" /\ running' = 1
      /\ UNCHANGED <<tasks, capacity, gen, current, CURRENT_TASK, status, stopped, mishaps>>
  BY DEF StartFirstRestore
<1>3. 1 \in 1..Len(tasks) /\ 1 \in Slots /\ tasks[1].ctx \in Context
  <2>1. 1 \in 1..Len(tasks) /\ 1 \in Slots
    BY <1>1, TasksAssumption DEF TypeOK, Slots
  <2>2. tasks[1] \in Task
    BY <1>1, <2>1 DEF TypeOK
  <2> QED
    BY <2>1, <2>2 DEF Task
<1>4. /\ restore_context(tasks[1].ctx) \in Context
      /\ restore_context(tasks[1].ctx).pc = tasks[1].ctx.pc
  BY <1>3, ContextsTyped DEF restore_context, Context
<1>5. /\ cpu' \in [ctx : Context, cr3 : {KernelTable} \cup Slots, stack : {0} \cup Slots]
      /\ cpu'.ctx.pc = tasks[1].ctx.pc /\ cpu'.stack = 1
  BY <1>1, <1>2, <1>3, <1>4, Zenon DEF TypeOK
<1>6. TypeOK' /\ UnusedFresh'
  BY <1>1, <1>2, <1>3, <1>5 DEF TypeOK, IndInv, UnusedFresh
<1>7. ASSUME mishaps = {} PROVE Orderly'
  <2>1. CURRENT_TASK = pointer(1) /\ tasks[1].ctx.pc = "entry"
    BY <1>2, <1>7 DEF IndInv, Orderly, BootOwned
  <2>2. BootOwned'
    BY <1>2 DEF BootOwned
  <2>3. TaskOwned'
    BY <1>2, <1>5, <2>1
    DEF TaskOwned, SlotReady, pointer, Points, Bundled, Mapped, Entered
  <2>4. WaitingReady' /\ SlotsExact'
    BY <1>2, <1>7, TasksAssumption DEF IndInv, Orderly, WaitingReady, SlotsExact, SlotReady
  <2> QED
    BY <2>2, <2>3, <2>4 DEF Orderly
<1> QED
  BY <1>2, <1>6, <1>7 DEF IndInv

(* Every action preserves the invariant. *)
LEMMA NextInv == IndInv /\ [Next]_vars => IndInv'
<1> SUFFICES ASSUME IndInv, [Next]_vars PROVE IndInv'
  OBVIOUS
<1>1. CASE Tick
  BY <1>1, TickInv
<1>2. CASE TickHangs
  BY <1>2, TickHangsInv
<1>3. CASE TickPanics \/ Fault
  BY <1>3, StopInv DEF TickPanics, Fault
<1>4. CASE StartFirstLock \/ StartFirstChoose
  BY <1>4, BootStepInv
<1>5. CASE StartFirstRestore
  BY <1>5, StartFirstInv
<1>6. CASE CreateTask
  BY <1>6, CreateTaskInv
<1>7. CASE assign_current_bundle
  BY <1>7, AssignInv
<1>8. CASE set_current_cr3
  BY <1>8, SetCr3Inv
<1>9. CASE jump_to_user
  BY <1>9, JumpInv
<1>10. CASE EnterKernel
  BY <1>10, EnterKernelInv
<1>11. CASE SystemCall
  BY <1>11, SystemCallInv
<1>12. CASE spawn
  BY <1>12, SpawnInv
<1>13. CASE UNCHANGED vars
  <2>1. status' \in {"ok", "hung", "panicked"}
    BY <1>13 DEF vars, IndInv, TypeOK
  <2> QED
    BY <1>13, <2>1, StopInv DEF vars
<1> QED
  BY <1>1, <1>2, <1>3, <1>4, <1>5, <1>6, <1>7, <1>8, <1>9, <1>10, <1>11, <1>12, <1>13
  DEF Next

LEMMA Invariance == Spec => []IndInv
BY InitInv, NextInv, PTL DEF Spec
----------------------------------------------------------------------------
(* Scheduler's state is well typed whatever the number of tasks: `current' and
   CURRENT_TASK always name a slot the Vec holds (next_ready_task). *)
THEOREM SchedulerTypeCorrect == Spec => []TypeOK
<1>1. IndInv => TypeOK
  BY DEF IndInv
<1> QED
  BY <1>1, Invariance, PTL

(* For any number of tasks, and but for the two mishaps, each slot that waits
   holds the context it was stopped with (rust_schedule_and_switch, spawn). *)
THEOREM ContextsAreSaved == Spec => []SavedContexts
<1>1. IndInv => SavedContexts
  BY DEF IndInv, Orderly, SavedContexts
<1> QED
  BY <1>1, Invariance, PTL

(* For any number of tasks user code runs with its own page table, kernel stack
   and bundle, and CURRENT_TASK is its slot (start_user_task, the tick). *)
THEOREM UserCodeIsItself == Spec => []UserRunsAsItself
<1>1. IndInv => UserRunsAsItself
  <2> SUFFICES ASSUME IndInv, mishaps = {}, cpu.ctx.pc = "user"
               PROVE  /\ cpu.cr3 = running /\ cpu.stack = running
                      /\ CURRENT_TASK = pointer(running)
                      /\ tasks[running].bundle = running
    BY DEF UserRunsAsItself, IsUser
  <2>1. running # 0
    BY DEF IndInv, Orderly, BootOwned, BootPoints
  <2> QED
    BY <2>1, RunningReady DEF SlotReady, Bundled, Mapped, Entered
<1> QED
  BY <1>1, Invariance, PTL

(* For any number of tasks a task that gets the CPU goes on where it was stopped,
   and user code with every register (tick_handler.S, restore_context.S). *)
THEOREM TasksResume == Spec => ResumedWhereStopped
<1> DEFINE Resumes == (running' # running /\ mishaps' = {}) =>
                        /\ cpu'.ctx.pc = stopped[running'].pc
                        /\ IsUser(cpu'.ctx) => cpu'.ctx = stopped[running']
<1>1. IndInv /\ [Next]_vars => [Resumes]_vars
  <2> SUFFICES ASSUME IndInv, Next, running' # running, mishaps' = {}
               PROVE  /\ cpu'.ctx.pc = stopped[running'].pc
                      /\ IsUser(cpu'.ctx) => cpu'.ctx = stopped[running']
    OBVIOUS
  <2>1. PICK c : /\ running' \in 1..Len(tasks) /\ mishaps = {}
                 /\ c = tasks[running'].ctx /\ cpu'.ctx = restore_context(c)
    <3>1. CASE Tick
      <4>1. TypeOK
        BY DEF IndInv
      <4>2. mishaps = {} /\ (running = 0 => CURRENT_TASK = NULL)
        BY <3>1 DEF Tick, Switch, NewMishaps
      <4>3. running' = next_ready_task /\ running' \in 1..Len(tasks)
        BY <3>1, <4>1, NextSlot DEF Tick, Switch
      <4>4. cpu'.ctx = restore_context(Save[running'].ctx)
        BY <3>1 DEF Tick, Switch
      <4>5. Save[running'] = tasks[running']
        BY <4>2, <4>3, SavedSlots
      <4> QED
        BY <4>2, <4>3, <4>4, <4>5
    <3>2. CASE StartFirstRestore
      <4>1. 1 \in 1..Len(tasks)
        BY TasksAssumption DEF IndInv, TypeOK
      <4>2. cpu'.ctx = restore_context(tasks[1].ctx)
        BY <3>2 DEF StartFirstRestore, IndInv, TypeOK
      <4> QED
        BY <3>2, <4>1, <4>2 DEF StartFirstRestore
    <3>3. CASE Next /\ ~Tick /\ ~StartFirstRestore
      <4>1. running' = running
        BY <3>3 DEF Next, TickHangs, TickPanics, StartFirstLock, StartFirstChoose, BootStep,
           CreateTask, assign_current_bundle, set_current_cr3, jump_to_user, EnterKernel,
           SystemCall, spawn, Fault, Unmoved
      <4> QED
        BY <4>1, SMTT(60)
    <3> QED
      BY <3>1, <3>2, <3>3
  <2>2. \/ c = stopped[running']
        \/ ~IsUser(stopped[running']) /\ c = [stopped[running'] EXCEPT !.sp = "low"]
    BY <2>1 DEF IndInv, Orderly, SlotsExact
  <2>3. stopped[running'] \in Context
    BY <2>1, TasksAssumption DEF IndInv, TypeOK, Slots
  <2>4. c \in Context /\ c.pc = stopped[running'].pc
    BY <2>2, <2>3 DEF Context
  <2>5. cpu'.ctx.pc = c.pc
    BY <2>1, <2>4 DEF restore_context, Context
  <2>6. IsUser(cpu'.ctx) => cpu'.ctx = c /\ c = stopped[running']
    BY <2>1, <2>2, <2>4, <2>5 DEF restore_context, IsUser
  <2> QED
    BY <2>4, <2>5, <2>6
<1> QED
  BY <1>1, Invariance, PTL DEF Spec, ResumedWhereStopped
============================================================================
