------------------------------ MODULE Launcher ------------------------------
(***************************************************************************)
(* How boot modules become running tasks: kernel/src/task/launcher.rs with *)
(* spawn_kernel of runtime.rs.  A spawn appends a module to USER_MODULES   *)
(* and then spawns a task; the task that starts takes whatever module      *)
(* NEXT_USER_MODULE counts to, not the one it was spawned for.  Loading    *)
(* and spawning both need the two locks of the runtime system, the frame   *)
(* allocator's and the mapper's.  Tasks are preempted between any steps,   *)
(* so they interleave; a task that wants a lock spins.                     *)
(***************************************************************************)
EXTENDS Naturals, Sequences, FiniteSets

CONSTANTS
    Tasks,          \* task slots, at least as many as there are modules
    BootTasks,      \* the tasks spawned at boot, one for each boot module
    MaxModules,     \* bound: modules over a run
    Kinds,          \* what a spawned module may be
    NoTask

ASSUME LauncherAssumption ==
    /\ IsFiniteSet(Tasks) /\ BootTasks \subseteq Tasks /\ BootTasks # {}
    /\ MaxModules \in Nat /\ MaxModules <= Cardinality(Tasks)
    /\ Kinds \subseteq {"good", "empty", "bad"} /\ "good" \in Kinds
    /\ NoTask \notin Tasks

VARIABLES
    USER_MODULES,       \* the kind of each module: a good ELF, no bytes, a bad ELF
    NEXT_USER_MODULE,   \* how many modules have been taken
    frame_allocator, mapper,    \* the holders of the locks
    pc,                 \* where each task is
    module              \* history: the module a task has taken, 0 for none

vars == <<USER_MODULES, NEXT_USER_MODULE, frame_allocator, mapper, pc, module>>

Points == {"unborn", "entry", "chosen", "frames", "loading", "user",
           "pushed", "mapper", "spawning", "halted", "panicked"}

(* init_user_modules takes only what starts like an ELF file; init_user_tasks *)
(* spawns a task for each.                                                    *)
Init ==
    /\ USER_MODULES \in [1..Cardinality(BootTasks) -> Kinds \ {"empty"}]
    /\ NEXT_USER_MODULE = 0
    /\ frame_allocator = NoTask /\ mapper = NoTask
    /\ pc = [t \in Tasks |-> IF t \in BootTasks THEN "entry" ELSE "unborn"]
    /\ module = [t \in Tasks |-> 0]

Go(t, from, to) == pc[t] = from /\ pc' = [pc EXCEPT ![t] = to]
locks == <<frame_allocator, mapper>>
modules == <<USER_MODULES, NEXT_USER_MODULE, module>>
----------------------------------------------------------------------------
(* start_user_task *)

(* next_user_module and the loop around it: an empty module is skipped, and a *)
(* task that finds none halts.  The counter is advanced either way.           *)
next_user_module_reread(t) ==
    LET idx == NEXT_USER_MODULE + 1
    IN  /\ pc[t] = "entry" /\ idx <= Len(USER_MODULES)
        /\ pc' = [pc EXCEPT ![t] = "chosen"] /\ module' = [module EXCEPT ![t] = idx]
        /\ UNCHANGED <<USER_MODULES, NEXT_USER_MODULE, locks>>

next_user_module_twice(t) ==
    LET idx == NEXT_USER_MODULE + 1
    IN  /\ pc[t] = "entry" /\ idx <= Len(USER_MODULES)
        /\ NEXT_USER_MODULE' = idx + 1
        /\ pc' = [pc EXCEPT ![t] = "chosen"] /\ module' = [module EXCEPT ![t] = idx]
        /\ UNCHANGED <<USER_MODULES, locks>>

next_user_module(t) ==
    LET idx == NEXT_USER_MODULE + 1
    IN  /\ pc[t] = "entry"
        /\ NEXT_USER_MODULE' = idx
        /\ \/ /\ idx > Len(USER_MODULES)
              /\ pc' = [pc EXCEPT ![t] = "halted"] /\ UNCHANGED module
           \/ /\ idx <= Len(USER_MODULES)
              /\ USER_MODULES[idx] = "empty"
              /\ UNCHANGED <<pc, module>>
           \/ /\ idx <= Len(USER_MODULES)
              /\ USER_MODULES[idx] # "empty"
              /\ pc' = [pc EXCEPT ![t] = "chosen"] /\ module' = [module EXCEPT ![t] = idx]
        /\ UNCHANGED <<USER_MODULES, locks>>

LockFrames(t) ==
    /\ Go(t, "chosen", "frames")
    /\ frame_allocator = NoTask /\ frame_allocator' = t
    /\ UNCHANGED <<mapper, modules>>

LockMapper(t) ==
    /\ Go(t, "frames", "loading")
    /\ mapper = NoTask /\ mapper' = t
    /\ UNCHANGED <<frame_allocator, modules>>

(* load_elf, and the jump to user mode once the locks are released.  A module *)
(* that does not load panics, and the panic halts with both locks held.       *)
load_elf(t) ==
    /\ \/ /\ Go(t, "loading", "user")
          /\ USER_MODULES[module[t]] # "bad"
          /\ frame_allocator' = NoTask /\ mapper' = NoTask
       \/ /\ Go(t, "loading", "panicked")
          /\ USER_MODULES[module[t]] = "bad"
          /\ UNCHANGED locks
    /\ UNCHANGED modules
----------------------------------------------------------------------------
(* The spawn system call: spawn_module, then spawn_kernel *)

spawn_module(t, kind) ==
    /\ Len(USER_MODULES) < MaxModules
    /\ Go(t, "user", "pushed")
    /\ USER_MODULES' = Append(USER_MODULES, kind)
    /\ UNCHANGED <<NEXT_USER_MODULE, module, locks>>

SpawnLockMapper(t) ==
    /\ Go(t, "pushed", "mapper")
    /\ mapper = NoTask /\ mapper' = t
    /\ UNCHANGED <<frame_allocator, modules>>

SpawnLockFrames(t) ==
    /\ Go(t, "mapper", "spawning")
    /\ frame_allocator = NoTask /\ frame_allocator' = t
    /\ UNCHANGED <<mapper, modules>>

spawn_kernel_keeping(t, new) ==
    /\ pc[t] = "spawning" /\ pc[new] = "unborn"
    /\ pc' = [pc EXCEPT ![t] = "user", ![new] = "entry"]
    /\ mapper' = NoTask
    /\ UNCHANGED <<frame_allocator, modules>>

spawn_kernel(t, new) ==
    /\ pc[t] = "spawning" /\ pc[new] = "unborn"
    /\ pc' = [pc EXCEPT ![t] = "user", ![new] = "entry"]
    /\ frame_allocator' = NoTask /\ mapper' = NoTask
    /\ UNCHANGED modules
----------------------------------------------------------------------------
Start(t) == next_user_module(t) \/ LockFrames(t) \/ LockMapper(t) \/ load_elf(t)

Spawning(t) ==
    SpawnLockMapper(t) \/ SpawnLockFrames(t) \/ \E new \in Tasks : spawn_kernel(t, new)

Next == \E t \in Tasks :
            \/ Start(t) \/ Spawning(t)
            \/ \E kind \in Kinds : spawn_module(t, kind)

Spec == Init /\ [][Next]_vars

(* The round robin gives every task the CPU again and again, so a task whose *)
(* next step stays possible takes it.  Nobody has to spawn modules.          *)
FairSpec == Spec /\ \A t \in Tasks : WF_vars(Start(t) \/ Spawning(t))
----------------------------------------------------------------------------
TypeOK ==
    /\ USER_MODULES \in Seq(Kinds) /\ Len(USER_MODULES) <= MaxModules
    /\ NEXT_USER_MODULE \in Nat
    /\ frame_allocator \in Tasks \cup {NoTask} /\ mapper \in Tasks \cup {NoTask}
    /\ pc \in [Tasks -> Points]
    /\ module \in [Tasks -> 0..Len(USER_MODULES)]

Halted == {t \in Tasks : pc[t] = "halted"}
Taken == {t \in Tasks : module[t] # 0}
Empties == {i \in 1..Len(USER_MODULES) : USER_MODULES[i] = "empty"}

(* No module is started by two tasks, whatever the order in which tasks spawned
   by different callers reach next_user_module. *)
OneTaskPerModule ==
    \A t, u \in Taken : module[t] = module[u] => t = u

(* Until some task has halted for want of a module, every module the counter has
   passed was empty or has a task (next_user_module). *)
NothingPassedOver ==
    Halted = {} =>
        \A i \in 1..NEXT_USER_MODULE :
            i \in Empties \/ \E t \in Tasks : module[t] = i

(* The two locks are taken in opposite orders by start_user_task (frames, then
   mapper) and by spawn_kernel (mapper, then frames). *)
Crossed ==
    \E t, u \in Tasks : pc[t] = "frames" /\ mapper = u
                        /\ pc[u] = "mapper" /\ frame_allocator = t

Started(i) ==
    \E t \in Tasks : module[t] = i /\ pc[t] \in {"user", "pushed", "mapper", "spawning"}

(* A module that is appended is started, unless it is empty, the two lock orders
   cross, a task panics under the locks or a task has halted: there is no other
   way to lose one.  And a task halts for want of a module only after an empty
   one was appended: the modules spawn_module appends and the tasks it spawns
   stay in step, also when several callers are between the two (spawn_module,
   start_user_task). *)
ModulesStartUnlessStopped ==
    /\ [](Halted # {} => Empties # {})
    /\ \A i \in 1..MaxModules :
          i <= Len(USER_MODULES) ~>
              \/ Started(i) \/ i \in Empties
              \/ Crossed \/ Halted # {} \/ \E t \in Tasks : pc[t] = "panicked"

(* "`start_user_task` creates a new *task* (instance) from that bundle"
   (launcher.rs:20): every module that is appended is started. *)
ModulesStart ==
    \A i \in 1..MaxModules : i <= Len(USER_MODULES) ~> Started(i)

(* "skipping and falling back to next module" (launcher.rs:156): to skip an
   empty module costs that module only, so the others start as long as the lock
   orders do not cross. *)
SkipCostsOnlyItself ==
    \A i \in 1..MaxModules :
        (i <= Len(USER_MODULES) /\ i \notin Empties) ~> (Started(i) \/ Crossed)
=============================================================================
