--------------------------- MODULE LauncherProofs ---------------------------
(***************************************************************************)
(* Launcher hands out each module once, and passes over none, for any      *)
(* number of tasks and modules.                                            *)
(***************************************************************************)
EXTENDS Launcher, FiniteSetTheorems, TLAPS

(* What has been taken lies below the counter, a task takes only one, and the *)
(* counter runs past the modules only by a task that halts.                   *)
TakenBelowCounter == \A t \in Tasks : module[t] <= NEXT_USER_MODULE
FreshTakeNothing ==
    \A t \in Tasks : pc[t] \in {"unborn", "entry"} => module[t] = 0
CounterWithinModules == Halted = {} => NEXT_USER_MODULE <= Len(USER_MODULES)

Data ==
    /\ USER_MODULES \in Seq(Kinds) /\ NEXT_USER_MODULE \in Nat
    /\ module \in [Tasks -> 0..Len(USER_MODULES)]
    /\ pc \in [Tasks -> Points]

IndInv == /\ Data /\ TakenBelowCounter /\ FreshTakeNothing /\ CounterWithinModules
          /\ OneTaskPerModule /\ NothingPassedOver

LEMMA InitInv == Init => IndInv
<1> SUFFICES ASSUME Init PROVE IndInv
  OBVIOUS
<1>1. Cardinality(BootTasks) \in Nat
  BY LauncherAssumption, FS_Subset, FS_CardinalityType
<1>2. USER_MODULES \in Seq(Kinds) /\ Len(USER_MODULES) \in Nat
  BY <1>1 DEF Init
<1>3. Data
  BY <1>2 DEF Init, Data, Points
<1>4. Taken = {}
  BY DEF Init, Taken
<1> QED
  BY <1>2, <1>3, <1>4
  DEF Init, IndInv, TakenBelowCounter, FreshTakeNothing, CounterWithinModules,
      OneTaskPerModule, NothingPassedOver

(* A step that takes no module and halts no task, and at most appends modules. *)
LEMMA FrameInv ==
    ASSUME IndInv, UNCHANGED <<module, NEXT_USER_MODULE>>,
           pc' \in [Tasks -> Points], Halted' = Halted, FreshTakeNothing',
           USER_MODULES' = USER_MODULES
             \/ \E kind \in Kinds : USER_MODULES' = Append(USER_MODULES, kind)
    PROVE  IndInv'
<1>1. /\ USER_MODULES' \in Seq(Kinds) /\ Len(USER_MODULES) <= Len(USER_MODULES')
      /\ \A i \in 1..Len(USER_MODULES) : USER_MODULES'[i] = USER_MODULES[i]
      /\ Len(USER_MODULES) \in Nat /\ Len(USER_MODULES') \in Nat
  <2>1. USER_MODULES \in Seq(Kinds) /\ Len(USER_MODULES) \in Nat
    BY DEF IndInv, Data
  <2>2. CASE USER_MODULES' = USER_MODULES
    BY <2>1, <2>2
  <2>3. ASSUME NEW kind \in Kinds, USER_MODULES' = Append(USER_MODULES, kind)
        PROVE  /\ USER_MODULES' \in Seq(Kinds) /\ Len(USER_MODULES) <= Len(USER_MODULES')
               /\ \A i \in 1..Len(USER_MODULES) : USER_MODULES'[i] = USER_MODULES[i]
               /\ Len(USER_MODULES') \in Nat
    BY <2>1, <2>3
  <2> QED
    BY <2>2, <2>3
<1>2. Data'
  BY <1>1 DEF IndInv, Data
<1>3. TakenBelowCounter' /\ OneTaskPerModule' /\ CounterWithinModules'
  BY <1>1 DEF IndInv, Data, TakenBelowCounter, OneTaskPerModule, CounterWithinModules, Taken
<1>4. NothingPassedOver'
  <2> SUFFICES ASSUME Halted = {}, NEW i \in 1..NEXT_USER_MODULE
               PROVE  i \in Empties' \/ \E t \in Tasks : module[t] = i
    BY DEF NothingPassedOver
  <2>1. i \in Empties \/ \E t \in Tasks : module[t] = i
    BY DEF IndInv, NothingPassedOver
  <2>2. i \in Empties => i \in Empties'
    BY <1>1 DEF Empties
  <2> QED
    BY <2>1, <2>2
<1> QED
  BY <1>2, <1>3, <1>4 DEF IndInv

LEMMA MoveInv ==
    ASSUME IndInv, NEW t \in Tasks, NEW from, from # "halted",
           NEW to \in Points \ {"halted", "unborn", "entry"},
           Go(t, from, to), UNCHANGED <<module, NEXT_USER_MODULE>>,
           USER_MODULES' = USER_MODULES
             \/ \E kind \in Kinds : USER_MODULES' = Append(USER_MODULES, kind)
    PROVE  IndInv'
<1>1. pc' \in [Tasks -> Points]
  BY DEF Go, IndInv, Data
<1>2. Halted' = Halted
  BY DEF Go, Halted, IndInv, Data
<1>3. FreshTakeNothing'
  BY DEF Go, IndInv, Data, FreshTakeNothing
<1> QED
  BY <1>1, <1>2, <1>3, FrameInv

LEMMA SpawnInv ==
    ASSUME IndInv, NEW t \in Tasks, NEW new \in Tasks, spawn_kernel(t, new)
    PROVE  IndInv'
<1>1. pc' \in [Tasks -> Points]
  BY DEF spawn_kernel, IndInv, Data, Points
<1>2. Halted' = Halted
  BY DEF spawn_kernel, Halted, IndInv, Data
<1>3. FreshTakeNothing'
  BY DEF spawn_kernel, modules, IndInv, Data, FreshTakeNothing
<1> QED
  BY <1>1, <1>2, <1>3, FrameInv DEF spawn_kernel, modules

(* The hand-out itself. *)
LEMMA NextModuleInv ==
    ASSUME IndInv, NEW t \in Tasks, next_user_module(t)
    PROVE  IndInv'
<1> DEFINE idx == NEXT_USER_MODULE + 1
<1>1. /\ NEXT_USER_MODULE' = idx /\ USER_MODULES' = USER_MODULES /\ pc[t] = "entry"
      /\ NEXT_USER_MODULE \in Nat /\ idx \in Nat /\ Len(USER_MODULES) \in Nat
  BY DEF next_user_module, IndInv, Data
<1>2. CASE /\ idx > Len(USER_MODULES)
           /\ pc' = [pc EXCEPT ![t] = "halted"] /\ UNCHANGED module
  <2>1. t \in Halted'
    BY <1>2 DEF Halted, IndInv, Data
  <2>2. Data' /\ TakenBelowCounter' /\ FreshTakeNothing'
    BY <1>1, <1>2 DEF IndInv, Data, TakenBelowCounter, FreshTakeNothing, Points
  <2> QED
    BY <1>2, <2>1, <2>2 DEF IndInv, CounterWithinModules, OneTaskPerModule, NothingPassedOver, Taken
<1>3. CASE /\ idx <= Len(USER_MODULES) /\ USER_MODULES[idx] = "empty"
           /\ UNCHANGED <<pc, module>>
  <2>1. /\ Data' /\ TakenBelowCounter' /\ FreshTakeNothing'
        /\ CounterWithinModules' /\ OneTaskPerModule'
    BY <1>1, <1>3
    DEF IndInv, Data, TakenBelowCounter, FreshTakeNothing, CounterWithinModules, OneTaskPerModule, Taken
  <2>2. idx \in Empties /\ Empties' = Empties /\ Halted' = Halted
    BY <1>1, <1>3 DEF Empties, Halted
  <2>3. NothingPassedOver'
    BY <1>1, <1>3, <2>2 DEF IndInv, NothingPassedOver
  <2> QED
    BY <2>1, <2>3 DEF IndInv
<1>4. CASE /\ idx <= Len(USER_MODULES) /\ pc' = [pc EXCEPT ![t] = "chosen"]
           /\ module' = [module EXCEPT ![t] = idx]
  <2>1. Data' /\ TakenBelowCounter' /\ FreshTakeNothing'
    BY <1>1, <1>4 DEF IndInv, Data, TakenBelowCounter, FreshTakeNothing, Points
  <2>2. Halted' = Halted
    BY <1>1, <1>4 DEF IndInv, Data, Halted
  <2>3. CounterWithinModules'
    BY <1>1, <1>4, <2>2 DEF CounterWithinModules
  <2>4. OneTaskPerModule'
    BY <1>1, <1>4 DEF IndInv, Data, TakenBelowCounter, OneTaskPerModule, Taken
  <2>5. NothingPassedOver'
    <3> SUFFICES ASSUME Halted = {}, NEW i \in 1..idx
                 PROVE  i \in Empties \/ \E u \in Tasks : module'[u] = i
      BY <1>1, <2>2 DEF NothingPassedOver, Empties
    <3>1. module'[t] = idx
      BY <1>4 DEF IndInv, Data
    <3>2. CASE i # idx
      <4>1. i \in 1..NEXT_USER_MODULE
        BY <1>1, <3>2
      <4>2. i \in Empties \/ \E u \in Tasks : module[u] = i
        BY <4>1 DEF IndInv, NothingPassedOver
      <4>3. module[t] = 0 /\ i # 0
        BY <1>1 DEF IndInv, FreshTakeNothing
      <4> QED
        BY <1>4, <4>2, <4>3 DEF IndInv, Data
    <3> QED
      BY <3>1, <3>2
  <2> QED
    BY <2>1, <2>3, <2>4, <2>5 DEF IndInv
<1> QED
  BY <1>2, <1>3, <1>4 DEF next_user_module

LEMMA NextInv == IndInv /\ [Next]_vars => IndInv'
<1> SUFFICES ASSUME IndInv, [Next]_vars PROVE IndInv'
  OBVIOUS
<1>1. ASSUME NEW t \in Tasks, Start(t) PROVE IndInv'
  <2>1. CASE next_user_module(t)
    BY <2>1, NextModuleInv
  <2>2. CASE LockFrames(t)
    BY <2>2, MoveInv DEF LockFrames, modules, Points
  <2>3. CASE LockMapper(t)
    BY <2>3, MoveInv DEF LockMapper, modules, Points
  <2>4. CASE load_elf(t)
    BY <2>4, MoveInv DEF load_elf, modules, Points
  <2> QED
    BY <1>1, <2>1, <2>2, <2>3, <2>4 DEF Start
<1>2. ASSUME NEW t \in Tasks, Spawning(t) PROVE IndInv'
  <2>1. CASE SpawnLockMapper(t)
    BY <2>1, MoveInv DEF SpawnLockMapper, modules, Points
  <2>2. CASE SpawnLockFrames(t)
    BY <2>2, MoveInv DEF SpawnLockFrames, modules, Points
  <2>3. ASSUME NEW new \in Tasks, spawn_kernel(t, new) PROVE IndInv'
    BY <2>3, SpawnInv
  <2> QED
    BY <1>2, <2>1, <2>2, <2>3 DEF Spawning
<1>3. ASSUME NEW t \in Tasks, NEW kind \in Kinds, spawn_module(t, kind) PROVE IndInv'
  BY <1>3, MoveInv DEF spawn_module, Points
<1>4. CASE UNCHANGED vars
  <2>1. pc' \in [Tasks -> Points] /\ Halted' = Halted /\ FreshTakeNothing'
    BY <1>4 DEF vars, IndInv, Data, Halted, FreshTakeNothing
  <2> QED
    BY <1>4, <2>1, FrameInv DEF vars
<1> QED
  BY <1>1, <1>2, <1>3, <1>4 DEF Next

LEMMA Invariance == Spec => []IndInv
BY InitInv, NextInv, PTL DEF Spec
----------------------------------------------------------------------------
(* For any number of tasks, modules and callers of spawn_module, no two tasks
   start the same module (next_user_module). *)
THEOREM ModulesAreTakenOnce == Spec => []OneTaskPerModule
<1>1. IndInv => OneTaskPerModule
  BY DEF IndInv
<1> QED
  BY <1>1, Invariance, PTL

(* For any number of tasks and modules, until a task halts for want of a module
   the counter passes over nothing but empty modules (next_user_module). *)
THEOREM CounterPassesNothingOver == Spec => []NothingPassedOver
<1>1. IndInv => NothingPassedOver
  BY DEF IndInv
<1> QED
  BY <1>1, Invariance, PTL
============================================================================
