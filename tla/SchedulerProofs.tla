--------------------------- MODULE SchedulerProofs ---------------------------
(***************************************************************************)
(* Theorems about Scheduler, for every table size, every set of sleeping   *)
(* tasks and all priorities below the kernel's own.                        *)
(***************************************************************************)
EXTENDS Scheduler, TLAPS

TableOK(ts) == ts \in [TaskIds -> TaskType]

(* What the clock step of schedule() leaves behind. *)
LEMMA WakeFacts ==
  ASSUME NEW ts, TableOK(ts)
  PROVE  /\ TableOK(Wake(ts))
         /\ \A t \in TaskIds :
              /\ Wake(ts)[t].priority = ts[t].priority
              /\ Wake(ts)[t].ticks_remaining = ts[t].ticks_remaining
              /\ Wake(ts)[t].built = ts[t].built
              /\ Wake(ts)[t].state = "RUNNING" <=> ts[t].state = "RUNNING"
              /\ t \notin Created => Wake(ts)[t].state = ts[t].state
<1> SUFFICES ASSUME NEW t \in TaskIds
             PROVE  /\ Wake(ts)[t] \in TaskType
                    /\ Wake(ts)[t].priority = ts[t].priority
                    /\ Wake(ts)[t].ticks_remaining = ts[t].ticks_remaining
                    /\ Wake(ts)[t].built = ts[t].built
                    /\ Wake(ts)[t].state = "RUNNING" <=> ts[t].state = "RUNNING"
                    /\ t \notin Created => Wake(ts)[t].state = ts[t].state
  BY DEF TableOK, Wake
<1> DEFINE old == ts[t]
           state == IF t \in Created /\ old.state = "SLEEPING" /\ old.wake <= 1
                    THEN "READY" ELSE old.state
<1>1. old \in TaskType
  BY DEF TableOK
<1>2. Wake(ts)[t] = [old EXCEPT !.wake = CountDown(old.wake), !.state = state]
  BY DEF Wake
<1>3. CountDown(old.wake) \in Nat
  BY <1>1 DEF CountDown, TaskType
<1>4. state \in {"READY", "RUNNING", "SLEEPING"} /\ (state = "RUNNING" <=> old.state = "RUNNING")
      /\ (t \notin Created => state = old.state)
  BY <1>1 DEF TaskType
<1> HIDE DEF old, state
<1>5. QED
  BY <1>1, <1>2, <1>3, <1>4 DEF TaskType, old

LEMMA PreemptedFacts ==
  ASSUME NEW ts, TableOK(ts), current_task \in TaskIds
  PROVE  /\ TableOK(Preempted(ts))
         /\ \A t \in TaskIds :
              /\ Preempted(ts)[t].priority = ts[t].priority
              /\ Preempted(ts)[t].built = ts[t].built
              /\ t # current_task => Preempted(ts)[t].state = ts[t].state
         /\ ts[current_task].state = "RUNNING" => Preempted(ts)[current_task].state = "READY"
         /\ Preempted(ts)[current_task].state # "RUNNING"
<1> DEFINE c == current_task
           state == IF ts[c].state = "RUNNING" THEN "READY" ELSE ts[c].state
<1>1. ts[c] \in TaskType /\ state \in {"READY", "SLEEPING"}
  BY DEF TableOK, TaskType
<1>2. Preempted(ts) = [ts EXCEPT ![c] = [ts[c] EXCEPT !.state = state]]
  BY DEF Preempted, TableOK
<1>3. QED
  BY <1>1, <1>2 DEF TableOK, TaskType

DispatchOutcome(ts, n, new) ==
  /\ TableOK(new)
  /\ \A t \in TaskIds : /\ new[t].priority = ts[t].priority
                        /\ new[t].built = ts[t].built
                        /\ t # n => new[t].state = ts[t].state
  /\ new[n].state = "RUNNING"
  /\ new[n].ticks_remaining = 2 * ts[n].priority

LEMMA DispatchFacts ==
  ASSUME NEW ts, TableOK(ts), NEW n \in TaskIds
  PROVE  DispatchOutcome(ts, n, Dispatch(ts, n))
<1>1. ts[n] \in TaskType /\ Quantum(ts[n].priority) \in Nat
      /\ Quantum(ts[n].priority) = 2 * ts[n].priority
  BY DEF TableOK, TaskType, Quantum
<1> DEFINE new == [ts[n] EXCEPT !.state = "RUNNING", !.ticks_remaining = Quantum(ts[n].priority)]
<1>2. Dispatch(ts, n) = [ts EXCEPT ![n] = new]
  BY DEF Dispatch, TableOK
<1>3. /\ new \in TaskType /\ new.state = "RUNNING" /\ new.priority = ts[n].priority
      /\ new.built = ts[n].built /\ new.ticks_remaining = 2 * ts[n].priority
  BY <1>1 DEF TaskType
<1> HIDE DEF new
<1>4. QED
  BY <1>2, <1>3 DEF TableOK, DispatchOutcome

-----------------------------------------------------------------------------
(* The inductive invariant.  The kernel's own task has the highest         *)
(* priority and is RUNNING whenever it is building a task, so no tick can  *)
(* take the CPU away from it and give it to the slot being filled.         *)
Building == pc[Main] \in {"reserved", "filled"}

TypeInv ==
  /\ TableOK(tasks)
  /\ num_tasks \in 2 .. MaxTasks
  /\ current_task \in Created
  /\ pc \in [TaskIds -> {"run", "reserved", "filled", "marked", "timed"}]

Priorities(ts) ==
  /\ ts[Main].priority = MainPriority
  /\ \A t \in TaskIds \ {Main} : ts[t].priority < MainPriority

SlotsOK ==
  /\ Priorities(tasks)
  /\ \A t \in Created : tasks[t].built \/ (Building /\ t = NewId)
  /\ \A t \in Created : tasks[t].priority > 0 \/ (Building /\ t = NewId)
  /\ pc[Main] = "filled" => tasks[NewId].priority > 0
  /\ \A t \in TaskIds \ Created : tasks[t].state = "READY"

BuilderRuns ==
  /\ \A t \in TaskIds : pc[t] \in {"reserved", "filled"} => t = Main
  /\ Building => current_task = Main /\ num_tasks > 2

(* At most one task is RUNNING, the one on the CPU; it can only be marked  *)
(* otherwise while it is inside task_sleep.                                *)
OnlyCurrentRuns ==
  \A t \in Created :
    /\ tasks[t].state = "RUNNING" => t = current_task
    /\ t = current_task /\ pc[t] \in {"run", "reserved", "filled"}
         => tasks[t].state = "RUNNING"

IInv ==
  /\ TypeInv
  /\ SlotsOK
  /\ BuilderRuns
  /\ OnlyCurrentRuns
  /\ tasks[current_task].ticks_remaining > 0

LEMMA InitHoldsIInv == Init => IInv
<1> SUFFICES ASSUME Init PROVE IInv
  OBVIOUS
<1>1. /\ TaskIds = 0 .. MaxTasks - 1 /\ Main = 0 /\ Music = 1 /\ MaxTasks \in Nat /\ MaxTasks >= 2
      /\ num_tasks = 2 /\ current_task = 0 /\ Created = 0 .. 1
      /\ pc = [t \in TaskIds |-> "run"]
  BY SchedulerAssumption DEF Init, TaskIds, Main, Music, Created
<1>2. Main \in TaskIds /\ Music \in TaskIds /\ Main # Music /\ Created = {Main, Music}
  BY <1>1
<1>3. /\ MainPriority \in Nat /\ MusicPriority \in Nat /\ MusicPriority > 0
      /\ MusicPriority < MainPriority
      /\ Quantum(MainPriority) \in Nat /\ Quantum(MainPriority) > 0
      /\ Quantum(MusicPriority) \in Nat
  BY SchedulerAssumption DEF Quantum
<1> DEFINE main == [NewTask(MainPriority) EXCEPT !.state = "RUNNING", !.built = TRUE]
           music == [NewTask(MusicPriority) EXCEPT !.built = TRUE]
<1>4. /\ main \in TaskType /\ main.state = "RUNNING" /\ main.priority = MainPriority
      /\ main.ticks_remaining = Quantum(MainPriority)
  BY <1>3 DEF NewTask, TaskType
<1>5. music \in TaskType /\ music.state = "READY" /\ music.priority = MusicPriority
  BY <1>3 DEF NewTask, TaskType
<1>6. EmptySlot \in TaskType /\ EmptySlot.state = "READY" /\ EmptySlot.priority = 0
  BY DEF EmptySlot, TaskType
<1>a. main.built /\ music.built
  BY DEF NewTask
<1>b. tasks[Main] = main /\ tasks[Music] = music
      /\ \A t \in TaskIds \ {Main, Music} : tasks[t] = EmptySlot
  BY <1>2 DEF Init
<1> HIDE DEF main, music
<1>7. /\ tasks[Main] \in TaskType /\ tasks[Main].state = "RUNNING" /\ tasks[Main].built
      /\ tasks[Main].priority = MainPriority
      /\ tasks[Main].ticks_remaining = Quantum(MainPriority)
  BY <1>4, <1>a, <1>b
<1>8. /\ tasks[Music] \in TaskType /\ tasks[Music].state = "READY" /\ tasks[Music].built
      /\ tasks[Music].priority = MusicPriority
  BY <1>5, <1>a, <1>b
<1>9. \A t \in TaskIds \ {Main, Music} :
        tasks[t] \in TaskType /\ tasks[t].state = "READY" /\ tasks[t].priority = 0
  BY <1>6, <1>b
<1>10. TableOK(tasks)
  <2>1. tasks = [t \in TaskIds |-> tasks[t]]
    BY DEF Init
  <2>2. \A t \in TaskIds : tasks[t] \in TaskType
    BY <1>7, <1>8, <1>9
  <2>3. QED
    BY <2>1, <2>2 DEF TableOK
<1>11. TypeInv
  BY <1>1, <1>10 DEF TypeInv
<1>12. ~Building /\ \A t \in TaskIds : pc[t] = "run"
  BY <1>1, <1>2 DEF Building
<1>13. Priorities(tasks)
  BY <1>2, <1>3, <1>7, <1>8, <1>9 DEF Priorities
<1>14. SlotsOK
  BY <1>2, <1>3, <1>7, <1>8, <1>9, <1>12, <1>13 DEF SlotsOK
<1>15. BuilderRuns
  BY <1>12 DEF BuilderRuns
<1>16. OnlyCurrentRuns
  BY <1>1, <1>2, <1>7, <1>8 DEF OnlyCurrentRuns
<1>17. tasks[current_task].ticks_remaining > 0
  BY <1>1, <1>3, <1>7
<1>18. QED
  BY <1>11, <1>14, <1>15, <1>16, <1>17 DEF IInv

(* What any call of schedule() preserves, whoever makes it.                *)
SameSlots(ts, new) ==
  \A t \in TaskIds : /\ new[t].priority = ts[t].priority
                     /\ new[t].built = ts[t].built
                     /\ t \notin Created => new[t].state = ts[t].state

OneRuns(new, c) == \A t \in Created : new[t].state = "RUNNING" <=> t = c

ScheduleOutcome ==
  /\ TableOK(tasks')
  /\ num_tasks' = num_tasks
  /\ current_task' \in Created
  /\ SameSlots(tasks, tasks')
  /\ OneRuns(tasks', current_task')
  /\ tasks'[current_task'].ticks_remaining > 0
  /\ Building => current_task' = Main

LEMMA ScheduleStep ==
  ASSUME IInv, Schedule
  PROVE  ScheduleOutcome
<1> USE SchedulerAssumption
<1> DEFINE woken == Wake(tasks)
           ready == Preempted(woken)
<1>1. /\ TableOK(tasks) /\ num_tasks \in 2 .. MaxTasks /\ current_task \in Created
      /\ \A t \in Created : t \in TaskIds
      /\ Main \in Created
  BY DEF IInv, TypeInv, Created, TaskIds, Main
<1>2. /\ TableOK(woken)
      /\ \A t \in TaskIds :
           /\ woken[t].priority = tasks[t].priority
           /\ woken[t].ticks_remaining = tasks[t].ticks_remaining
           /\ woken[t].built = tasks[t].built
           /\ woken[t].state = "RUNNING" <=> tasks[t].state = "RUNNING"
           /\ t \notin Created => woken[t].state = tasks[t].state
  BY <1>1, WakeFacts
<1> HIDE DEF woken
<1>3. /\ TableOK(ready)
      /\ \A t \in TaskIds :
           /\ ready[t].priority = woken[t].priority
           /\ ready[t].built = woken[t].built
           /\ t # current_task => ready[t].state = woken[t].state
      /\ woken[current_task].state = "RUNNING" => ready[current_task].state = "READY"
      /\ ready[current_task].state # "RUNNING"
  BY <1>1, <1>2, PreemptedFacts
<1> HIDE DEF ready
<1>4. \A t \in Created : tasks[t].state = "RUNNING" => t = current_task
  BY DEF IInv, OnlyCurrentRuns
<1>5. CASE /\ KeepsCpu(woken)
           /\ tasks' = [woken EXCEPT ![current_task].ticks_remaining = @ - 1]
           /\ UNCHANGED <<current_task, num_tasks>>
  <2> DEFINE c == current_task
             left == woken[c].ticks_remaining - 1
  <2>1. woken[c].state = "RUNNING" /\ left \in Nat /\ left > 0 /\ woken[c] \in TaskType
    BY <1>1, <1>2, <1>5 DEF KeepsCpu, TableOK, TaskType
  <2>2. tasks' = [woken EXCEPT ![c] = [woken[c] EXCEPT !.ticks_remaining = left]]
    BY <1>1, <1>2, <1>5 DEF TableOK
  <2> DEFINE new == [woken[c] EXCEPT !.ticks_remaining = left]
  <2>3. /\ new \in TaskType /\ new.state = "RUNNING" /\ new.priority = woken[c].priority
        /\ new.built = woken[c].built /\ new.ticks_remaining = left
    BY <2>1 DEF TaskType
  <2> HIDE DEF new, left
  <2>4. /\ TableOK(tasks') /\ tasks'[c] = new
        /\ \A t \in TaskIds \ {c} : tasks'[t] = woken[t]
    BY <1>1, <1>2, <2>2, <2>3 DEF TableOK, new
  <2>5. SameSlots(tasks, tasks')
    BY <1>1, <1>2, <2>3, <2>4 DEF SameSlots
  <2>6. OneRuns(tasks', c)
    BY <1>1, <1>2, <1>4, <2>3, <2>4 DEF OneRuns
  <2>7. tasks'[c].ticks_remaining > 0
    BY <2>1, <2>3, <2>4
  <2>8. Building => c = Main
    BY DEF IInv, BuilderRuns
  <2>9. current_task' = current_task /\ num_tasks' = num_tasks
    BY <1>5
  <2>10. tasks'[current_task'].ticks_remaining > 0
    BY <2>7, <2>9
  <2>11. OneRuns(tasks', current_task')
    BY <2>6, <2>9
  <2>12. TableOK(tasks') /\ current_task' \in Created /\ (Building => current_task' = Main)
    BY <1>1, <2>4, <2>8, <2>9
  <2>13. QED
    BY <2>5, <2>9, <2>10, <2>11, <2>12 DEF ScheduleOutcome
<1>6. ASSUME NEW n \in Created, IsNext(ready, n), tasks' = Dispatch(ready, n),
             current_task' = n, num_tasks' = num_tasks
      PROVE  ScheduleOutcome
  <2>1. /\ TableOK(tasks')
        /\ \A t \in TaskIds :
             /\ tasks'[t].priority = ready[t].priority
             /\ tasks'[t].built = ready[t].built
             /\ t # n => tasks'[t].state = ready[t].state
        /\ tasks'[n].state = "RUNNING"
        /\ tasks'[n].ticks_remaining = 2 * ready[n].priority
    <3>1. n \in TaskIds
      BY <1>1
    <3>2. DispatchOutcome(ready, n, Dispatch(ready, n))
      BY <1>3, <3>1, DispatchFacts
    <3>3. QED
      BY <1>6, <3>2 DEF DispatchOutcome
  <2>2. Building => n = Main
    <3> SUFFICES ASSUME Building PROVE n = Main
      OBVIOUS
    <3>1. current_task = Main /\ tasks[Main].state = "RUNNING"
      BY <1>1 DEF IInv, BuilderRuns, OnlyCurrentRuns, Building
    <3>2. Main \in Ready(ready)
      BY <1>1, <1>2, <1>3, <3>1 DEF Ready
    <3>3. ready[n].priority >= ready[Main].priority
      BY <1>6, <3>2 DEF IsNext, BestReady
    <3>4. \A t \in TaskIds \ {Main} : ready[t].priority < ready[Main].priority
      BY <1>1, <1>2, <1>3 DEF IInv, SlotsOK, Priorities
    <3>5. /\ ready[n].priority \in Nat /\ ready[Main].priority \in Nat
      BY <1>1, <1>3 DEF TableOK, TaskType
    <3>6. QED
      BY <1>1, <3>3, <3>4, <3>5
  <2>3. ready[n].priority > 0 /\ ready[n].priority \in Nat
    <3>1. tasks[n].priority > 0
      BY <2>2 DEF IInv, SlotsOK, Priorities
    <3>2. QED
      BY <1>1, <1>2, <1>3, <3>1 DEF TableOK, TaskType
  <2>4. OneRuns(tasks', n)
    BY <1>1, <1>2, <1>3, <1>4, <2>1 DEF OneRuns
  <2>5. SameSlots(tasks, tasks')
    BY <1>1, <1>2, <1>3, <2>1 DEF SameSlots
  <2>6. tasks'[n].ticks_remaining > 0
    BY <2>1, <2>3
  <2>7. OneRuns(tasks', current_task') /\ tasks'[current_task'].ticks_remaining > 0
    BY <1>6, <2>4, <2>6
  <2>8. QED
    BY <1>6, <2>1, <2>2, <2>5, <2>7 DEF ScheduleOutcome
<1>7. QED
  BY <1>5, <1>6 DEF Schedule, woken, ready

-----------------------------------------------------------------------------
PcType == [TaskIds -> {"run", "reserved", "filled", "marked", "timed"}]

(* A call of schedule() keeps the invariant, for any change of pc that     *)
(* neither enters nor leaves task_create_user.                             *)
LEMMA ScheduleKeepsIInv ==
  ASSUME IInv, ScheduleOutcome, pc' \in PcType,
         \A t \in TaskIds : pc'[t] # pc[t] => pc[t] = "timed" /\ pc'[t] = "run"
  PROVE  IInv'
<1>1. /\ TypeInv /\ SlotsOK /\ BuilderRuns /\ num_tasks' = num_tasks
      /\ TableOK(tasks') /\ SameSlots(tasks, tasks') /\ OneRuns(tasks', current_task')
      /\ current_task' \in Created /\ tasks'[current_task'].ticks_remaining > 0
      /\ (Building => current_task' = Main)
  BY DEF IInv, ScheduleOutcome
<1>2. Main \in TaskIds /\ Created \subseteq TaskIds /\ Created' = Created /\ NewId' = NewId
      /\ NewId \in TaskIds
  BY <1>1, SchedulerAssumption DEF Main, TaskIds, Created, NewId, TypeInv
<1>3. /\ Building' <=> Building
      /\ pc'[Main] = "filled" <=> pc[Main] = "filled"
      /\ \A t \in TaskIds : pc'[t] \in {"reserved", "filled"} => t = Main
  BY <1>1, <1>2 DEF Building, BuilderRuns
<1>4. TypeInv'
  BY <1>1, <1>2 DEF TypeInv, PcType, TableOK, TaskType
<1>5. SlotsOK'
  <2>1. Priorities(tasks')
    BY <1>1, <1>2 DEF SlotsOK, Priorities, SameSlots
  <2>2. \A t \in Created : tasks'[t].built \/ (Building /\ t = NewId)
    BY <1>1, <1>2 DEF SlotsOK, SameSlots
  <2>3. \A t \in Created : tasks'[t].priority > 0 \/ (Building /\ t = NewId)
    BY <1>1, <1>2 DEF SlotsOK, SameSlots
  <2>4. pc'[Main] = "filled" => tasks'[NewId].priority > 0
    BY <1>1, <1>2, <1>3 DEF SlotsOK, SameSlots
  <2>5. \A t \in TaskIds \ Created : tasks'[t].state = "READY"
    BY <1>1, <1>2 DEF SlotsOK, SameSlots
  <2>6. QED
    BY <1>2, <1>3, <2>1, <2>2, <2>3, <2>4, <2>5 DEF SlotsOK, Priorities
<1>6. BuilderRuns'
  BY <1>1, <1>2, <1>3 DEF BuilderRuns
<1>7. OnlyCurrentRuns'
  BY <1>1, <1>2 DEF OnlyCurrentRuns, OneRuns
<1>8. QED
  BY <1>1, <1>4, <1>5, <1>6, <1>7 DEF IInv

LEMMA ReserveSlotKeepsIInv == IInv /\ ReserveSlot => IInv'
<1> SUFFICES ASSUME IInv, ReserveSlot PROVE IInv'
  OBVIOUS
<1> USE SchedulerAssumption DEF Main
<1>1. /\ TypeInv /\ SlotsOK /\ BuilderRuns /\ OnlyCurrentRuns
      /\ tasks[current_task].ticks_remaining > 0
      /\ current_task = Main /\ pc[Main] = "run" /\ num_tasks < MaxTasks
      /\ num_tasks' = num_tasks + 1 /\ pc' = [pc EXCEPT ![Main] = "reserved"]
      /\ tasks' = tasks /\ current_task' = current_task
  BY DEF IInv, ReserveSlot, At, Goto
<1>2. /\ num_tasks \in 2 .. MaxTasks - 1 /\ TaskIds = 0 .. MaxTasks - 1
      /\ Created = 0 .. num_tasks - 1 /\ Created' = 0 .. num_tasks /\ NewId' = num_tasks
      /\ pc \in PcType /\ TableOK(tasks)
  BY <1>1 DEF TypeInv, TaskIds, Created, NewId, PcType
<1>3. /\ pc' \in PcType /\ pc'[Main] = "reserved"
      /\ \A t \in TaskIds \ {Main} : pc'[t] = pc[t]
  BY <1>1, <1>2 DEF PcType
<1>4. ~Building /\ Building'
  BY <1>1, <1>3 DEF Building
<1>5. TypeInv'
  BY <1>1, <1>2, <1>3 DEF TypeInv, PcType
<1>6. SlotsOK'
  BY <1>1, <1>2, <1>3, <1>4 DEF SlotsOK, Priorities
<1>7. BuilderRuns'
  BY <1>1, <1>2, <1>3 DEF BuilderRuns
<1>8. OnlyCurrentRuns'
  <2>1. tasks[num_tasks].state = "READY" /\ tasks[Main].state = "RUNNING"
    BY <1>1, <1>2 DEF SlotsOK, OnlyCurrentRuns
  <2>2. \A t \in Created : tasks[t].state = "RUNNING" => t = Main
    BY <1>1 DEF OnlyCurrentRuns
  <2>3. \A t \in 0 .. num_tasks : t \in Created \/ t = num_tasks
    BY <1>2
  <2>4. \A t \in 0 .. num_tasks :
          (tasks[t].state = "RUNNING" => t = Main) /\ (t = Main => tasks[t].state = "RUNNING")
    BY <2>1, <2>2, <2>3
  <2>5. QED
    BY <1>1, <1>2, <2>4 DEF OnlyCurrentRuns
<1>9. QED
  BY <1>1, <1>5, <1>6, <1>7, <1>8 DEF IInv

LEMMA FillSlotKeepsIInv == IInv /\ FillSlot => IInv'
<1> SUFFICES ASSUME IInv, FillSlot PROVE IInv'
  OBVIOUS
<1> DEFINE new == NewTask(UserPriority)
<1>1. /\ TypeInv /\ SlotsOK /\ BuilderRuns /\ OnlyCurrentRuns
      /\ tasks[current_task].ticks_remaining > 0
      /\ current_task = Main /\ pc[Main] = "reserved"
      /\ tasks' = [tasks EXCEPT ![NewId] = new] /\ pc' = [pc EXCEPT ![Main] = "filled"]
      /\ num_tasks' = num_tasks /\ current_task' = current_task
  BY DEF IInv, FillSlot, At, Goto
<1>2. /\ new \in TaskType /\ new.state = "READY" /\ new.priority = UserPriority
      /\ UserPriority > 0 /\ UserPriority < MainPriority
  BY SchedulerAssumption DEF NewTask, Quantum, TaskType
<1> HIDE DEF new
<1>3. Building
  BY <1>1 DEF Building
<1>4. /\ NewId \in TaskIds /\ NewId \in Created /\ NewId # Main /\ Main \in TaskIds
      /\ Created \subseteq TaskIds /\ Created' = Created /\ NewId' = NewId
      /\ pc \in PcType /\ TableOK(tasks)
  BY <1>1, <1>3, SchedulerAssumption
     DEF TypeInv, BuilderRuns, Main, TaskIds, Created, NewId, PcType
<1>5. /\ pc' \in PcType /\ pc'[Main] = "filled"
      /\ \A t \in TaskIds \ {Main} : pc'[t] = pc[t]
      /\ Building'
  BY <1>1, <1>4 DEF PcType, Building
<1>6. /\ TableOK(tasks') /\ tasks'[NewId] = new
      /\ \A t \in TaskIds \ {NewId} : tasks'[t] = tasks[t]
  BY <1>1, <1>2, <1>4 DEF TableOK
<1>7. TypeInv'
  BY <1>1, <1>4, <1>5, <1>6 DEF TypeInv, PcType, TableOK, TaskType
<1>8. SlotsOK'
  <2>1. Priorities(tasks')
    BY <1>1, <1>2, <1>4, <1>6 DEF SlotsOK, Priorities
  <2>2. QED
    BY <1>1, <1>2, <1>4, <1>5, <1>6, <2>1 DEF SlotsOK, Priorities
<1>9. BuilderRuns'
  BY <1>1, <1>3, <1>4, <1>5 DEF BuilderRuns
<1>10. OnlyCurrentRuns'
  <2>1. \A t \in Created : tasks'[t].state = "RUNNING" => t = Main
    BY <1>1, <1>2, <1>4, <1>6 DEF OnlyCurrentRuns
  <2>2. tasks'[Main].state = "RUNNING"
    BY <1>1, <1>4, <1>6 DEF OnlyCurrentRuns, TypeInv
  <2>3. QED
    BY <1>1, <1>4, <2>1, <2>2 DEF OnlyCurrentRuns
<1>11. QED
  BY <1>1, <1>4, <1>6, <1>7, <1>8, <1>9, <1>10 DEF IInv

LEMMA BuildStackKeepsIInv == IInv /\ BuildStack => IInv'
<1> SUFFICES ASSUME IInv, BuildStack PROVE IInv'
  OBVIOUS
<1> DEFINE new == [tasks[NewId] EXCEPT !.built = TRUE]
<1>1. /\ TypeInv /\ SlotsOK /\ BuilderRuns /\ OnlyCurrentRuns
      /\ tasks[current_task].ticks_remaining > 0
      /\ current_task = Main /\ pc[Main] = "filled"
      /\ pc' = [pc EXCEPT ![Main] = "run"]
      /\ num_tasks' = num_tasks /\ current_task' = current_task
  BY DEF IInv, BuildStack, At, Goto
<1>3. Building
  BY <1>1 DEF Building
<1>4. /\ NewId \in TaskIds /\ NewId \in Created /\ NewId # Main /\ Main \in TaskIds
      /\ Created \subseteq TaskIds /\ Created' = Created /\ NewId' = NewId
      /\ pc \in PcType /\ TableOK(tasks)
  BY <1>1, <1>3, SchedulerAssumption
     DEF TypeInv, BuilderRuns, Main, TaskIds, Created, NewId, PcType
<1>2. tasks' = [tasks EXCEPT ![NewId] = new]
  BY <1>4 DEF BuildStack, TableOK
<1>a. tasks[NewId] \in TaskType
  BY <1>4 DEF TableOK
<1>b. /\ new \in TaskType /\ new.state = tasks[NewId].state
      /\ new.priority = tasks[NewId].priority
  BY <1>a DEF TaskType
<1>c. new.built
  BY <1>a DEF TaskType
<1> HIDE DEF new
<1>5. /\ pc' \in PcType /\ pc'[Main] = "run"
      /\ \A t \in TaskIds \ {Main} : pc'[t] = pc[t]
      /\ ~Building'
  BY <1>1, <1>4 DEF PcType, Building
<1>6. /\ TableOK(tasks') /\ tasks'[NewId] = new
      /\ \A t \in TaskIds \ {NewId} : tasks'[t] = tasks[t]
  BY <1>2, <1>b, <1>4 DEF TableOK
<1>7. TypeInv'
  BY <1>1, <1>4, <1>5, <1>6 DEF TypeInv, PcType, TableOK, TaskType
<1>8. SlotsOK'
  <2>1. Priorities(tasks')
    BY <1>1, <1>b, <1>4, <1>6 DEF SlotsOK, Priorities
  <2>2. \A t \in Created : tasks'[t].built
    BY <1>1, <1>c, <1>4, <1>6 DEF SlotsOK
  <2>3. \A t \in Created : tasks'[t].priority > 0
    BY <1>1, <1>b, <1>4, <1>6 DEF SlotsOK
  <2>4. \A t \in TaskIds \ Created : tasks'[t].state = "READY"
    BY <1>1, <1>4, <1>6 DEF SlotsOK
  <2>5. QED
    BY <1>4, <1>5, <2>1, <2>2, <2>3, <2>4 DEF SlotsOK, Priorities
<1>9. BuilderRuns'
  BY <1>1, <1>4, <1>5 DEF BuilderRuns
<1>10. OnlyCurrentRuns'
  <2>1. \A t \in Created : tasks'[t].state = tasks[t].state
    BY <1>b, <1>4, <1>6
  <2>2. tasks[Main].state = "RUNNING"
    BY <1>1, <1>4 DEF OnlyCurrentRuns, TypeInv
  <2>3. QED
    BY <1>1, <1>4, <2>1, <2>2 DEF OnlyCurrentRuns
<1>11. QED
  BY <1>1, <1>4, <1>6, <1>7, <1>8, <1>9, <1>10 DEF IInv

LEMMA MarkSleepingKeepsIInv ==
  ASSUME IInv, NEW t \in Sleepers, MarkSleeping(t)
  PROVE  IInv'
<1> DEFINE new == [tasks[t] EXCEPT !.state = "SLEEPING"]
<1>1. /\ TypeInv /\ SlotsOK /\ BuilderRuns /\ OnlyCurrentRuns
      /\ tasks[current_task].ticks_remaining > 0
      /\ current_task = t /\ pc[t] = "run"
      /\ pc' = [pc EXCEPT ![t] = "marked"]
      /\ num_tasks' = num_tasks /\ current_task' = current_task
  BY DEF IInv, MarkSleeping, At, Goto
<1>2. /\ t \in TaskIds /\ t \in Created /\ Main \in TaskIds
      /\ Created \subseteq TaskIds /\ Created' = Created /\ NewId' = NewId
      /\ pc \in PcType /\ TableOK(tasks)
  BY <1>1, SchedulerAssumption DEF TypeInv, Main, TaskIds, Created, NewId, PcType
<1>3. tasks' = [tasks EXCEPT ![t] = new] /\ tasks[t] \in TaskType
  BY <1>2 DEF MarkSleeping, TableOK
<1>4. /\ new \in TaskType /\ new.state = "SLEEPING" /\ new.priority = tasks[t].priority
      /\ new.ticks_remaining = tasks[t].ticks_remaining
  BY <1>3 DEF TaskType
<1>5. new.built = tasks[t].built
  BY <1>3 DEF TaskType
<1> HIDE DEF new
<1>6. /\ pc' \in PcType /\ pc'[t] = "marked"
      /\ \A u \in TaskIds \ {t} : pc'[u] = pc[u]
      /\ ~Building /\ ~Building' /\ pc'[Main] # "filled"
  BY <1>1, <1>2 DEF PcType, Building, BuilderRuns
<1>7. /\ TableOK(tasks') /\ tasks'[t] = new
      /\ \A u \in TaskIds \ {t} : tasks'[u] = tasks[u]
  BY <1>2, <1>3, <1>4 DEF TableOK
<1>8. TypeInv'
  BY <1>1, <1>2, <1>6, <1>7 DEF TypeInv, PcType, TableOK, TaskType
<1>9. SlotsOK'
  <2>1. Priorities(tasks')
    BY <1>1, <1>2, <1>4, <1>7 DEF SlotsOK, Priorities
  <2>2. \A u \in Created : tasks'[u].built
    BY <1>1, <1>2, <1>5, <1>6, <1>7 DEF SlotsOK
  <2>3. \A u \in Created : tasks'[u].priority > 0
    BY <1>1, <1>2, <1>4, <1>6, <1>7 DEF SlotsOK
  <2>4. \A u \in TaskIds \ Created : tasks'[u].state = "READY"
    BY <1>1, <1>2, <1>7 DEF SlotsOK
  <2>5. QED
    BY <1>2, <1>6, <2>1, <2>2, <2>3, <2>4 DEF SlotsOK, Priorities
<1>10. BuilderRuns'
  BY <1>1, <1>2, <1>6 DEF BuilderRuns
<1>11. OnlyCurrentRuns'
  BY <1>1, <1>2, <1>4, <1>6, <1>7 DEF OnlyCurrentRuns
<1>12. QED
  BY <1>1, <1>4, <1>7, <1>8, <1>9, <1>10, <1>11 DEF IInv

LEMMA SetWakeTicksKeepsIInv ==
  ASSUME IInv, NEW t \in Sleepers, SetWakeTicks(t)
  PROVE  IInv'
<1>0. PICK n \in SleepTicks : tasks' = [tasks EXCEPT ![t].wake = n]
  BY DEF SetWakeTicks
<1> DEFINE new == [tasks[t] EXCEPT !.wake = n]
<1>1. /\ TypeInv /\ SlotsOK /\ BuilderRuns /\ OnlyCurrentRuns
      /\ tasks[current_task].ticks_remaining > 0
      /\ current_task = t /\ pc[t] = "marked"
      /\ pc' = [pc EXCEPT ![t] = "timed"]
      /\ num_tasks' = num_tasks /\ current_task' = current_task
  BY DEF IInv, SetWakeTicks, At, Goto
<1>2. /\ t \in TaskIds /\ t \in Created /\ Main \in TaskIds /\ n \in Nat
      /\ Created \subseteq TaskIds /\ Created' = Created /\ NewId' = NewId
      /\ pc \in PcType /\ TableOK(tasks)
  BY <1>1, SchedulerAssumption DEF TypeInv, Main, TaskIds, Created, NewId, PcType
<1>3. tasks' = [tasks EXCEPT ![t] = new] /\ tasks[t] \in TaskType
  BY <1>0, <1>2 DEF TableOK
<1>4. /\ new \in TaskType /\ new.state = tasks[t].state /\ new.priority = tasks[t].priority
      /\ new.ticks_remaining = tasks[t].ticks_remaining
  BY <1>2, <1>3 DEF TaskType
<1>5. new.built = tasks[t].built
  BY <1>3 DEF TaskType
<1> HIDE DEF new
<1>6. /\ pc' \in PcType /\ pc'[t] = "timed"
      /\ \A u \in TaskIds \ {t} : pc'[u] = pc[u]
      /\ ~Building /\ ~Building' /\ pc'[Main] # "filled"
  BY <1>1, <1>2 DEF PcType, Building, BuilderRuns
<1>7. /\ TableOK(tasks') /\ tasks'[t] = new
      /\ \A u \in TaskIds \ {t} : tasks'[u] = tasks[u]
  BY <1>2, <1>3, <1>4 DEF TableOK
<1>8. TypeInv'
  BY <1>1, <1>2, <1>6, <1>7 DEF TypeInv, PcType, TableOK, TaskType
<1>9. SlotsOK'
  <2>1. Priorities(tasks')
    BY <1>1, <1>2, <1>4, <1>7 DEF SlotsOK, Priorities
  <2>2. \A u \in Created : tasks'[u].built
    BY <1>1, <1>2, <1>5, <1>6, <1>7 DEF SlotsOK
  <2>3. \A u \in Created : tasks'[u].priority > 0
    BY <1>1, <1>2, <1>4, <1>6, <1>7 DEF SlotsOK
  <2>4. \A u \in TaskIds \ Created : tasks'[u].state = "READY"
    BY <1>1, <1>2, <1>7 DEF SlotsOK
  <2>5. QED
    BY <1>2, <1>6, <2>1, <2>2, <2>3, <2>4 DEF SlotsOK, Priorities
<1>10. BuilderRuns'
  BY <1>1, <1>2, <1>6 DEF BuilderRuns
<1>11. OnlyCurrentRuns'
  BY <1>1, <1>2, <1>4, <1>6, <1>7 DEF OnlyCurrentRuns
<1>12. QED
  BY <1>1, <1>4, <1>7, <1>8, <1>9, <1>10, <1>11 DEF IInv

LEMMA NextKeepsIInv == IInv /\ [Next]_vars => IInv'
<1> SUFFICES ASSUME IInv, [Next]_vars PROVE IInv'
  OBVIOUS
<1>1. pc \in PcType
  BY DEF IInv, TypeInv, PcType
<1>2. CASE TimerTick \/ Yield
  <2>1. ScheduleOutcome /\ pc' = pc
    BY <1>2, ScheduleStep DEF TimerTick, Yield
  <2>2. QED
    BY <1>1, <2>1, ScheduleKeepsIInv
<1>3. CASE CreateUser
  BY <1>3, ReserveSlotKeepsIInv, FillSlotKeepsIInv, BuildStackKeepsIInv DEF CreateUser
<1>4. CASE Sleep
  <2>1. PICK t \in Sleepers : MarkSleeping(t) \/ SetWakeTicks(t) \/ SleepYield(t)
    BY <1>4 DEF Sleep
  <2>2. CASE MarkSleeping(t)
    BY <2>2, MarkSleepingKeepsIInv
  <2>3. CASE SetWakeTicks(t)
    BY <2>3, SetWakeTicksKeepsIInv
  <2>4. CASE SleepYield(t)
    <3>1. ScheduleOutcome
      BY <2>4, ScheduleStep DEF SleepYield
    <3>2. pc[t] = "timed" /\ pc' = [pc EXCEPT ![t] = "run"]
      BY <2>4 DEF SleepYield, At, Goto
    <3>3. pc' \in PcType
          /\ \A u \in TaskIds : pc'[u] # pc[u] => pc[u] = "timed" /\ pc'[u] = "run"
      BY <1>1, <3>2 DEF PcType
    <3>4. QED
      BY <3>1, <3>3, ScheduleKeepsIInv
  <2>5. QED
    BY <2>1, <2>2, <2>3, <2>4
<1>5. CASE UNCHANGED vars
  BY <1>5 DEF vars, IInv, TypeInv, SlotsOK, BuilderRuns, OnlyCurrentRuns, Building, Created,
              NewId
<1>6. QED
  BY <1>2, <1>3, <1>4, <1>5 DEF Next

-----------------------------------------------------------------------------
(* The invariant holds in every reachable state, for every size of table,  *)
(* whichever tasks sleep and for however long.                             *)
THEOREM Invariance == Spec => []IInv
<1>1. QED
  BY InitHoldsIInv, NextKeepsIInv, PTL DEF Spec

CutType == [TaskIds -> {"nothing", "tick", "idle"}]

CutOK == cut \in CutType

LEMMA CutTyped == Spec => []CutOK
<1>1. Init => CutOK
  BY DEF Init, CutType, CutOK
<1>2. CutOK /\ [Next]_vars => CutOK'
  <2> SUFFICES ASSUME cut \in CutType, [Next]_vars PROVE cut' \in CutType
    BY DEF CutOK, CutType
  <2>1. CASE Schedule
    BY <2>1 DEF Schedule, CutShort, CutType
  <2>2. ASSUME NEW t \in Sleepers, MarkSleeping(t) PROVE cut' \in CutType
    BY <2>2 DEF MarkSleeping, CutType
  <2>3. CASE cut' = cut
    BY <2>3
  <2>4. QED
    BY <2>1, <2>2, <2>3 DEF Next, TimerTick, Yield, CreateUser, ReserveSlot, FillSlot,
       BuildStack, Sleep, SetWakeTicks, SleepYield, vars
<1>3. QED
  BY <1>1, <1>2, PTL DEF Spec

(* Type correctness: the running index always names a slot in use and the  *)
(* task on the CPU always has quantum left, so that schedule()'s unsigned  *)
(* countdown never wraps.                                                  *)
THEOREM TypeCorrect == Spec => []TypeOK
<1>1. IInv /\ CutOK => TypeOK
  BY DEF IInv, TypeInv, TypeOK, TableOK, CutOK, CutType
<1>2. QED
  BY <1>1, Invariance, CutTyped, PTL

(* No interrupt during task_create_user makes schedule() switch to the     *)
(* half-built slot: the builder runs at the highest priority and is        *)
(* RUNNING, so a tick that ends its quantum picks it again.                *)
THEOREM OnlyBuiltTasksRun == Spec => []RunsOnlyBuiltTasks
<1>1. IInv => RunsOnlyBuiltTasks
  <2> SUFFICES ASSUME IInv PROVE tasks[current_task].built
    BY DEF RunsOnlyBuiltTasks
  <2>1. current_task \in Created /\ num_tasks \in 2 .. MaxTasks
    BY DEF IInv, TypeInv
  <2>2. Building => current_task # NewId
    BY <2>1 DEF IInv, BuilderRuns, Main, NewId
  <2>3. QED
    BY <2>1, <2>2 DEF IInv, SlotsOK
<1>2. QED
  BY <1>1, Invariance, PTL

-----------------------------------------------------------------------------
(* Sleeping.  What the clock step and the preemption do to the state and   *)
(* the wake-up time of a task.                                             *)
WakeSleep(ts, t) ==
  /\ Wake(ts)[t].wake \in Nat /\ Wake(ts)[t].wake <= ts[t].wake
  /\ ts[t].state # "SLEEPING" => Wake(ts)[t].state # "SLEEPING"
  /\ ts[t].state = "SLEEPING" => Wake(ts)[t].state = "SLEEPING" \/ Wake(ts)[t].wake = 0

LEMMA WakeStates ==
  ASSUME NEW ts, TableOK(ts), NEW t \in TaskIds
  PROVE  WakeSleep(ts, t)
<1> DEFINE old == ts[t]
           state == IF t \in Created /\ old.state = "SLEEPING" /\ old.wake <= 1
                    THEN "READY" ELSE old.state
<1>1. old \in TaskType
  BY DEF TableOK
<1>2. Wake(ts)[t] = [old EXCEPT !.wake = CountDown(old.wake), !.state = state]
  BY DEF Wake
<1>3. Wake(ts)[t].state = state /\ Wake(ts)[t].wake = CountDown(old.wake)
  BY <1>1, <1>2 DEF TaskType
<1>4. /\ CountDown(old.wake) \in Nat /\ CountDown(old.wake) <= old.wake
      /\ old.wake <= 1 => CountDown(old.wake) = 0
  BY <1>1 DEF TaskType, CountDown
<1>5. QED
  BY <1>3, <1>4 DEF WakeSleep

LEMMA PreemptedStates ==
  ASSUME NEW ts, TableOK(ts), NEW t \in TaskIds, current_task \in TaskIds
  PROVE  /\ Preempted(ts)[t].wake = ts[t].wake
         /\ Preempted(ts)[t].state = "SLEEPING" <=> ts[t].state = "SLEEPING"
<1> DEFINE c == current_task
           state == IF ts[c].state = "RUNNING" THEN "READY" ELSE ts[c].state
<1>1. ts[c] \in TaskType /\ ts[t] \in TaskType
  BY DEF TableOK
<1>2. Preempted(ts) = [ts EXCEPT ![c] = [ts[c] EXCEPT !.state = state]]
  BY DEF Preempted, TableOK
<1>3. QED
  BY <1>1, <1>2 DEF TableOK, TaskType

LEMMA DispatchedStates ==
  ASSUME NEW ts, TableOK(ts), NEW n \in TaskIds, NEW t \in TaskIds
  PROVE  /\ Dispatch(ts, n)[t].wake = ts[t].wake
         /\ t # n => Dispatch(ts, n)[t].state = ts[t].state
         /\ Dispatch(ts, n)[n].state = "RUNNING"
<1> DEFINE new == [ts[n] EXCEPT !.state = "RUNNING", !.ticks_remaining = Quantum(ts[n].priority)]
<1>1. ts[n] \in TaskType
  BY DEF TableOK
<1>2. Dispatch(ts, n) = [ts EXCEPT ![n] = new]
  BY DEF Dispatch, TableOK
<1>3. new.wake = ts[n].wake /\ new.state = "RUNNING"
  BY <1>1 DEF TaskType
<1> HIDE DEF new
<1>4. QED
  BY <1>2, <1>3 DEF TableOK

(* What schedule() does to a task's sleep: the only way out of one before  *)
(* it is due is to stand in for an idle task.                              *)
SleepStep(t) ==
  /\ tasks'[t].wake \in Nat /\ tasks'[t].wake <= tasks[t].wake
  /\ tasks[t].state # "SLEEPING" => tasks'[t].state # "SLEEPING"
  /\ tasks[t].state = "SLEEPING" /\ tasks'[t].state # "SLEEPING"
       => tasks'[t].wake = 0 \/ (t = Main /\ StandsIn)
  /\ t = current_task' => tasks'[t].state # "SLEEPING"

LEMMA ScheduleStates ==
  ASSUME IInv, Schedule, NEW t \in TaskIds
  PROVE  SleepStep(t)
<1> USE SchedulerAssumption
<1> DEFINE woken == Wake(tasks)
           ready == Preempted(woken)
<1>1. /\ TableOK(tasks) /\ current_task \in TaskIds /\ Created \subseteq TaskIds
      /\ tasks[t] \in TaskType
  BY DEF IInv, TypeInv, Created, TaskIds, TableOK
<1>2. TableOK(woken)
  BY <1>1, WakeFacts
<1>3. /\ woken[t].wake \in Nat /\ woken[t].wake <= tasks[t].wake
      /\ tasks[t].state # "SLEEPING" => woken[t].state # "SLEEPING"
      /\ tasks[t].state = "SLEEPING" => woken[t].state = "SLEEPING" \/ woken[t].wake = 0
  BY <1>1, WakeStates DEF WakeSleep
<1>4. StandsIn <=> ~KeepsCpu(woken) /\ Ready(ready) = {}
  BY DEF StandsIn
<1> HIDE DEF woken
<1>5. /\ TableOK(ready)
      /\ ready[t].wake = woken[t].wake
      /\ ready[t].state = "SLEEPING" <=> woken[t].state = "SLEEPING"
  BY <1>1, <1>2, PreemptedFacts, PreemptedStates
<1> HIDE DEF ready
<1>6. CASE /\ KeepsCpu(woken)
           /\ tasks' = [woken EXCEPT ![current_task].ticks_remaining = @ - 1]
           /\ UNCHANGED <<current_task, num_tasks>>
  <2> DEFINE c == current_task
             left == woken[c].ticks_remaining - 1
  <2>1. woken[c] \in TaskType /\ woken[t] \in TaskType /\ woken[c].state = "RUNNING"
    BY <1>1, <1>2, <1>6 DEF TableOK, KeepsCpu
  <2>2. tasks' = [woken EXCEPT ![c] = [woken[c] EXCEPT !.ticks_remaining = left]]
    BY <1>1, <1>2, <1>6 DEF TableOK
  <2>3. tasks'[t].state = woken[t].state /\ tasks'[t].wake = woken[t].wake
    BY <1>1, <1>2, <2>1, <2>2 DEF TableOK, TaskType
  <2>4. QED
    BY <1>3, <1>6, <2>1, <2>3 DEF SleepStep
<1>7. ASSUME ~KeepsCpu(woken), NEW n \in Created, IsNext(ready, n),
             tasks' = Dispatch(ready, n), current_task' = n
      PROVE  SleepStep(t)
  <2>1. /\ tasks'[t].wake = ready[t].wake
        /\ t # n => tasks'[t].state = ready[t].state
        /\ tasks'[n].state = "RUNNING"
    BY <1>1, <1>5, <1>7, DispatchedStates
  <2>2. CASE t # n
    BY <1>3, <1>5, <1>7, <2>1, <2>2 DEF SleepStep
  <2>3. CASE t = n
    <3>1. ready[n].state = "SLEEPING" => n = Main /\ StandsIn
      BY <1>4, <1>7 DEF IsNext, BestReady, Ready
    <3>2. QED
      BY <1>3, <1>5, <1>7, <2>1, <2>3, <3>1 DEF SleepStep
  <2>4. QED
    BY <2>2, <2>3
<1>8. QED
  BY <1>6, <1>7 DEF Schedule, woken, ready

(* A sleep hit by a tick between its two stores is off the CPU until it is *)
(* awake; outside those two stores, a task that is awake before its time   *)
(* was cut short.                                                          *)
Sound(t) ==
  /\ cut[t] = "tick" /\ tasks[t].state = "SLEEPING" => pc[t] = "marked" /\ t # current_task
  /\ pc[t] = "marked" /\ (t # current_task \/ tasks[t].state # "SLEEPING") => cut[t] = "tick"
  /\ pc[t] # "marked" /\ tasks[t].state # "SLEEPING" /\ tasks[t].wake > 0
       => cut[t] = "tick" \/ (t = Main /\ cut[t] = "idle")

SleepInv == CutOK /\ \A t \in TaskIds : Sound(t)

LEMMA ScheduleKeepsSound ==
  ASSUME IInv, SleepInv, Schedule, NEW t \in TaskIds,
         pc'[t] = pc[t] \/ (pc[t] = "timed" /\ pc'[t] = "run")
  PROVE  Sound(t)'
<1>1. SleepStep(t) /\ Sound(t)
  BY ScheduleStates DEF SleepInv
<1>2. cut'[t] = IF t = current_task /\ pc[t] = "marked" THEN "tick"
                ELSE IF t = Main /\ StandsIn /\ cut[t] = "nothing" THEN "idle"
                ELSE cut[t]
  BY DEF Schedule, CutShort
<1>3. tasks[t] \in TaskType /\ cut[t] \in {"nothing", "tick", "idle"}
  BY DEF IInv, TypeInv, TableOK, SleepInv, CutOK, CutType
<1>4. pc'[t] = "marked" <=> pc[t] = "marked"
  OBVIOUS
<1>5. cut'[t] = "tick" /\ tasks'[t].state = "SLEEPING" => pc'[t] = "marked" /\ t # current_task'
  BY <1>1, <1>2, <1>4 DEF Sound, SleepStep
<1>6. pc'[t] = "marked" /\ (t # current_task' \/ tasks'[t].state # "SLEEPING") => cut'[t] = "tick"
  BY <1>1, <1>2, <1>4 DEF Sound, SleepStep
<1>7. ASSUME pc'[t] # "marked", tasks'[t].state # "SLEEPING", tasks'[t].wake > 0
      PROVE  cut'[t] = "tick" \/ (t = Main /\ cut'[t] = "idle")
  <2>1. tasks[t].wake > 0
    BY <1>1, <1>3, <1>7 DEF SleepStep, TaskType
  <2>2. CASE tasks[t].state # "SLEEPING"
    BY <1>1, <1>2, <1>4, <1>7, <2>1, <2>2 DEF Sound
  <2>3. CASE tasks[t].state = "SLEEPING"
    <3>1. t = Main /\ StandsIn
      BY <1>1, <1>7, <2>3 DEF SleepStep
    <3>2. QED
      BY <1>2, <1>3, <3>1
  <2>4. QED
    BY <2>2, <2>3
<1>8. QED
  BY <1>5, <1>6, <1>7 DEF Sound

LEMMA SleepInvHolds == IInv /\ SleepInv /\ CutOK' /\ [Next]_vars => SleepInv'
<1> SUFFICES ASSUME IInv, SleepInv, [Next]_vars, NEW t \in TaskIds PROVE Sound(t)'
  BY DEF SleepInv
<1>1. /\ TableOK(tasks) /\ tasks[t] \in TaskType /\ pc \in PcType /\ cut \in CutType
      /\ Main \in TaskIds /\ NewId \in TaskIds /\ Sound(t) /\ OnlyCurrentRuns
      /\ current_task \in Created
  BY SchedulerAssumption
     DEF IInv, TypeInv, TableOK, TaskIds, Main, PcType, NewId, SleepInv, CutOK
<1>2. CASE TimerTick \/ Yield
  BY <1>2, ScheduleKeepsSound DEF TimerTick, Yield
<1>3. CASE ReserveSlot
  BY <1>1, <1>3 DEF ReserveSlot, At, Goto, Sound, PcType
<1>4. CASE FillSlot
  <2>1. /\ pc'[t] = "marked" <=> pc[t] = "marked"
        /\ cut' = cut /\ current_task' = current_task /\ current_task = Main
        /\ pc[Main] = "reserved"
    BY <1>1, <1>4 DEF FillSlot, At, Goto, PcType
  <2>2. tasks' = [tasks EXCEPT ![NewId] = NewTask(UserPriority)]
    BY <1>4 DEF FillSlot
  <2>3. t # NewId => tasks'[t] = tasks[t]
    BY <1>1, <2>2 DEF TableOK
  <2>4. t = NewId => tasks'[t].state = "READY" /\ tasks'[t].wake = 0
    BY <1>1, <2>2 DEF TableOK, NewTask
  <2>5. NewId # Main
    BY <2>1 DEF IInv, TypeInv, BuilderRuns, Building, NewId, Main
  <2>6. QED
    BY <1>1, <2>1, <2>3, <2>4, <2>5 DEF Sound
<1>5. CASE BuildStack
  <2>1. /\ pc'[t] = "marked" <=> pc[t] = "marked"
        /\ cut' = cut /\ current_task' = current_task
    BY <1>1, <1>5 DEF BuildStack, At, Goto, PcType
  <2>2. tasks[NewId] \in TaskType
    BY <1>1 DEF TableOK
  <2>3. tasks' = [tasks EXCEPT ![NewId] = [tasks[NewId] EXCEPT !.built = TRUE]]
    BY <1>1, <1>5 DEF BuildStack, TableOK
  <2>4. tasks'[t].state = tasks[t].state /\ tasks'[t].wake = tasks[t].wake
    BY <1>1, <2>2, <2>3 DEF TableOK, TaskType
  <2>5. QED
    BY <1>1, <2>1, <2>4 DEF Sound
<1>6. ASSUME NEW u \in Sleepers, MarkSleeping(u) PROVE Sound(t)'
  <2>1. u \in TaskIds /\ tasks[u] \in TaskType
    BY <1>1, SchedulerAssumption DEF TableOK
  <2>2. tasks' = [tasks EXCEPT ![u] = [tasks[u] EXCEPT !.state = "SLEEPING"]]
    BY <1>1, <1>6, <2>1 DEF MarkSleeping, TableOK
  <2>3. /\ t = u => tasks'[t].state = "SLEEPING"
        /\ t # u => tasks'[t] = tasks[t]
    BY <1>1, <2>1, <2>2 DEF TableOK, TaskType
  <2>4. /\ t = u => pc'[t] = "marked" /\ cut'[t] = "nothing"
        /\ t # u => pc'[t] = pc[t] /\ cut'[t] = cut[t]
        /\ current_task' = u /\ current_task = u
    BY <1>1, <1>6 DEF MarkSleeping, At, Goto, PcType, CutType
  <2>5. QED
    BY <1>1, <2>3, <2>4 DEF Sound
<1>7. ASSUME NEW u \in Sleepers, SetWakeTicks(u) PROVE Sound(t)'
  <2>1. u \in TaskIds /\ tasks[u] \in TaskType
    BY <1>1, SchedulerAssumption DEF TableOK
  <2>2. PICK n \in SleepTicks : tasks' = [tasks EXCEPT ![u].wake = n]
    BY <1>7 DEF SetWakeTicks
  <2>3. tasks' = [tasks EXCEPT ![u] = [tasks[u] EXCEPT !.wake = n]]
    BY <1>1, <2>1, <2>2 DEF TableOK
  <2>4. /\ tasks'[t].state = tasks[t].state
        /\ t # u => tasks'[t] = tasks[t]
    BY <1>1, <2>1, <2>3 DEF TableOK, TaskType
  <2>5. /\ pc[u] = "marked" /\ pc'[u] = "timed"
        /\ t # u => pc'[t] = pc[t]
        /\ current_task' = u /\ current_task = u /\ cut' = cut
    BY <1>1, <1>7, <2>1 DEF SetWakeTicks, At, Goto, PcType
  <2>6. QED
    BY <1>1, <2>4, <2>5 DEF Sound
<1>8. ASSUME NEW u \in Sleepers, SleepYield(u) PROVE Sound(t)'
  <2>1. pc'[t] = pc[t] \/ (pc[t] = "timed" /\ pc'[t] = "run")
    BY <1>1, <1>8 DEF SleepYield, At, Goto, PcType
  <2>2. QED
    BY <1>8, <2>1, ScheduleKeepsSound DEF SleepYield
<1>9. CASE UNCHANGED vars
  BY <1>1, <1>9 DEF vars, Sound
<1>10. QED
  BY <1>2, <1>3, <1>4, <1>5, <1>6, <1>7, <1>8, <1>9 DEF Next, CreateUser, Sleep

(* A sleep lasts until it is due, for every table, whichever tasks sleep   *)
(* and for however long, unless a tick came between the two stores of      *)
(* task_sleep, which loses the sleep whole, or task 0 stood in for an idle *)
(* task.                                                                   *)
THEOREM SleepsAlwaysLast == Spec => []SleepsLastUnlessCut
<1>1. Init => SleepInv
  <2>a. Init => CutOK
    BY DEF Init, CutOK, CutType
  <2> SUFFICES ASSUME Init, NEW t \in TaskIds PROVE Sound(t)
    BY <2>a DEF SleepInv
  <2>1. pc[t] = "run" /\ cut[t] = "nothing"
    BY DEF Init
  <2>2. tasks[t].wake = 0
    BY DEF Init, NewTask, EmptySlot
  <2>3. QED
    BY <2>1, <2>2 DEF Sound
<1>2. Spec => []SleepInv
  BY <1>1, Invariance, CutTyped, SleepInvHolds, PTL DEF Spec
<1>3. IInv /\ SleepInv => SleepsLastUnlessCut
  <2> SUFFICES ASSUME IInv, SleepInv, NEW t \in Created
               PROVE  /\ ~InSleep(t) /\ tasks[t].wake > 0
                           => cut[t] = "tick" \/ (t = Main /\ cut[t] = "idle")
                      /\ cut[t] = "tick" /\ pc[t] # "marked" => tasks[t].state # "SLEEPING"
    BY DEF SleepsLastUnlessCut
  <2>1. t \in TaskIds
    BY SchedulerAssumption DEF IInv, TypeInv, Created, TaskIds
  <2>2. QED
    BY <2>1 DEF SleepInv, Sound, InSleep
<1>4. QED
  BY <1>2, <1>3, Invariance, PTL
=============================================================================
