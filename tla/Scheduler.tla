------------------------------ MODULE Scheduler ------------------------------
(***************************************************************************)
(* The task table and the preemptive scheduler of src/task.c.  The timer   *)
(* interrupt and the `int $32` of task_yield run the same handler, so the  *)
(* two differ only in when they occur: a yield where the running task      *)
(* calls it, a tick between any two of its instructions.  The behaviour    *)
(* starts where kernel_main enables interrupts: the kernel's own task and  *)
(* the music task exist, and the former may go on to create user tasks.    *)
(*                                                                         *)
(* task_create_user and task_sleep write the table with interrupts on, so  *)
(* each is split where a tick can come between two of its stores; `pc` is  *)
(* where each task stands in them.  Names, pids and statistics are left    *)
(* out.  system_ticks only matters through wake_ticks - system_ticks, which *)
(* `wake` holds (0 once it is due).                                        *)
(***************************************************************************)
EXTENDS Integers

CONSTANTS MaxTasks,        \* MAX_TASKS
          MainPriority,    \* of the kernel's own task
          MusicPriority,   \* of the music task
          UserPriority,    \* of the tasks elf_load_and_run creates
          Sleepers,        \* the tasks that call task_sleep
          SleepTicks       \* the arguments they pass

TaskIds == 0 .. MaxTasks - 1
Main  == 0
Music == 1

ASSUME SchedulerAssumption ==
  /\ MaxTasks \in Nat /\ MaxTasks >= 2
  /\ MainPriority \in Nat /\ MusicPriority \in Nat /\ UserPriority \in Nat
  /\ 0 < UserPriority /\ UserPriority < MainPriority
  /\ 0 < MusicPriority /\ MusicPriority < MainPriority
  /\ Sleepers \subseteq TaskIds /\ SleepTicks \subseteq Nat

VARIABLES tasks,          \* the task table
          current_task,   \* index of the task on the CPU
          num_tasks,      \* slots in use
          pc,             \* where each task stands in task_create_user or task_sleep
          cut             \* what cut a task's latest sleep short (history)
vars == <<tasks, current_task, num_tasks, pc, cut>>

Created == 0 .. num_tasks - 1

-----------------------------------------------------------------------------
Quantum(priority) == priority * 2

(* A slot of the zeroed table: READY is the enumeration's zero, and the    *)
(* saved stack pointer is not one to switch to.                            *)
EmptySlot == [state |-> "READY", priority |-> 0, ticks_remaining |-> 0, wake |-> 0,
              built |-> FALSE]

NewTask(priority) == [state |-> "READY", priority |-> priority,
                      ticks_remaining |-> Quantum(priority), wake |-> 0, built |-> FALSE]

(* task_init and the music task's task_create, up to `sti`. *)
Init ==
  /\ tasks = [t \in TaskIds |->
       IF t = Main THEN [NewTask(MainPriority) EXCEPT !.state = "RUNNING", !.built = TRUE]
       ELSE IF t = Music THEN [NewTask(MusicPriority) EXCEPT !.built = TRUE]
       ELSE EmptySlot]
  /\ current_task = Main
  /\ num_tasks = 2
  /\ pc = [t \in TaskIds |-> "run"]
  /\ cut = [t \in TaskIds |-> "nothing"]

-----------------------------------------------------------------------------
(* schedule(), one step at a time. *)

CountDown(n) == IF n > 0 THEN n - 1 ELSE 0

WakeNobody(ts) == [t \in TaskIds |-> [ts[t] EXCEPT !.wake = CountDown(ts[t].wake)]]
WakeIgnoringTime(ts) ==
  [t \in TaskIds |->
     [ts[t] EXCEPT !.wake = CountDown(ts[t].wake),
                   !.state = IF t \in Created /\ @ = "SLEEPING" THEN "READY" ELSE @]]
(* The clock advances and the sleepers that are due become ready. *)
Wake(ts) ==
  [t \in TaskIds |->
     [ts[t] EXCEPT !.wake = CountDown(ts[t].wake),
                   !.state = IF t \in Created /\ @ = "SLEEPING" /\ ts[t].wake <= 1
                             THEN "READY" ELSE @]]

KeepsCpuToZero(ts) ==
  ts[current_task].ticks_remaining > 0 /\ ts[current_task].state = "RUNNING"
(* The running task has quantum left, and keeps the CPU. *)
KeepsCpu(ts) ==
  ts[current_task].ticks_remaining > 1 /\ ts[current_task].state = "RUNNING"

Preempted(ts) ==
  [ts EXCEPT ![current_task].state = IF @ = "RUNNING" THEN "READY" ELSE @]

Ready(ts) == {t \in Created : ts[t].state = "READY"}
AnyReady(ts) == Ready(ts)
LowestReady(ts) == {t \in Ready(ts) : \A u \in Ready(ts) : ts[t].priority <= ts[u].priority}
BestReady(ts) == {t \in Ready(ts) : \A u \in Ready(ts) : ts[u].priority <= ts[t].priority}

(* How far round the table a task is from the one after the running task. *)
Distance(t) == (t - (current_task + 1)) % num_tasks

(* The first of the best, round the table; task 0 when nobody is ready. *)
IsNext(ts, t) ==
  IF Ready(ts) = {}
  THEN t = Main
  ELSE t \in BestReady(ts) /\ \A u \in BestReady(ts) : Distance(t) <= Distance(u)

Dispatch(ts, t) ==
  [ts EXCEPT ![t].state = "RUNNING", ![t].ticks_remaining = Quantum(ts[t].priority)]

(* Nobody is ready: task 0 gets the CPU, asleep or not. *)
StandsIn ==
  LET woken == Wake(tasks) IN ~KeepsCpu(woken) /\ Ready(Preempted(woken)) = {}

(* History: schedule() entered between the two stores of task_sleep, or    *)
(* task 0 put on the CPU for want of a ready task.                         *)
CutShort ==
  cut' = [t \in TaskIds |->
            IF t = current_task /\ pc[t] = "marked" THEN "tick"
            ELSE IF t = Main /\ StandsIn /\ cut[t] = "nothing" THEN "idle"
            ELSE cut[t]]

Schedule ==
  /\ CutShort
  /\ LET woken == Wake(tasks) IN
       \/ /\ KeepsCpu(woken)
          /\ tasks' = [woken EXCEPT ![current_task].ticks_remaining = @ - 1]
          /\ UNCHANGED <<current_task, num_tasks>>
       \/ /\ ~KeepsCpu(woken)
          /\ \E next \in Created :
               /\ IsNext(Preempted(woken), next)
               /\ tasks' = Dispatch(Preempted(woken), next)
               /\ current_task' = next
          /\ UNCHANGED num_tasks

TimerTick == Schedule /\ UNCHANGED pc

Yield == pc[current_task] = "run" /\ Schedule /\ UNCHANGED pc

-----------------------------------------------------------------------------
(* task_create_user, which only the kernel's own task calls. *)

At(t, where) == current_task = t /\ pc[t] = where
Goto(t, where) == pc' = [pc EXCEPT ![t] = where]

(* The slot counts before any of its fields is written. *)
ReserveSlot ==
  /\ At(Main, "run")
  /\ num_tasks < MaxTasks
  /\ num_tasks' = num_tasks + 1
  /\ Goto(Main, "reserved")
  /\ UNCHANGED <<tasks, current_task, cut>>

NewId == num_tasks - 1

FillSlot ==
  /\ At(Main, "reserved")
  /\ tasks' = [tasks EXCEPT ![NewId] = NewTask(UserPriority)]
  /\ Goto(Main, "filled")
  /\ UNCHANGED <<current_task, num_tasks, cut>>

(* The last store: a stack the scheduler can switch to. *)
BuildStack ==
  /\ At(Main, "filled")
  /\ tasks' = [tasks EXCEPT ![NewId].built = TRUE]
  /\ Goto(Main, "run")
  /\ UNCHANGED <<current_task, num_tasks, cut>>

(* task_sleep: the state first, the wake-up time after it, then a yield. *)
MarkSleeping(t) ==
  /\ At(t, "run")
  /\ tasks' = [tasks EXCEPT ![t].state = "SLEEPING"]
  /\ Goto(t, "marked")
  /\ cut' = [cut EXCEPT ![t] = "nothing"]
  /\ UNCHANGED <<current_task, num_tasks>>

SetWakeTicks(t) ==
  /\ At(t, "marked")
  /\ \E n \in SleepTicks : tasks' = [tasks EXCEPT ![t].wake = n]
  /\ Goto(t, "timed")
  /\ UNCHANGED <<current_task, num_tasks, cut>>

SleepYield(t) ==
  /\ At(t, "timed")
  /\ Schedule
  /\ Goto(t, "run")

CreateUser == ReserveSlot \/ FillSlot \/ BuildStack
Sleep == \E t \in Sleepers : MarkSleeping(t) \/ SetWakeTicks(t) \/ SleepYield(t)

Next == TimerTick \/ Yield \/ CreateUser \/ Sleep

(* The PIT interrupts a hundred times a second and interrupts stay enabled. *)
Fairness == WF_vars(TimerTick)

Spec == Init /\ [][Next]_vars /\ Fairness

-----------------------------------------------------------------------------
TaskType == [state : {"READY", "RUNNING", "SLEEPING"}, priority : Nat,
             ticks_remaining : Nat, wake : Nat, built : BOOLEAN]

(* Type invariant; the task on the CPU always has quantum left, so that    *)
(* the unsigned ticks_remaining never wraps.                               *)
TypeOK ==
  /\ tasks \in [TaskIds -> TaskType]
  /\ num_tasks \in 2 .. MaxTasks
  /\ current_task \in Created
  /\ pc \in [TaskIds -> {"run", "reserved", "filled", "marked", "timed"}]
  /\ cut \in [TaskIds -> {"nothing", "tick", "idle"}]
  /\ tasks[current_task].ticks_remaining > 0

(* The scheduler never switches to a slot whose stack is not there yet,    *)
(* although the slot is READY and counted from the first store on.         *)
RunsOnlyBuiltTasks == tasks[current_task].built

InSleep(t) == pc[t] \in {"marked", "timed"} \/ tasks[t].state = "SLEEPING"

(* A sleep lasts until it is due, but for two cases.  A tick between the   *)
(* two stores of task_sleep (task.c:91-92) compares with the wake-up time  *)
(* of the sleep before, and loses the whole sleep: the task comes back     *)
(* awake, stores its wake-up time and goes on, never asleep.  And task 0   *)
(* is taken out of its sleep when nobody else is ready.                    *)
SleepsLastUnlessCut ==
  \A t \in Created :
    /\ ~InSleep(t) /\ tasks[t].wake > 0
         => cut[t] = "tick" \/ (t = Main /\ cut[t] = "idle")
    /\ cut[t] = "tick" /\ pc[t] # "marked" => tasks[t].state # "SLEEPING"

(* The kernel's own task, of the highest priority, always gets the CPU     *)
(* back, and a sleeper always becomes ready.                               *)
MainAlwaysReturns == []<>(current_task = Main)

SleepEnds == \A t \in TaskIds : tasks[t].state = "SLEEPING" ~> tasks[t].state # "SLEEPING"

(* "Monitoramento de processos em multitasking Round-Robin" (README.md):   *)
(* every task that is ready gets the CPU in its turn.                      *)
EveryReadyTaskRuns ==
  \A t \in TaskIds : (t \in Created /\ tasks[t].state = "READY") ~> (current_task = t)
=============================================================================
