--------------------------- MODULE TaskScheduler ----------------------------
(***************************************************************************)
(* The client's task queue (src/src/utils/taskscheduler.cpp): one task     *)
(* runs at a time, in the order they were scheduled.                       *)
(*                                                                         *)
(* Everything happens on one thread, but not one call at a time: a task's  *)
(* run() schedules and deletes tasks, and may complete before it returns.  *)
(* `starting' says that maybeRunTask() has taken a task and is about to    *)
(* call its run(); nothing else happens before it does.  After that, what  *)
(* run() does and what happens while it waits are the same steps.          *)
(*                                                                         *)
(* A definition named <Handler>_<slip> is a mutant of <Handler>.           *)
(***************************************************************************)
EXTENDS Naturals, Sequences, Selections

CONSTANTS
  Tasks,         \* the task objects
  NoTask,        \* nullptr
  Policy,        \* Policy[t]: Task::deletePolicy() of t
  MaxPaused,     \* bound on nested pause() calls
  ForcedModes    \* the deletions of this instance (TRUE: forced)

DeletePolicy == {"Deletable", "NonDeletable", "Reschedulable"}

ASSUME TasksAssumption == NoTask \notin Tasks
ASSUME PolicyAssumption == Policy \in [Tasks -> DeletePolicy]
ASSUME SchedulerBounds == MaxPaused \in Nat /\ ForcedModes \in SUBSET BOOLEAN

VARIABLES
  m_tasks,         \* the queue
  m_running_task,  \* the task that was taken from it, NoTask if none
  m_paused,        \* calls of pause() not yet resumed
  starting,        \* run() of m_running_task is about to be called
  deferred         \* reschedulable tasks waiting for their zero timers

schedVars == <<m_tasks, m_running_task, m_paused, starting, deferred>>

\* Types of the scheduler's members (taskscheduler.cpp): pauses and resumes are
\* paired, so the count never goes below zero.
SchedTypeOK ==
  /\ m_tasks \in Seq(Tasks)
  /\ m_running_task \in Tasks \cup {NoTask}
  /\ m_paused \in Nat
  /\ starting \in BOOLEAN
  /\ deferred \in Seq(Tasks)

SchedInit ==
  /\ m_tasks = <<>>
  /\ m_running_task = NoTask
  /\ m_paused = 0
  /\ starting = FALSE
  /\ deferred = <<>>

-----------------------------------------------------------------------------

maybeRunTask_newestFirst(q, r, p) ==
  IF r = NoTask /\ q # <<>> /\ p = 0
  THEN /\ m_tasks' = SubSeq(q, 1, Len(q) - 1)
       /\ m_running_task' = q[Len(q)]
       /\ starting' = TRUE
  ELSE /\ m_tasks' = q
       /\ m_running_task' = r
       /\ starting' = FALSE

\* maybeRunTask() with queue q, running task r and p pauses.
maybeRunTask(q, r, p) ==
  IF r = NoTask /\ q # <<>> /\ p = 0
  THEN /\ m_tasks' = Tail(q)
       /\ m_running_task' = Head(q)
       /\ starting' = TRUE
  ELSE /\ m_tasks' = q
       /\ m_running_task' = r
       /\ starting' = FALSE

\* maybeRunTask() calls run().
runTask ==
  /\ starting
  /\ starting' = FALSE
  /\ UNCHANGED <<m_tasks, m_running_task, m_paused, deferred>>

\* The objects the scheduler holds; a completed or deleted one is gone.
Held == {m_running_task} \cup {m_tasks[i] : i \in DOMAIN m_tasks}
          \cup {deferred[i] : i \in DOMAIN deferred}

scheduleTask(t) ==
  /\ ~starting
  /\ t \in Tasks \ Held
  /\ maybeRunTask(Append(m_tasks, t), m_running_task, m_paused)
  /\ UNCHANGED <<m_paused, deferred>>

taskCompleted_queueNotChecked ==
  /\ ~starting
  /\ m_running_task # NoTask
  /\ m_running_task' = NoTask
  /\ UNCHANGED <<m_tasks, starting, m_paused, deferred>>

\* The running task emits completed().
taskCompleted ==
  /\ ~starting
  /\ m_running_task # NoTask
  /\ maybeRunTask(m_tasks, NoTask, m_paused)
  /\ UNCHANGED <<m_paused, deferred>>

Kept_alsoReschedulable(t) == Policy[t] # "Deletable"

\* A deletion that is not forced leaves t where it is.
Kept(t) == Policy[t] = "NonDeletable"

\* It takes t out and schedules it again from a zero timer.
Rescheduled(t) == Policy[t] = "Reschedulable"

\* It cancels t if it is running.
Cancelled(t) == Policy[t] = "Deletable"

\* deleteTasks() and forceDeleteTasks().
deleteTasks(forced) ==
  LET kept == {i \in DOMAIN m_tasks : Kept(m_tasks[i])}
      moved == {i \in DOMAIN m_tasks : Rescheduled(m_tasks[i])}
      r == IF m_running_task # NoTask /\ (forced \/ Cancelled(m_running_task))
           THEN NoTask ELSE m_running_task
  IN
  /\ ~starting
  /\ deferred' = IF forced THEN deferred ELSE deferred \o AtPositions(m_tasks, moved)
  /\ maybeRunTask(IF forced THEN <<>> ELSE AtPositions(m_tasks, kept), r, m_paused)
  /\ UNCHANGED m_paused

\* The zero timer of a task that deleteTasks() took out of the queue.
rescheduled ==
  /\ ~starting
  /\ deferred # <<>>
  /\ deferred' = Tail(deferred)
  /\ maybeRunTask(Append(m_tasks, Head(deferred)), m_running_task, m_paused)
  /\ UNCHANGED m_paused

pause ==
  /\ ~starting
  /\ m_paused < MaxPaused
  /\ m_paused' = m_paused + 1
  /\ UNCHANGED <<m_tasks, m_running_task, starting, deferred>>

resume_unpaired ==
  /\ ~starting
  /\ m_paused' = m_paused - 1
  /\ maybeRunTask(m_tasks, m_running_task, m_paused - 1)
  /\ UNCHANGED deferred

\* Callers pair it with pause().
resume ==
  /\ ~starting
  /\ m_paused > 0
  /\ m_paused' = m_paused - 1
  /\ maybeRunTask(m_tasks, m_running_task, m_paused - 1)
  /\ UNCHANGED deferred

SchedNext ==
  \/ runTask
  \/ taskCompleted
  \/ rescheduled
  \/ \E t \in Tasks : scheduleTask(t)
  \/ \E forced \in ForcedModes : deleteTasks(forced)
  \/ pause
  \/ resume

SchedSpec == SchedInit /\ [][SchedNext]_schedVars

-----------------------------------------------------------------------------

\* The queue never stands still with nothing running: no completion, deletion
\* or resume forgets to look for the next task.
NoStall == m_running_task = NoTask /\ m_tasks # <<>> => m_paused > 0

\* No object is in two places of the scheduler, so none is run or deleted
\* twice: deleteTasks() moves reschedulable tasks, it does not copy them.
HeldOnce ==
  /\ \A i, j \in DOMAIN m_tasks : m_tasks[i] = m_tasks[j] => i = j
  /\ \A i, j \in DOMAIN deferred : deferred[i] = deferred[j] => i = j
  /\ \A i \in DOMAIN m_tasks, j \in DOMAIN deferred : m_tasks[i] # deferred[j]
  /\ \A i \in DOMAIN m_tasks : m_tasks[i] # m_running_task
  /\ \A j \in DOMAIN deferred : deferred[j] # m_running_task

\* t waits in the queue in front of u.
Before(t, u) ==
  \E i, j \in DOMAIN m_tasks : i < j /\ m_tasks[i] = t /\ m_tasks[j] = u

\* Two tasks that must not be deleted (an activation and a deactivation) are
\* never swapped: the later one does not start while the earlier one waits.
OrderKept ==
  [][\A t, u \in Tasks :
       /\ Before(t, u)
       /\ Policy[t] = "NonDeletable"
       /\ Policy[u] = "NonDeletable"
       /\ m_running_task' = u
       => m_running_task = u]_schedVars

NonDeletable == {t \in Tasks : Policy[t] = "NonDeletable"}
Queued(t) == \E i \in DOMAIN m_tasks : m_tasks[i] = t

\* A task that must not be deleted leaves the queue to be run, whatever is
\* deleted, rescheduled or paused meanwhile, unless the client quits, which
\* empties the scheduler by force.
LeavesToRun ==
  [][\A t \in NonDeletable : Queued(t) /\ ~Queued(t)' =>
        m_running_task' = t \/ (m_running_task' = NoTask /\ m_tasks' = <<>>)]_schedVars

\* And it does not stay there for ever.
NonDeletableLeaves == \A t \in NonDeletable : []<>~Queued(t)

\* The safe part: the queue moves and holds no task twice, and tasks that must
\* not be deleted are run, in their order.
TasksInOrder == []NoStall /\ []HeldOnce /\ OrderKept /\ LeavesToRun

\* What the callers of TaskScheduler count on: that, and that tasks which must
\* not be deleted do run once they are scheduled.
TasksServed == TasksInOrder /\ NonDeletableLeaves

=============================================================================
