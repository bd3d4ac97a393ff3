---------------------------- MODULE TaskScheduler ----------------------------
(***************************************************************************)
(* The task table and the scheduler queue of task/task.c: a table of at    *)
(* most MAX_TASKS pointers and a doubly linked list through the tasks      *)
(* themselves.  A task is named by its id; ids are never reused, so the    *)
(* name of a freed task is a dangling pointer wherever it is still stored. *)
(*                                                                         *)
(* One action is one call of the API, made by the kernel's only thread, or *)
(* one timer interrupt.  Left out: energy, memory and message fields,      *)
(* health figures other than the state they lead to, and task groups.      *)
(***************************************************************************)
EXTENDS Integers, Sequences, FiniteSets, SequencesExt

CONSTANTS
  MAX_TASKS,   \* slots of task_table
  MaxSpawns,   \* bound: how many tasks are spawned
  MaxCareless  \* bound: how many calls the list is not written for

ASSUME TaskAssumption ==
  {MAX_TASKS, MaxSpawns} \subseteq Nat \ {0} /\ MaxCareless \in Nat

Task == 1 .. MaxSpawns
NULL == 0

VARIABLES
  spawned,     \* the last task_id given out
  taskTable,   \* task_table: a task or NULL in each slot
  state,       \* task->state; "freed" once the structure is
  next, prev,  \* task->next, task->prev
  head, tail,  \* scheduler_head, scheduler_tail
  current,     \* current_task
  onCpu,       \* the task whose context the CPU runs, NULL for the boot thread
  due,         \* all tasks but those whose sleep_until is still to come
  stale,       \* the tasks whose last progress is 200 ms ago or more
  parked,      \* history: tasks put to sleep or parked by the last call that
               \* named them
  careless     \* how many calls so far the list is not written for

listVars == <<next, prev, head, tail>>
tableVars == <<spawned, taskTable>>
clockVars == <<due, stale>>
vars == <<tableVars, state, listVars, current, onCpu, clockVars, parked, careless>>

States == {"none", "running", "waiting", "sleeping", "throttled", "stalled", "freed"}

Init ==
  /\ spawned = 0
  /\ taskTable = [i \in 1 .. MAX_TASKS |-> NULL]
  /\ state = [t \in Task |-> "none"]
  /\ next = [t \in Task |-> NULL] /\ prev = [t \in Task |-> NULL]
  /\ head = NULL /\ tail = NULL
  /\ current = NULL /\ onCpu = NULL
  /\ due = Task /\ stale = {} /\ parked = {}
  /\ careless = 0

\* task_get finds t.
Known(t) == t \in ToSet(taskTable)

-------------------------------------------------------------------------------
(***************************************************************************)
(* scheduler_enqueue and scheduler_dequeue, which trust their caller: the  *)
(* first does not ask whether the task is in the list, the second takes    *)
(* a task without neighbours for its only one.                             *)
(***************************************************************************)
scheduler_enqueue(t) ==
  /\ prev' = [prev EXCEPT ![t] = tail]
  /\ next' = [u \in Task |-> IF u = tail THEN t
                             ELSE IF u = t THEN NULL ELSE next[u]]
  /\ head' = IF tail = NULL THEN t ELSE head
  /\ tail' = t

\* Mutant: leaves scheduler_tail alone.
DequeueKeepsTail(t) ==
  /\ next' = [u \in Task |-> IF u = t THEN NULL ELSE IF u = prev[t] THEN next[t] ELSE next[u]]
  /\ prev' = [u \in Task |-> IF u = t THEN NULL ELSE IF u = next[t] THEN prev[t] ELSE prev[u]]
  /\ head' = IF prev[t] = NULL THEN next[t] ELSE head
  /\ UNCHANGED tail

scheduler_dequeue(t) ==
  LET p == prev[t]
      n == next[t]
      nextByPrev == [u \in Task |-> IF u = p THEN n ELSE next[u]]
      prevByNext == [u \in Task |-> IF u = n THEN p ELSE prev[u]]
  IN  /\ next' = [nextByPrev EXCEPT ![t] = NULL]
      /\ prev' = [prevByNext EXCEPT ![t] = NULL]
      /\ head' = IF p = NULL THEN n ELSE head
      /\ tail' = IF n = NULL THEN p ELSE tail

-------------------------------------------------------------------------------
(***************************************************************************)
(* The API.  A call that finds no task, or not in the state it asks for,   *)
(* returns -1 and changes nothing: it is a stuttering step.                *)
(***************************************************************************)
FreeSlots == {i \in 1 .. MAX_TASKS : taskTable[i] = NULL}

\* With a full table the id is spent and the structure freed again.
task_spawn ==
  /\ spawned < MaxSpawns
  /\ LET t == spawned + 1
     IN  /\ spawned' = t
         /\ IF FreeSlots = {}
            THEN /\ state' = [state EXCEPT ![t] = "freed"]
                 /\ UNCHANGED <<taskTable, listVars>>
            ELSE /\ taskTable' = [taskTable EXCEPT ![Min(FreeSlots)] = t]
                 /\ state' = [state EXCEPT ![t] = "running"]
                 /\ scheduler_enqueue(t)
  /\ UNCHANGED <<current, onCpu, clockVars, parked>>

\* Mutant: without task_table_remove.
KillKeepsSlot(t) ==
  /\ Known(t)
  /\ scheduler_dequeue(t)
  /\ state' = [state EXCEPT ![t] = "freed"]
  /\ due' = due \cup {t} /\ stale' = stale \ {t} /\ parked' = parked \ {t}
  /\ UNCHANGED <<tableVars, current, onCpu>>

task_kill(t) ==
  /\ Known(t)
  /\ scheduler_dequeue(t)
  /\ state' = [state EXCEPT ![t] = "freed"]
  /\ taskTable' = [i \in 1 .. MAX_TASKS |->
                     IF taskTable[i] = t THEN NULL ELSE taskTable[i]]
  /\ due' = due \cup {t} /\ stale' = stale \ {t} /\ parked' = parked \ {t}
  /\ UNCHANGED <<spawned, current, onCpu>>

task_sleep(t) ==
  /\ Known(t)
  /\ state' = [state EXCEPT ![t] = "sleeping"]
  /\ due' = due \ {t}
  /\ scheduler_dequeue(t)
  /\ parked' = parked \cup {t}
  /\ UNCHANGED <<tableVars, current, onCpu, stale>>

\* Mutant: without the test of the state.
WakeAnyState(t) ==
  /\ Known(t)
  /\ state' = [state EXCEPT ![t] = "running"]
  /\ due' = due \cup {t} /\ parked' = parked \ {t}
  /\ scheduler_enqueue(t)
  /\ UNCHANGED <<tableVars, current, onCpu, stale>>

\* DROWSY and HIBERNATING are never set: only a SLEEPING task can be woken.
task_wake(t) ==
  /\ Known(t) /\ state[t] = "sleeping"
  /\ state' = [state EXCEPT ![t] = "running"]
  /\ due' = due \cup {t}
  /\ scheduler_enqueue(t)
  /\ parked' = parked \ {t}
  /\ UNCHANGED <<tableVars, current, onCpu, stale>>

task_pause(t) ==
  /\ Known(t)
  /\ state' = [state EXCEPT ![t] = "throttled"]
  /\ scheduler_dequeue(t)
  /\ parked' = parked \cup {t}
  /\ UNCHANGED <<tableVars, current, onCpu, clockVars>>

\* Mutant: sets the state and forgets the queue.
ResumeStateOnly(t) ==
  /\ Known(t) /\ state[t] = "throttled"
  /\ state' = [state EXCEPT ![t] = "running"]
  /\ parked' = parked \ {t}
  /\ UNCHANGED <<tableVars, listVars, current, onCpu, clockVars>>

task_resume(t) ==
  /\ Known(t) /\ state[t] = "throttled"
  /\ state' = [state EXCEPT ![t] = "running"]
  /\ scheduler_enqueue(t)
  /\ parked' = parked \ {t}
  /\ UNCHANGED <<tableVars, current, onCpu, clockVars>>

\* Leaves the task in the queue.
task_throttle(t) ==
  /\ Known(t)
  /\ state' = [state EXCEPT ![t] = "throttled"]
  /\ parked' = parked \ {t}
  /\ UNCHANGED <<tableVars, listVars, current, onCpu, clockVars>>

-------------------------------------------------------------------------------
(***************************************************************************)
(* Time and the timer interrupt.  last_progress_time is set by task_spawn  *)
(* and by nothing else.  The recovery branch of task_auto_recover needs a  *)
(* health below 30, and without events no task falls below 47.             *)
(***************************************************************************)
TimePasses ==
  /\ \E t \in ToSet(taskTable) \ {NULL} :
       \/ due' = due \cup {t} /\ t \notin due /\ UNCHANGED stale
       \/ stale' = stale \cup {t} /\ t \notin stale /\ UNCHANGED due
  /\ UNCHANGED <<tableVars, state, listVars, current, onCpu, parked>>

task_scheduler_tick ==
  /\ state' = [t \in Task |-> IF Known(t) /\ t \in stale THEN "stalled" ELSE state[t]]
  /\ UNCHANGED <<tableVars, listVars, current, onCpu, clockVars, parked>>

-------------------------------------------------------------------------------
(***************************************************************************)
(* task_scheduler_next and task_scheduler_yield.                           *)
(***************************************************************************)
\* What task_scheduler_next returns when the states are st: the head, or the
\* task after a head that still sleeps.
SleepingHead(st) == head # NULL /\ st[head] = "sleeping"
Candidate(st) == IF SleepingHead(st) /\ head \notin due THEN next[head] ELSE head

\* It becomes current_task if it runs or its sleep is over.
Picks(st) ==
  LET t == Candidate(st)
  IN  t # NULL /\ (st[t] = "running" \/ (SleepingHead(st) /\ t = head /\ head \in due))

\* "Move head to tail", for the task picked.
MoveToTail(t) ==
  LET h == next[t]
  IN  /\ head' = h
      /\ next' = [u \in Task |-> IF u = tail THEN t
                                 ELSE IF u = t THEN NULL ELSE next[u]]
      /\ prev' = [u \in Task |-> IF u = t THEN tail
                                 ELSE IF u = h THEN NULL ELSE prev[u]]
      /\ tail' = t

SchedulerNext(st) ==
  LET t == Candidate(st)
  IN  IF Picks(st)
      THEN /\ MoveToTail(t)
           /\ current' = t
           /\ state' = [st EXCEPT ![t] = "running"]
      ELSE /\ state' = st
           /\ UNCHANGED <<listVars, current>>

task_scheduler_next ==
  /\ SchedulerNext(state)
  /\ UNCHANGED <<tableVars, onCpu, clockVars, parked>>

\* SchedulerNext has made the task it picked current_task by the time the
\* result is compared with current_task.
task_scheduler_yield ==
  /\ current # NULL
  /\ LET st == [state EXCEPT ![current] = "waiting"]
         got == Candidate(st)
     IN  IF got \in {NULL, current} \/ Picks(st)
         THEN SchedulerNext(st) /\ UNCHANGED onCpu
         ELSE /\ state' = [st EXCEPT ![got] = "running"]
              /\ current' = got /\ onCpu' = got
              /\ UNCHANGED listVars
  /\ UNCHANGED <<tableVars, clockVars, parked>>

-------------------------------------------------------------------------------
(***************************************************************************)
(* The queue the list stands for: the tasks from head on along next.       *)
(***************************************************************************)
Walk[n \in 0 .. MaxSpawns] ==
  IF n = 0 THEN head ELSE IF Walk[n - 1] = NULL THEN NULL ELSE next[Walk[n - 1]]
Length == Cardinality({n \in 0 .. MaxSpawns - 1 : Walk[n] # NULL})
Queue == [i \in 1 .. Length |-> Walk[i - 1]]
Queued == ToSet(Queue)

\* The calls the list is written for: a task is put to sleep, paused or killed
\* only while it is in the queue, nothing is throttled, the current task is not
\* killed, and the next task is asked for when there are two in the queue and
\* the first may run.
CarefulCall ==
  \/ task_spawn
  \/ \E t \in Queued : (task_kill(t) /\ t # current) \/ task_sleep(t) \/ task_pause(t)
  \/ \E t \in Task : task_wake(t) \/ task_resume(t)
  \/ Length >= 2 /\ state[head] = "running" /\ task_scheduler_next

\* The other calls, which EVENT_PROC_* events may ask for at any time;
\* EVENT_PROC_EXIT kills the current task.
CarelessCall ==
  \/ \E t \in Task \ Queued : task_kill(t) \/ task_sleep(t) \/ task_pause(t)
  \/ current # NULL /\ task_kill(current)
  \/ \E t \in Task : task_throttle(t)
  \/ task_scheduler_next
  \/ task_scheduler_yield

\* No pointer of the kernel leads to a freed task.  What the code does after
\* following one that does is undefined: the model stops there.
Intact ==
  \A t \in Task : state[t] = "freed" =>
    /\ t \notin {head, tail, current, onCpu}
    /\ \A u \in Task : state[u] # "freed" => t \notin {next[u], prev[u]}

Next ==
  /\ Intact
  /\ \/ CarefulCall /\ UNCHANGED careless
     \/ CarelessCall /\ careless < MaxCareless /\ careless' = careless + 1
     \/ TimePasses /\ UNCHANGED careless
     \/ task_scheduler_tick /\ UNCHANGED careless

Spec == Init /\ [][Next]_vars

-------------------------------------------------------------------------------
(***************************************************************************)
(* Properties.                                                             *)
(***************************************************************************)

\* Every variable has its type; the ids given out are those of the tasks that
\* exist or have existed.
TypeOK ==
  /\ spawned \in 0 .. MaxSpawns
  /\ taskTable \in [1 .. MAX_TASKS -> Task \cup {NULL}]
  /\ state \in [Task -> States]
  /\ \A t \in Task : state[t] = "none" <=> t > spawned
  /\ {next, prev} \subseteq [Task -> Task \cup {NULL}]
  /\ {head, tail, current, onCpu} \subseteq Task \cup {NULL}
  /\ {due, stale, parked} \subseteq SUBSET Task
  /\ careless \in 0 .. MaxCareless

\* task_table holds each task that exists in exactly one slot and no freed one,
\* whatever calls are made in whatever order: no task is leaked, and task_get
\* never returns a dangling pointer.
TableExact ==
  /\ ToSet(taskTable) \ {NULL} = {t \in Task : state[t] \notin {"none", "freed"}}
  /\ \A i, j \in 1 .. MAX_TASKS :
       i # j /\ taskTable[i] # NULL => taskTable[i] # taskTable[j]

\* As long as the list is used as it is written for, the fields next and prev,
\* scheduler_head and scheduler_tail describe one and the same queue, without
\* repetition and without freed tasks.
QueueWellFormed ==
  careless = 0 =>
    /\ IsInjective(Queue)
    /\ \A t \in Queued : Known(t)
    /\ tail = IF Queue = <<>> THEN NULL ELSE Last(Queue)
    /\ \A i \in 1 .. Length :
         /\ prev[Queue[i]] = IF i = 1 THEN NULL ELSE Queue[i - 1]
         /\ next[Queue[i]] = IF i = Length THEN NULL ELSE Queue[i + 1]

\* Then a task that may run is in the queue the scheduler takes its tasks from,
\* and a task that was put to sleep or paused is not.
RunnableQueued ==
  careless = 0 =>
    \A t \in Task :
      /\ state[t] = "running" => t \in Queued
      /\ t \in parked => t \notin Queued

\* And then every call is a step of the run queue, or leaves it as it is.
Abstract == INSTANCE RunQueue WITH queue <- Queue
ImplementsRunQueue == [][careless' = 0 => Abstract!Next \/ Queue' = Queue]_vars
===============================================================================
