---------------------------- MODULE JobScheduler ---------------------------
(***************************************************************************)
(* The scheduler of the trade execution job (app/jobs/job_scheduler.py) on *)
(* asyncio's event loop, from start to stop (the lifespan handler of       *)
(* app/main.py).                                                           *)
(*                                                                         *)
(* The loop runs one callback after the other, in the order they became    *)
(* ready.  A task is one callback after the other: between two it waits    *)
(* for a thread that runs the job, or sleeps.  Cancelling a task ends its  *)
(* wait; the thread goes on.                                               *)
(***************************************************************************)
EXTENDS Naturals, SequencesExt

CONSTANTS
    Periodic,   \* key of the task that start creates
    Triggered,  \* bound: keys of the tasks that trigger_job creates
    None

Task == Triggered \cup {Periodic}

VARIABLES
    enabled,    \* settings.run_scheduled_jobs
    task,       \* per task, where it waits
    cancelled,  \* the tasks that were cancelled
    table,      \* _tasks, in the order of its keys
    ready,      \* the loop's callbacks
    running,    \* the tasks whose thread runs the job
    stop        \* stop(): its place in the code, and in the table

schedulerVars == <<enabled, task, cancelled, table, ready, running, stop>>

\* Where a task may wait: for its first step, for its thread or its timer, or
\* for the step that thread or timer has asked for.
Waits == {"none", "created", "thread", "ran", "failed", "sleep", "woken", "done"}

Step(k) == [what |-> "step", task |-> k]
Pop(k) == [what |-> "pop", task |-> k]
Shutdown == [what |-> "shutdown", task |-> None]
Resume == [what |-> "resume", task |-> None]

NotStopped == [pc |-> "no", awaits |-> None, at |-> 0, size |-> 0]

-----------------------------------------------------------------------------
Init ==
    /\ enabled = FALSE
    /\ task = [k \in Task |-> "none"]
    /\ cancelled = {}
    /\ table = <<>>
    /\ ready = <<>>
    /\ running = {}
    /\ stop = [NotStopped EXCEPT !.pc = "down"]

\* start.
Start ==
    /\ stop.pc = "down"
    /\ stop' = NotStopped
    /\ \E e \in BOOLEAN :
           /\ enabled' = e
           /\ task' = [task EXCEPT ![Periodic] = IF e THEN "created" ELSE "none"]
           /\ table' = IF e THEN <<Periodic>> ELSE <<>>
           /\ ready' = IF e THEN <<Step(Periodic)>> ELSE <<>>
    /\ UNCHANGED <<cancelled, running>>

\* trigger_job, in a callback of its own.
Trigger(k) ==
    /\ stop.pc = "no"
    /\ k \in Triggered /\ task[k] = "none" /\ k \notin running
    /\ task' = [task EXCEPT ![k] = "created"]
    /\ table' = Append(table, k)
    /\ ready' = Append(ready, Step(k))
    /\ UNCHANGED <<enabled, cancelled, running, stop>>

\* Outside the loop: a run ends or raises, a timer expires.
ThreadEnds(k, how) ==
    /\ k \in running
    /\ running' = running \ {k}
    /\ IF task[k] = "thread" /\ k \notin cancelled
       THEN task' = [task EXCEPT ![k] = how] /\ ready' = Append(ready, Step(k))
       ELSE UNCHANGED <<task, ready>>
    /\ UNCHANGED <<enabled, cancelled, table, stop>>

TimerExpires(k) ==
    /\ task[k] = "sleep" /\ k \notin cancelled
    /\ task' = [task EXCEPT ![k] = "woken"]
    /\ ready' = Append(ready, Step(k))
    /\ UNCHANGED <<enabled, cancelled, table, running, stop>>

\* The process is asked to stop, once its requests are answered.
RequestStop ==
    /\ stop.pc = "no"
    /\ stop' = [stop EXCEPT !.pc = "requested"]
    /\ ready' = Append(ready, Shutdown)
    /\ UNCHANGED <<enabled, task, cancelled, table, running>>

-----------------------------------------------------------------------------
(* The loop's callbacks.                                                   *)

IsNext(callback) == ready # <<>> /\ Head(ready) = callback

\* A task's last step makes its callbacks ready: the one that removes it from
\* the table, if it was triggered, and the one of stop, if stop awaits it.
Callbacks(k) ==
    (IF k \in Triggered THEN <<Pop(k)>> ELSE <<>>)
        \o (IF stop.awaits = k THEN <<Resume>> ELSE <<>>)

Ends(k) ==
    /\ task' = [task EXCEPT ![k] = "done"]
    /\ ready' = Tail(ready) \o Callbacks(k)
    /\ UNCHANGED running

BeginsRun(k) ==
    /\ task' = [task EXCEPT ![k] = "thread"]
    /\ running' = running \cup {k}
    /\ ready' = Tail(ready)

GoesToSleep(k) ==
    /\ task' = [task EXCEPT ![k] = "sleep"]
    /\ ready' = Tail(ready)
    /\ UNCHANGED running

StepsThroughCancel(k) ==
    IF task[k] \in {"created", "woken"} /\ k \notin cancelled THEN BeginsRun(k)
    ELSE IF k = Periodic THEN GoesToSleep(k) ELSE Ends(k)

StepsWithoutExcept(k) ==
    IF k \in cancelled \/ task[k] = "failed" THEN Ends(k)
    ELSE IF task[k] \in {"created", "woken"} THEN BeginsRun(k)
    ELSE IF k = Periodic THEN GoesToSleep(k) ELSE Ends(k)

\* _run_job and _run_job_once: a run that raised is logged and counts as one
\* that ended; CancelledError ends the task.
Steps(k) ==
    IF k \in cancelled THEN Ends(k)
    ELSE IF task[k] \in {"created", "woken"} THEN BeginsRun(k)
    ELSE IF k = Periodic /\ task[k] \in {"ran", "failed"} THEN GoesToSleep(k)
    ELSE Ends(k)

TaskSteps(k) ==
    /\ IsNext(Step(k))
    /\ Steps(k)
    /\ UNCHANGED <<enabled, cancelled, table, stop>>

\* self._tasks.pop(key); once stop has emptied the table it finds nothing.
TaskIsPopped(k) ==
    /\ IsNext(Pop(k))
    /\ ready' = Tail(ready)
    /\ \/ \E i \in DOMAIN table : table[i] = k /\ table' = RemoveAt(table, i)
       \/ k \notin ToSet(table) /\ UNCHANGED table
    /\ task' = [task EXCEPT ![k] = "none"]
    /\ cancelled' = cancelled \ {k}
    /\ UNCHANGED <<enabled, running, stop>>

\* "for task in self._tasks.values(): await task", from one task on: those
\* that have ended do not make it wait.
AwaitFrom(first) ==
    LET open == {i \in first .. Len(table) : task[table[i]] # "done"}
        at == CHOOSE i \in open : \A j \in open : i <= j
    IN  IF open # {}
        THEN /\ stop' = [pc |-> "waits", awaits |-> table[at], at |-> at, size |-> Len(table)]
             /\ UNCHANGED table
        ELSE /\ stop' = [NotStopped EXCEPT !.pc = "over"]
             /\ table' = <<>>

StopCancelsNone ==
    /\ IsNext(Shutdown)
    /\ ready' = Tail(ready)
    /\ AwaitFrom(1)
    /\ UNCHANGED <<enabled, task, cancelled, running>>

StopMakesAllReady ==
    /\ IsNext(Shutdown)
    /\ cancelled' = cancelled \cup ToSet(table)
    /\ ready' = Tail(ready) \o [i \in 1 .. Len(table) |-> Step(table[i])]
    /\ AwaitFrom(1)
    /\ UNCHANGED <<enabled, task, running>>

\* The places in the table of the tasks that wait, in its order.
Waiting ==
    {places \in SetToSeqs({i \in DOMAIN table : task[table[i]] \in {"thread", "sleep"}}) :
        \A a, b \in DOMAIN places : a < b => places[a] < places[b]}

\* stop cancels every task: those that wait are made ready, in the order of
\* the table.  Then it awaits the first.
StopCancels ==
    /\ IsNext(Shutdown)
    /\ cancelled' = cancelled \cup {k \in ToSet(table) : task[k] # "done"}
    /\ \E places \in Waiting :
           ready' = Tail(ready) \o [a \in DOMAIN places |-> Step(table[places[a]])]
    /\ AwaitFrom(1)
    /\ UNCHANGED <<enabled, task, running>>

\* The task awaited has ended.  The iterator finds the table as it was, or
\* raises: "dictionary changed size during iteration".
StopResumes ==
    /\ IsNext(Resume)
    /\ ready' = Tail(ready)
    /\ IF Len(table) = stop.size THEN AwaitFrom(stop.at + 1)
       ELSE stop' = [NotStopped EXCEPT !.pc = "raised"] /\ UNCHANGED table
    /\ UNCHANGED <<enabled, task, cancelled, running>>

\* The process ends when the loop has nothing left to do and the threads of
\* its pool are over.
Over ==
    /\ stop.pc \in {"over", "raised"}
    /\ ready = <<>> /\ running = {}

\* It ends so, or by a crash.
End ==
    /\ stop' = [NotStopped EXCEPT !.pc = "down"]
    /\ task' = [k \in Task |-> "none"]
    /\ cancelled' = {} /\ table' = <<>> /\ ready' = <<>> /\ running' = {}
    /\ UNCHANGED enabled

-----------------------------------------------------------------------------
Callback ==
    \/ \E k \in Task : TaskSteps(k) \/ TaskIsPopped(k)
    \/ StopCancels \/ StopResumes

Outside ==
    \E k \in Task : ThreadEnds(k, "ran") \/ ThreadEnds(k, "failed") \/ TimerExpires(k)

\* The task table, the loop and the tasks hold what their declarations say; a
\* task has at most one step among the callbacks.
TypeOK ==
    /\ enabled \in BOOLEAN
    /\ task \in [Task -> Waits]
    /\ cancelled \subseteq Task /\ running \subseteq Task
    /\ table \in Seq(Task) /\ IsInjective(table)
    /\ ready \in Seq([what : {"step", "pop"}, task : Task] \cup {Shutdown, Resume})
    /\ IsInjective(ready)
    /\ stop \in [pc : {"down", "no", "requested", "waits", "over", "raised"},
                 awaits : Task \cup {None}, at : Nat, size : Nat]
=============================================================================
