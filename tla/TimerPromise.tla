---------------------------- MODULE TimerPromise ----------------------------
(***************************************************************************)
(* What a user of Timer may rely on (timer.h): a task that was scheduled   *)
(* runs at its time or later, the earliest first and one at a time; one    *)
(* that was cancelled does not start; when cancel() has returned, nothing  *)
(* runs any more.  No queue, no lock, no thread.                           *)
(***************************************************************************)
EXTENDS Integers

CONSTANTS Tasks, NoTask, MaxTime

VARIABLES
    pending,        \* the tasks that are scheduled and not cancelled
    due,            \* when each of them is to run; 0 for the others
    running,        \* the task that is being run
    terminating,    \* Timer::cancel() has been called
    terminated,     \* and has returned
    now

vars == <<pending, due, running, terminating, terminated, now>>

Init ==
    /\ pending = {}
    /\ due = [t \in Tasks |-> 0]
    /\ running = NoTask
    /\ terminating = FALSE
    /\ terminated = FALSE
    /\ now = 0

\* A task is scheduled, or a scheduled or cancelled one rescheduled.
Schedule(t) ==
    /\ ~terminating
    /\ pending' = pending \cup {t}
    /\ due' = [due EXCEPT ![t] = due'[t]]
    /\ UNCHANGED <<running, terminating, terminated, now>>

Cancel(t) ==
    /\ ~terminated
    /\ pending' = pending \ {t}
    /\ due' = [due EXCEPT ![t] = 0]
    /\ UNCHANGED <<running, terminating, terminated, now>>

\* A task starts when its time has come, no other is running and none is due before it.
CanStart(t) ==
    /\ ~terminating
    /\ running = NoTask
    /\ t \in pending
    /\ due[t] <= now
    /\ \A u \in pending : due[t] <= due[u]

StartOnce(t) ==
    /\ CanStart(t)
    /\ running' = t
    /\ pending' = pending \ {t}
    /\ due' = [due EXCEPT ![t] = 0]
    /\ UNCHANGED <<terminating, terminated, now>>

StartRepeating(t) ==
    /\ CanStart(t)
    /\ running' = t
    /\ due' = [due EXCEPT ![t] = due'[t]]
    /\ due'[t] > due[t]
    /\ UNCHANGED <<pending, terminating, terminated, now>>

End ==
    /\ running # NoTask
    /\ running' = NoTask
    /\ UNCHANGED <<pending, due, terminating, terminated, now>>

Terminate ==
    /\ terminating' = TRUE
    /\ UNCHANGED <<pending, due, running, terminated, now>>

Terminated ==
    /\ terminating
    /\ running = NoTask
    /\ terminated' = TRUE
    /\ pending' = {}
    /\ due' = [t \in Tasks |-> 0]
    /\ UNCHANGED <<running, terminating, now>>

Tick ==
    /\ now < MaxTime
    /\ now' = now + 1
    /\ UNCHANGED <<pending, due, running, terminating, terminated>>

Next ==
    \/ \E t \in Tasks : Schedule(t) \/ Cancel(t) \/ StartOnce(t) \/ StartRepeating(t)
    \/ End \/ Terminate \/ Terminated \/ Tick

Spec == Init /\ [][Next]_vars

=============================================================================
