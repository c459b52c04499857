------------------------------- MODULE Timer -------------------------------
(***************************************************************************)
(* commonlib's Timer: one thread that runs tasks at their time, out of a   *)
(* queue that any other thread fills and edits (timer.cpp, task_impl.h).   *)
(*                                                                         *)
(* Every access to queue_, isCancelled_ and the tasks' Impl happens under  *)
(* TimerImpl::lock_, so a critical section is one step.  The timer thread  *)
(* gives the lock up when it waits on the condition, when it runs a task   *)
(* and when it destroys the task it has run; those are its program points. *)
(* The bodies of tasks run on the timer thread without the lock: what they *)
(* ask of the timer is a call like any other thread's.                     *)
(***************************************************************************)
EXTENDS Integers, SequencesExt

CONSTANTS
    Tasks,      \* the task objects that may be created
    Names,      \* the non-empty names
    NoName,     \* the empty name
    NameOf,     \* Task::get_name()
    NoTask,     \* the null pointer
    Callers,    \* threads that may terminate the timer with Timer::cancel()
    Delays,     \* delays in milliseconds, "can be negative"
    Periods,    \* periods; 0 for a task that runs once
    MaxTime,    \* bound of the clock
    Throwing    \* tasks whose run() may end with an exception

ASSUME NamesAssumption == NoName \notin Names /\ NameOf \in [Tasks -> Names \cup {NoName}]
ASSUME NoTaskAssumption == NoTask \notin Tasks
ASSUME TimesAssumption ==
    MaxTime \in Nat /\ Delays \subseteq Int /\ Periods \subseteq Nat
ASSUME ThrowingAssumption == Throwing \subseteq Tasks

VARIABLES
    queue,              \* queue_: the front is the task to run next
    isCancelled,        \* isCancelled_
    sem,                \* the value of sem_
    impl,               \* Task::Impl of each task: state_, period_, nextExecutionTime_
    external,           \* the tasks whose externalOwnership_ is true
    freed,              \* the tasks that have been deleted
    owner,              \* who must delete the task, as timer.h tells the callers; "both":
                        \* taken back, and then put on the timer again by reschedule()
    executedTask,       \* run()'s local: a task that has run for the last time
    current,            \* the task whose run() is being executed
    thread,             \* where the timer thread is
    deadline,           \* until when a timed wait lasts
    caller,             \* where each caller is inside Timer::cancel()
    now                 \* current_time()

implVars == <<impl, external>>
threadVars == <<executedTask, current>>
sleepVars == <<thread, deadline>>
vars == <<queue, isCancelled, sem, impl, external, freed, owner, executedTask, current,
          thread, deadline, caller, now>>

States == {"NA", "SCHEDULED", "CANCELLED", "EXECUTED"}
Impl == [state : States, period : Nat, nextExecutionTime : Int]
NewImpl == [state |-> "NA", period |-> 0, nextExecutionTime |-> 0]
Asleep == {"wait", "timed_wait"}
ThreadPoints == {"lock", "run", "destroy", "posted", "exited", "dead"} \cup Asleep
CallerPoints == {"idle", "sem_wait", "join", "clean", "done"}

Queued == ToSet(queue)

TypeOK ==
    /\ queue \in Seq(Tasks)
    /\ isCancelled \in BOOLEAN
    /\ sem \in Nat
    /\ impl \in [Tasks -> Impl]
    /\ external \subseteq Tasks
    /\ freed \subseteq Tasks
    /\ owner \in [Tasks -> {"caller", "timer", "both", "nobody"}]
    /\ executedTask \in Tasks \cup {NoTask}
    /\ current \in Tasks \cup {NoTask}
    /\ thread \in ThreadPoints
    /\ deadline \in Int
    /\ caller \in [Callers -> CallerPoints]
    /\ now \in Nat

\* Task::Task gives every field its first value; Timer::Timer starts the thread,
\* which runs up to the point where it takes the lock.
Init ==
    /\ queue = <<>>
    /\ isCancelled = FALSE
    /\ sem = 0
    /\ impl = [t \in Tasks |-> NewImpl]
    /\ external = {}
    /\ freed = {}
    /\ owner = [t \in Tasks |-> "caller"]
    /\ executedTask = NoTask
    /\ current = NoTask
    /\ thread = "lock"
    /\ deadline = 0
    /\ caller = [c \in Callers |-> "idle"]
    /\ now = 0

-----------------------------------------------------------------------------
(* The queue *)

\* p is where std::lower_bound stops for a time: everything before it is earlier,
\* nothing from it on is.
IsLowerBound(q, ts, time, p) ==
    /\ \A i \in 1 .. (p - 1) : ts[q[i]].nextExecutionTime < time
    /\ \A i \in p .. Len(q) : time <= ts[q[i]].nextExecutionTime

\* Mutant: the list is not kept sorted.
Push_Back(q, t, ts) == queue' = Append(q, t)

\* push(): among tasks of equal time the newest comes first.
Push(q, t, ts) ==
    \E p \in 1 .. (Len(q) + 1) :
        /\ IsLowerBound(q, ts, ts[t].nextExecutionTime, p)
        /\ queue' = InsertAt(q, p, t)

\* find_if(queue_, IsEqualTaskName(n)) stops at i.
IsFirstNamed(i, n) ==
    /\ i \in DOMAIN queue
    /\ NameOf[queue[i]] = n
    /\ \A j \in 1 .. (i - 1) : NameOf[queue[j]] # n

\* schedule() refuses the name: only the first task that bears it is looked at.
NameTaken(t) ==
    /\ NameOf[t] # NoName
    /\ \E i \in DOMAIN queue :
        IsFirstNamed(i, NameOf[t]) /\ impl[queue[i]].state # "CANCELLED"

WakeUp == thread' = "lock" /\ deadline' = 0

\* Mutant: nobody tells the timer thread.
Signal_Lost == UNCHANGED sleepVars

\* cond_.signal(): the timer thread is the only one that waits.
Signal == IF thread \in Asleep THEN WakeUp ELSE UNCHANGED sleepVars

SignalIfFront(t) == IF queue'[1] = t THEN Signal ELSE UNCHANGED sleepVars

\* What is left of the tasks in S after delete: nothing that may be read.
Delete(S) ==
    /\ freed' = freed \cup S
    /\ impl' = [t \in Tasks |-> IF t \in S THEN NewImpl ELSE impl[t]]
    /\ external' = external \ S

-----------------------------------------------------------------------------
(* Calls, from other threads or from the body of the running task *)

\* What schedule(), scheduleAtTime() and reschedule() write into the task.
SetTimes(t, time, per) ==
    /\ impl' = [impl EXCEPT ![t] =
            [state |-> "SCHEDULED", period |-> per, nextExecutionTime |-> time]]
    /\ UNCHANGED external

\* A caller hands over a task it owns.  Where the code throws (timer cancelled,
\* name taken, task queued already) nothing changes and the caller keeps the task.
Accept(t, time, per) ==
    /\ owner[t] = "caller"
    /\ ~isCancelled
    /\ ~NameTaken(t)
    /\ t \notin Queued
    /\ SetTimes(t, time, per)
    /\ Push(queue, t, impl')
    /\ SignalIfFront(t)
    /\ owner' = [owner EXCEPT ![t] = "timer"]
    /\ UNCHANGED <<isCancelled, sem, freed, threadVars, caller, now>>

Schedule(t) ==
    \E d \in Delays, per \in Periods :
        now + d <= MaxTime /\ Accept(t, now + d, per)

ScheduleAtTime(t) ==
    \E time \in 0 .. MaxTime, per \in Periods : Accept(t, time, per)

\* reschedule(): finds the task by its address, gives it its new time where it
\* stands, and moves it.  A cancelled task that is still queued is scheduled again, also
\* one that its caller has taken back: externalOwnership_ is not touched, and timer.h does
\* not say whose the task is then.
Reschedule(t) ==
    \E d \in Delays, per \in Periods, i \in DOMAIN queue :
        /\ now + d <= MaxTime
        /\ ~isCancelled
        /\ queue[i] = t
        /\ SetTimes(t, now + d, per)
        /\ Push(RemoveAt(queue, i), t, impl')
        /\ SignalIfFront(t)
        /\ owner' = [owner EXCEPT ![t] = IF @ = "caller" THEN "both" ELSE @]
        /\ UNCHANGED <<isCancelled, sem, freed, threadVars, caller, now>>

\* Both cancel(task) and cancel(name) only mark the task: the timer thread drops it
\* when it reaches the front of the queue.
Mark(t, takeOwnership) ==
    /\ impl' = [impl EXCEPT ![t].state = "CANCELLED"]
    /\ external' = IF takeOwnership THEN external \cup {t} ELSE external \ {t}
    /\ owner' = [owner EXCEPT ![t] = IF takeOwnership THEN "caller" ELSE "timer"]
    /\ UNCHANGED <<queue, isCancelled, sem, freed, threadVars, sleepVars, caller, now>>

CancelTask(t, takeOwnership) == t \in Queued /\ Mark(t, takeOwnership)

CancelNamed(n, takeOwnership) ==
    \E i \in DOMAIN queue : IsFirstNamed(i, n) /\ Mark(queue[i], takeOwnership)

\* The owner of a task deletes it, as Mainframe::create_task does when schedule()
\* throws.  timer.h warns it off a task that is still queued.
DeleteOwned(t) ==
    /\ owner[t] = "caller"
    /\ t \notin Queued
    /\ Delete({t})
    /\ owner' = [owner EXCEPT ![t] = "nobody"]
    /\ UNCHANGED <<queue, isCancelled, sem, threadVars, sleepVars, caller, now>>

-----------------------------------------------------------------------------
(* Timer::cancel() *)

\* Only the first call terminates the timer; a later one returns at once.
CancelTimer(c) ==
    /\ caller[c] = "idle"
    /\ ~isCancelled
    /\ isCancelled' = TRUE
    /\ Signal
    /\ caller' = [caller EXCEPT ![c] = "sem_wait"]
    /\ UNCHANGED <<queue, sem, implVars, freed, owner, threadVars, now>>

CancelWait(c) ==
    /\ caller[c] = "sem_wait"
    /\ sem > 0
    /\ sem' = sem - 1
    /\ caller' = [caller EXCEPT ![c] = "join"]
    /\ UNCHANGED <<queue, isCancelled, implVars, freed, owner, threadVars, sleepVars, now>>

\* Mutant: cancel() does not wait until the thread has ended.
CancelJoin_Skipped(c) ==
    /\ caller[c] = "join"
    /\ caller' = [caller EXCEPT ![c] = "clean"]
    /\ UNCHANGED <<queue, isCancelled, sem, implVars, freed, owner, threadVars,
                   sleepVars, now>>

CancelJoin(c) ==
    /\ caller[c] = "join"
    /\ thread = "exited"
    /\ caller' = [caller EXCEPT ![c] = "clean"]
    /\ UNCHANGED <<queue, isCancelled, sem, implVars, freed, owner, threadVars,
                   sleepVars, now>>

Clean(c) ==
    /\ caller[c] = "clean"
    /\ Delete(Queued \ external)
    /\ queue' = <<>>
    /\ caller' = [caller EXCEPT ![c] = "done"]
    /\ UNCHANGED <<isCancelled, sem, owner, threadVars, sleepVars, now>>

-----------------------------------------------------------------------------
(* The timer thread *)

WaitForTask ==
    /\ thread = "lock"
    /\ queue = <<>> /\ ~isCancelled
    /\ thread' = "wait"
    /\ UNCHANGED <<queue, isCancelled, sem, implVars, freed, owner, threadVars,
                   deadline, caller, now>>

\* Posts the semaphore with the lock held, then unlocks it on the way out.
Stop ==
    /\ thread = "lock"
    /\ isCancelled
    /\ sem' = sem + 1
    /\ thread' = "posted"
    /\ UNCHANGED <<queue, isCancelled, implVars, freed, owner, threadVars, deadline,
                   caller, now>>

Exit ==
    /\ thread = "posted"
    /\ thread' = "exited"
    /\ UNCHANGED <<queue, isCancelled, sem, implVars, freed, owner, threadVars,
                   deadline, caller, now>>

\* Mutant: isCancelled_ is looked at only when there is nothing to do.
HasFront_First == thread = "lock" /\ queue # <<>>

\* The thread holds the lock, goes on running, and has a task at the front.
HasFront == thread = "lock" /\ ~isCancelled /\ queue # <<>>

\* Mutant: externalOwnership_ is not looked at.
DropCancelled_Deletes ==
    /\ HasFront
    /\ impl[Head(queue)].state = "CANCELLED"
    /\ queue' = Tail(queue)
    /\ Delete({Head(queue)})
    /\ UNCHANGED <<isCancelled, sem, owner, threadVars, sleepVars, caller, now>>

DropCancelled ==
    /\ HasFront
    /\ impl[Head(queue)].state = "CANCELLED"
    /\ queue' = Tail(queue)
    /\ Delete({Head(queue)} \ external)
    /\ UNCHANGED <<isCancelled, sem, owner, threadVars, sleepVars, caller, now>>

\* Mutant: a cancelled task fires.
IsDue_Cancelled(t) == impl[t].nextExecutionTime <= now

\* fireTask
IsDue(t) == impl[t].state # "CANCELLED" /\ impl[t].nextExecutionTime <= now

StartTask(t) ==
    /\ current' = t
    /\ thread' = "run"
    /\ UNCHANGED <<isCancelled, sem, external, freed, owner, deadline, caller, now>>

FireOnce ==
    LET t == Head(queue) IN
    /\ HasFront /\ IsDue(t)
    /\ impl[t].period = 0
    /\ queue' = Tail(queue)
    /\ impl' = [impl EXCEPT ![t].state = "EXECUTED"]
    /\ executedTask' = t
    /\ StartTask(t)

\* Mutant: a repeating task, too, is destroyed when it has run.
FireRepeating_Destroys ==
    LET t == Head(queue) IN
    /\ HasFront /\ IsDue(t)
    /\ impl[t].period # 0
    /\ impl' = [impl EXCEPT ![t].nextExecutionTime = @ + impl[t].period]
    /\ Push(Tail(queue), t, impl')
    /\ StartTask(t)
    /\ executedTask' = t

\* A repeating task goes back into the queue before it runs.
FireRepeating ==
    LET t == Head(queue) IN
    /\ HasFront /\ IsDue(t)
    /\ impl[t].period # 0
    /\ impl' = [impl EXCEPT ![t].nextExecutionTime = @ + impl[t].period]
    /\ Push(Tail(queue), t, impl')
    /\ StartTask(t)
    /\ UNCHANGED executedTask

SleepUntilDue ==
    LET t == Head(queue) IN
    /\ HasFront
    /\ impl[t].state # "CANCELLED"
    /\ impl[t].nextExecutionTime > now
    /\ deadline' = impl[t].nextExecutionTime
    /\ thread' = "timed_wait"
    /\ UNCHANGED <<queue, isCancelled, sem, implVars, freed, owner, threadVars,
                   caller, now>>

Timeout ==
    /\ thread = "timed_wait"
    /\ deadline <= now
    /\ WakeUp
    /\ UNCHANGED <<queue, isCancelled, sem, implVars, freed, owner, threadVars,
                   caller, now>>

\* POSIX lets a wait return with no signal.
SpuriousWakeup ==
    /\ thread \in Asleep
    /\ WakeUp
    /\ UNCHANGED <<queue, isCancelled, sem, implVars, freed, owner, threadVars,
                   caller, now>>

\* Mutant: the top of the loop drops executedTask.
RunReturns_Forgets ==
    /\ thread = "run"
    /\ current' = NoTask
    /\ thread' = "lock"
    /\ executedTask' = NoTask
    /\ UNCHANGED <<queue, isCancelled, sem, implVars, freed, owner, deadline, caller,
                   now>>

RunReturns ==
    /\ thread = "run"
    /\ current' = NoTask
    /\ thread' = IF executedTask = NoTask THEN "lock" ELSE "destroy"
    /\ UNCHANGED <<queue, isCancelled, sem, implVars, freed, owner, executedTask,
                   deadline, caller, now>>

\* Nothing in run() catches: the exception ends the thread in Thread::launcher.
RunThrows ==
    /\ thread = "run"
    /\ current \in Throwing
    /\ current' = NoTask
    /\ thread' = "dead"
    /\ UNCHANGED <<queue, isCancelled, sem, implVars, freed, owner, executedTask,
                   deadline, caller, now>>

DestroyExecuted ==
    /\ thread = "destroy"
    /\ Delete({executedTask})
    /\ executedTask' = NoTask
    /\ thread' = "lock"
    /\ UNCHANGED <<queue, isCancelled, sem, owner, current, deadline, caller, now>>

Tick ==
    /\ now < MaxTime
    /\ now' = now + 1
    /\ UNCHANGED <<queue, isCancelled, sem, implVars, freed, owner, threadVars,
                   sleepVars, caller>>

-----------------------------------------------------------------------------

Call ==
    \/ \E t \in Tasks :
        \/ Schedule(t)
        \/ ScheduleAtTime(t)
        \/ Reschedule(t)
        \/ DeleteOwned(t)
        \/ \E take \in BOOLEAN : CancelTask(t, take)
    \/ \E n \in Names, take \in BOOLEAN : CancelNamed(n, take)

Terminate(c) == CancelTimer(c) \/ CancelWait(c) \/ CancelJoin(c) \/ Clean(c)

TimerThread ==
    \/ WaitForTask \/ Stop \/ Exit
    \/ DropCancelled \/ FireOnce \/ FireRepeating \/ SleepUntilDue
    \/ Timeout \/ RunReturns \/ RunThrows \/ DestroyExecuted

Next ==
    \/ Call
    \/ \E c \in Callers : Terminate(c)
    \/ TimerThread
    \/ SpuriousWakeup
    \/ Tick

Spec == Init /\ [][Next]_vars

\* The scheduler runs every thread that can run, the bodies of tasks return or
\* throw, and time passes; nobody is obliged to call.
FairSpec ==
    /\ Spec
    /\ WF_vars(TimerThread)
    /\ WF_vars(Tick)
    /\ \A c \in Callers : WF_vars(CancelWait(c) \/ CancelJoin(c) \/ Clean(c))

-----------------------------------------------------------------------------
(* Safety *)

\* Every pointer the timer will still follow leads to a task that has not been
\* deleted, and it holds no pointer twice (timer.cpp:113-117, 140-147, 351-358: each
\* of the three deletions is of a task that is nowhere else).
MemorySafe ==
    /\ Queued \cap freed = {}
    /\ IsInjective(queue)
    /\ executedTask \notin freed \cup Queued
    /\ current \notin freed

\* "The task will not be deleted by the timer" (timer.h:61-62): of the tasks whose ownership
\* a caller holds, because it never handed them over or because it took them back with
\* cancel(task, true), the timer deletes none; neither when it drops a cancelled task nor
\* when it discards the queue.  The code keeps the promise but for one order of calls: a
\* task that was taken back and then rescheduled while it was still queued is deleted by
\* the timer after its last run (timer.cpp:113-117, 157-161), and only then.
TakenNeverDestroyed ==
    [][\A t \in freed' \ freed :
        \/ owner'[t] = "nobody"                           \* its owner deletes it
        \/ owner[t] = "timer"
        \/ owner[t] = "both" /\ t = executedTask]_vars

\* "The task with smaller nextExecutionTime_ has higher priority" (timer.cpp:19):
\* push, pop, repetition and rescheduling keep the list sorted.
Ordered(q, ts) ==
    \A i, j \in DOMAIN q :
        i < j => ts[q[i]].nextExecutionTime <= ts[q[j]].nextExecutionTime

QueueOrdered == Ordered(queue, impl)

\* No wakeup is lost: when the timer thread sleeps there is nothing it should be
\* doing, and it will wake no later than the front of the queue is due, whatever was
\* scheduled, moved or cancelled while it slept.
NeverOversleeps ==
    /\ thread \in Asleep => ~isCancelled
    /\ thread = "wait" => queue = <<>>
    /\ thread = "timed_wait" =>
        queue # <<>> /\ deadline <= impl[Head(queue)].nextExecutionTime

\* The timer deletes a task only after it is done with it, and never forgets one it
\* must delete, except the one whose exception ended the thread.
NoTaskLost ==
    \A t \in Tasks :
        owner[t] = "timer" /\ t \notin external =>
            t \in Queued \cup freed \cup {executedTask}

\* "Terminates this timer, discarding and deleting any currently scheduled tasks"
\* (timer.h:57): from the moment cancel() starts to delete them no task runs, and
\* when it has returned nothing is queued and all that was its to delete is deleted.
TerminatedIsQuiet ==
    \A c \in Callers :
        /\ caller[c] \in {"clean", "done"} => thread = "exited" /\ current = NoTask
        /\ caller[c] = "done" =>
            /\ queue = <<>>
            /\ \A t \in Tasks : owner[t] = "timer" => t \in freed \cup external

\* Nobody is left alone in Timer::cancel(): whoever waits for the semaphore will find it
\* posted, or the timer thread is awake on its way to post it; whoever joins the thread
\* finds it past the post (timer.cpp:124-131, 362-386).  An exception of a task, which
\* ends the thread, is the only thing that strands the caller.
CancelIsAnswered ==
    \A c \in Callers :
        /\ caller[c] = "sem_wait" =>
            sem > 0 \/ thread \in {"lock", "run", "destroy", "dead"}
        /\ caller[c] = "join" => thread \in {"posted", "exited"}

-----------------------------------------------------------------------------
(* The inductive invariant *)

\* The locals of run(): a task is being run exactly at the point where run() calls
\* it, and the task to destroy is remembered only until the top of the loop.
ThreadLocals ==
    /\ thread = "run" <=> current # NoTask
    /\ thread = "destroy" => executedTask # NoTask
    /\ executedTask # NoTask => thread \in {"run", "destroy", "dead"}
    /\ current # NoTask => current \in Queued \cup {executedTask}

\* A queued task is the timer's, unless it was cancelled and taken back.
Ownership ==
    /\ \A t \in Queued :
        \/ owner[t] = "timer"
        \/ owner[t] = "caller" /\ t \in external /\ impl[t].state = "CANCELLED"
        \/ owner[t] = "both" /\ t \in external /\ impl[t].state = "SCHEDULED"
    /\ executedTask # NoTask => owner[executedTask] \in {"timer", "both"}

\* What a caller owns has not been deleted.
OwnedAlive == \A t \in Tasks : owner[t] = "caller" => t \notin freed

\* cancel() goes past the join only when the thread has ended, and the thread ends
\* only when it was told to.
Termination ==
    /\ \A c \in Callers : caller[c] \in {"clean", "done"} => thread = "exited"
    /\ thread \in {"posted", "exited"} => isCancelled
    /\ \A c \in Callers : caller[c] = "done" => queue = <<>>

MemoryInv ==
    MemorySafe /\ ThreadLocals /\ Ownership /\ OwnedAlive /\ NoTaskLost /\ Termination

SleepInv == QueueOrdered /\ NeverOversleeps

\* One caller terminates the timer, and the semaphore is posted for it once.
PostInv ==
    /\ \A c, d \in Callers : caller[c] # "idle" /\ caller[d] # "idle" => c = d
    /\ \A c \in Callers : caller[c] # "idle" => isCancelled
    /\ sem > 0 => thread \in {"posted", "exited"}
    /\ thread \in {"posted", "exited"} => \A c \in Callers : caller[c] = "sem_wait" => sem > 0
    /\ \A c \in Callers : caller[c] = "join" => thread \in {"posted", "exited"}

-----------------------------------------------------------------------------
(* Liveness *)

\* The bound of the clock stands for a moment after every time that matters here.
Due(t) ==
    t \in Queued /\ impl[t].state = "SCHEDULED" /\ impl[t].nextExecutionTime < MaxTime

\* A task is put in front of t.
Ahead(t) == {queue[i] : i \in {j \in DOMAIN queue : \E k \in DOMAIN queue : j < k /\ queue[k] = t}}
Overtaken(t) == ~(Ahead(t)' \subseteq Ahead(t))

\* A scheduled task is run at last, unless it is cancelled or moved to a later time or
\* the timer is terminated: no order of calls leaves the thread asleep on it.  Only
\* callers that for ever put overdue tasks in front of it (of equal times the newest
\* goes first, timer.cpp:97) can keep it waiting.
DueTaskRuns ==
    \A t \in Tasks :
        []<><<Overtaken(t)>>_vars \/ (Due(t) ~> (~Due(t) \/ isCancelled))

\* Timer::cancel() returns, in whatever state it finds the timer thread.
CancelReturns == \A c \in Callers : caller[c] = "sem_wait" ~> caller[c] = "done"

\* How many steps the timer thread has at most before it when cancel() has been called.
ThreadLeft ==
    CASE thread = "run" -> 4 [] thread = "destroy" -> 3 [] thread = "lock" -> 2
      [] thread = "posted" -> 1 [] OTHER -> 0

\* From then on it starts no task and never sleeps again: each of its steps brings its end
\* nearer, whatever else is called (timer.cpp:120-131).
EndNears == [][isCancelled => thread' = thread \/ ThreadLeft' < ThreadLeft]_vars

-----------------------------------------------------------------------------
(* What the timer promises *)

Scheduled == {t \in Queued : impl[t].state = "SCHEDULED"}

Promise == INSTANCE TimerPromise WITH
    due <- [t \in Tasks |-> IF t \in Scheduled THEN impl[t].nextExecutionTime ELSE 0],
    pending <- Scheduled,
    running <- current,
    terminating <- isCancelled,
    terminated <- \E c \in Callers : caller[c] = "done"

\* Every behaviour of the timer is one the promise allows.
KeepsPromise == Promise!Spec

=============================================================================
