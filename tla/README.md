# Verification of fmultitransfer

TLA+ models of the file-transfer programs of this repository, the instances TLC
checks them on, and theorems about them that TLAPS proves for every instance.

## The system

Two programs share a small library.

* **fileclient** has a console thread (`Mainframe`) and the thread of a `Timer`. The
  console schedules a `ConnectionTask` (`N`, `R`), closes a connection (`X`) or picks a
  file for one (`F`), which schedules a `SendingTask`. Each `SendingTask` reads one
  package, sends it and schedules the next, until the finish tag has been sent.
* **fileserver** has a console thread (`Dispatcher`), an accepting thread
  (`FileServer`) and the thread of a `Timer`. For each accepted connection a
  `RecvTask` is scheduled; each receives one buffer, has it parsed, writes it and
  schedules the next.
* **commonlib** holds `Timer`, `Thread`, `Mutex`, `Condition`, `Semaphore`,
  `RefCounted`, the sockets, `File`, `Message` and conversions.

There is no README and there are no tests in the repository: what the code promises
stands in the comments of its headers, in the menus and in the messages it prints.

### Inventory

| Component | State | Operations | What makes it correct |
|---|---|---|---|
| Timer, Task | sorted list of task pointers, state, period, time and ownership flag of each task, `isCancelled_`, semaphore, the locals of `run()` | schedule, scheduleAtTime, reschedule, cancel(task), cancel(name), cancel(), the loop of `run()` | nothing deleted is used or deleted again, no task forgotten, list sorted, no lost wakeup, due tasks run, cancel() returns and then nothing runs |
| SendingTask | file position, static `filePartSent` | one run per package | the bytes sent are the start tags, the file, the finish tag; the chain ends |
| BufferReceiver, BufferParser, RecvTask | open file, static `commonsize` | one run per buffer | a file called done is the one sent; errors are reported; the chain goes on |
| Dispatcher, FileServer | `fd2file_`, `fd2socket_`, `running_`, listening socket | run, shutdown, create_task; accept loop, stop | no task outlives what it points to, no chain breaks, shutdown ends |
| Mainframe, ConnectionTask | `fd2sockets_`, `fd2file_`, settings | the menu's commands, create/destroy/newlink_task | commands act on the connection named, no command ends the console, references balance |
| RefCounted, RefCountedPtr | the count | add_ref, release, reset, abandon | freed once, when nobody holds it |
| Thread | `m_id`, lock | start, join, cancel, launcher | a thread is joined once; exceptions do not pass unseen |
| Mutex, Guard, Condition, Semaphore | owner, waiters, count | lock, unlock, wait, timed_wait, post | exclusion, also when locks nest |
| Message | `size_`, `allocated_` | set, add, reserve, resize, erase | size never exceeds what is allocated, contents kept |
| split, check_IP, conversions | none | pure | agree with a reference definition |

Components meet in four places: calls into `Timer` from any thread; tasks, which run
on the timer's thread and call back into `TaskFactory::create_task`; objects shared by
threads without a lock (`fd2sockets_`, `fd2file_`, reference counts); and the TCP
connection between the programs.

The hard behaviours are those `PROJECT.json` lists as hazards: calls while a task runs
without the lock; two statics shared by all connections; a protocol whose tags TCP may
cut or join; an exception that leaves a task and ends the timer's thread; a shutdown
that waits for that thread.

## Modules

| Module | Models |
|---|---|
| `Timer` | `timer.cpp`, `task_impl.h`. A critical section of `lock_` is one step. The timer thread has a program point wherever it does not hold the lock: asleep on the condition, running a task, deleting the task it ran, ending. Callers of the terminating `cancel()` have one for each thing they wait for. |
| `TimerPromise` | What a user of `Timer` may rely on, without queue, lock or thread. `Timer` is checked to implement it, `Server` is built on it. |
| `TimerProofs`, `ServerProofs`, `TransferProofs`, `ClientProofs`, `ThreadsProofs`, `ConditionProofs`, `RefCountedProofs`, `MessageProofs` | Theorems about the module of that name; `TimerProofs` also that `Timer` implements `TimerPromise`. |
| `Transfer` | `SendingTask::run` of each client, the connections, and `RecvTask::run` with `BufferReceiver::receive` and `BufferParser` of the server, byte by byte. |
| `Server` | `Dispatcher`, `FileServer` and the life of the `RecvTask` chains; `INSTANCE TimerPromise` stands for `runner_`. |
| `Client` | The console (`Mainframe`), `ConnectionTask`, `SendingTask` and the shutdown of the client; `INSTANCE TimerPromise` stands for `timer_`. |
| `Mutex` | `mutex.cpp` in both POSIX builds: the system's recursive mutex, and the normal one with the remembered owner. |
| `Threads` | One `Thread` object on `Mutex`: `start`, `join`, `cancel`, `launcher`, called from outside and from the thread itself. |
| `Condition` | The condition that the Windows half of `condition.cpp` builds from a count and two events. |
| `RefCounted` | The count, read and written in one step or in two, and `RefCountedPtr`. |
| `Message` | `message.h`: the block with its real length, `size_`, `allocated_`. |
| `Conversions` | `split`, `trimWhiteSpace`, printing of integers, `check_IP`, the deadline of `timed_wait`. |
| `TimerMC`, `TransferMC`, `ServerMC`, `ClientMC`, `ThreadsMC`, `ConditionMC`, `RefCountedMC`, `DataMC` | Values of the constants for TLC; `DataMC` also the reference definitions for `Conversions`. |

In `Timer` a task is a model value, and `freed` is the set of those deleted: a property
about dangling pointers says that nothing still pointed to is in it. `owner` is not in
the code; it records who must delete a task according to the comments of `timer.h`, and
the calls are given only to those that follow these comments (a caller deletes or
schedules only a task it owns, and does not delete one that is still queued, as
`timer.h:67-70` warns). `reschedule()` has no such rule, neither in `timer.h` nor in the
code, and is given to any queued task: where the caller had taken the task back, it is
from then on the caller's by `timer.h:61-62` and the timer's by what `run()` does, and
`owner` says `both`. A call that throws changes nothing and is therefore no step.
A task is not scheduled again by its own running body: `timer.h` has it deleted
afterwards. The other side of this, `RunThrows`, is an exception out of a task's
`run()`, which ends the thread.

In `Transfer` a byte is a record that says which file it is of and where it stands there,
or that it belongs to a tag. So no content is ever taken for a tag, which the code,
comparing bytes in the stream, cannot know (`server_parser.cpp:67`, `:99`): files that
hold the text of a tag are outside the model, and outside what is said of it (see "What
does not hold"). The server recognises whole tags only, as the code does. `recv()` returns
any prefix of what has arrived, up to `RecvMax`. What the code reads outside a buffer
(`server_parser.cpp:65`, `:104`) either does no harm or crashes the process. A run of
`SendingTask` is two steps, since the console may close the connection after the task has
found it open. The console does not pick a file for a connection whose chain still runs:
that deletes the file under the task and is in `Client`. Files have distinct names.

In `Server` the two callers of `create_task` may be in the unlocked `fd2file_` at the
same time; when one inserts, the process may crash (`RacedCrash`). `ReceiveThrows` is
any exception of a receive. The greeting of any connection may throw (`GreetThrows`): of
one that was reset `getpeername()` always fails, of a healthy one the resolver may
(`ipaddress.cpp:44-55`). `accept()` throws when the socket is closed, and may where a
connection waits that the system does not give. Either ends the acceptor, as any
exception does.

`Client` takes the timer as `TimerPromise` describes it, every task being due at once,
and adds three things the promise leaves open: a repeating task is queued while it
runs; a cancelled one stays in the queue for a while (`lingering`), where it bears its
name; a task that throws ends the thread. A task is the record of what it was
constructed with. A `SendingTask` reads and sends in single steps without data: the
bytes are in `Transfer`. `create_task()` is two steps, because it hands the connection
over in a static that both threads write. Where two threads are in a map at once and
one inserts, or a deleted `File` is read, the process may crash (`Crash`) or go on.
`wanted`, `overlapped` and `replaced` are not in the code; they record what was asked
for and which of the code's two races has happened. Several things the code does are
modelled as they are: `X` checks the address of the last `N`, not the one typed, and
loops for ever when there was none (`stuck`); its `"sendtask"` is no task's name; `R`
works on no connection, a closed one throws out of the console and an open one may, when
its host has no name; a second `N` for an
address ends the console, unless a cancelled task hides the name; the descriptor of a
closed connection, when it is given again, leaves the new one out of `fd2sockets_`. The
sockets of the client block (only the server makes its own non-blocking,
`server_parser.cpp:138`), so the answer `ERR_WOULDBLOCK` of `connect()`, with which
`tcpclient.cpp:38-46` would return an unopened socket, is left out.

`Threads` and `Condition` cut a call wherever another thread may see its effect. Any
caller may cancel the thread, the thread itself among them, as the dispatcher does
(`dispatcher.cpp:40`); one `cancel()` of a behaviour is a bound of the model. The
mutexes of `Threads` are `INSTANCE Mutex`; which build it is, is chosen in the initial
state, as is interlocked counting in `RefCounted`. Behaviours that POSIX leaves
undefined (unlocking another's mutex, joining a joined thread, cancelling one) end in
the state `undefined`; in `RefCounted` a race on a count ends the behaviour.

In `Message` a byte nobody wrote is `Junk`, and `promised` is what the calls so far
should have left. Copying an empty message is left out, as the programs never do it: it
would throw or leave a block that the assertion of `clear()` forbids. In `Conversions` a
text is a sequence of digits and a few other characters.

## Runs

| Run | Question | Instance |
|---|---|---|
| `timer_safety` | memory, who deletes what, order, wakeups, termination; is whoever waits in `cancel()` answered, does the thread only come nearer to its end | three tasks, two of one name, one that may throw; delays of -1 and 1, periods 0 and 1, clock 0..1; one terminating caller |
| `timer_live` | due tasks run, `cancel()` returns, the promise is kept | two tasks, clock 0..2, no exceptions |
| `transfer` | is what the server calls done what was sent; does the sending chain end; does any buffer end the receiving one? | one connection; an empty file, one of exactly two packages, one that cannot be written |
| `transfer_clients` | do clients, or the connections of one, disturb one another; is anything lost in silence; does each run of a task bring its chain nearer to the end? | two clients, one of which has two connections and uses them in turns; a file shorter than a package, one of a package and a half |
| `transfer_done` | (violation) is a file called done the original? | one connection, two files |
| `server` | connections against shutdown: who outlives whom, does a chain break in silence, does each step bring the end nearer, does it come | three connections |
| `server_quit` | (violation) does Q end the server? | one connection |
| `client` | do tasks send on their own connection; are files there while tasks need them; is an address tried again and again, can links be found by id; does each step of the shutdown bring its end nearer, does it come | one address, two connections and descriptors, two files |
| `threads` | exclusion with nested locks; is each thread joined once; is there a circle of waits; does every call return | two callers, two threads one after the other, both builds |
| `condition` | is a signal or a broadcast lost, before its waiters wake or later | two waiters, each wait timed or not; two notifiers |
| `refcounted` | is an object freed once, when nobody holds it | two objects, three pointers, two threads, two loose references, both builds |
| `data` | does a message hold what was put in; do the functions agree with their reference definitions | two messages of up to three bytes; all texts of up to five characters of three kinds, 4,600 addresses, all numbers of nine bits |

**Bounds.** Three tasks are enough for a task in front of, behind and equal to another
in the queue while a third runs; names matter only as equal or not. A clock of two or
three values gives overdue, due and future times; liveness leaves out times at the bound
itself. Packages and tags are two bytes, so that each can be cut once in the middle and
files can be shorter than, as long as and longer than a package; `RecvMax` of ten lets a
finish tag and the start of the next file stand in one buffer. Each file is sent at most
once. In `transfer_clients` a chain of one connection that fails between two packages
leaves the flag set that the other connection finds; its two connections are symmetric,
and one that is used for no file is neither closed nor broken (`IdleStand`), which
`transfer` does before and after files. Three connections let one be accepted while one
is received from and one waits. In `Client` two connections let one be closed while the
other sends, and a third `connect` never succeeds; two files let one replace the other;
one address is enough to be taken, cancelled and taken again, since commands for two
addresses meet only in the timer's queue. Descriptors are given lowest first, except
that a closed one may stay in use by a file. At most one task of a name and period is in
the queue at a time (`MaxSame`). Two callers, the thread itself and its successor are
all that can meet in `Threads`; two waiters are the least with which a broadcast can be
late.

**What holds.** The timer is right in all that the runs ask of it, whatever the order of
calls; it deletes a task that a caller owns in one order only, named below. A file the
server calls done without having reported an error begins with every byte of the original,
as long as each client sends one file at a time, on whichever of its connections; a file
sent alone on its connection is then there, or the server has said something; both are
said of files that hold no text of a tag. Whatever is received, the server goes on taking
the next buffer, unless it crashed or a file could not be written (`InputIsDrained`). No
task of the server outlives its file, and its timer's thread dies only in a shutdown.
Until then every accepted connection has its task, or an error on it was reported, but for
one whose greeting threw (`ChainsUnbroken`). Once a shutdown has begun, of the server or
of the client, every step of its threads brings the end nearer.

The client's tasks send on their own connection unless the console and a task are in
`create_task()` at the same time; a file is deleted under a task by `F` only, and never in
the shutdown; an address that is to be tried again and again (a reconnection interval
other than 0) is, until it is connected or `X` gives it up, as long as the timer's thread
lives (`AttemptsPersist`); an open connection that has been entered is found by its id, as
`F` and `R` look for it, unless it was given the descriptor of a closed one
(`LinksReachable`, which says nothing of `X`: that looks for the first connection with the
address as its target); the shutdown ends unless a finish tag could not be sent before.
`Thread` joins each thread once, and each call returns, unless a thread starts its own
object while another joins it; with the remembered owner a nested `unlock` gives up the
outer lock, so there exclusion ends when `start()` has joined. Nobody waits in a circle,
with the same one exception. The event-based condition loses no signal; it loses a
broadcast to the late reset of an earlier one, and to nothing else. Reference counts are
right where they are interlocked, and otherwise as long as two threads do not count one
object at once. `Message` and the conversions do what they should, with one exception that
`HoldsPromised` names: `set()` with exactly the allocated length keeps a smaller size.

**What does not hold.** The two violation runs, each with a finding in `PROJECT.json` that
quotes the line of the repository that says otherwise: a file called done with the next
one in it (`transfer_done`); a server that does not exit when a task was running at Q
(`server_quit`). Of what the code does besides, the models contain, and the properties are
stated around: a cancelled task hides a scheduled one of its name from `schedule()`. A
task that was taken back leaves its mark in `externalOwnership_`: one that is scheduled
again is nobody's to delete when it is cancelled (`external` in `Timer`), and one that is
rescheduled while it is still queued is run and then deleted by the timer
(`timer.cpp:113-117`, `157-161`), though `timer.h:61-62` says "The task will not be
deleted by the timer"; `TakenNeverDestroyed` shows that this is the only order in which it
happens, and without its last line `TimerSafety.cfg` shows the order. Start tags that come
in pieces are dropped. An exception before a connection is greeted ends the accepting
thread silently, though the server is not closing, and leaves that connection without a
task. Two connections of one client share `filePartSent`: when a short file ends on one
while a longer one is under way on the other, the longer gets its start tags again between
two of its parts, the server writes them into the file, and both ends report success. With
`SPECIFICATION Spec` instead of `TurnsSpec`, and `DoneHasContent` alone,
`TransferClients.cfg` shows it. Outside the model, because content is never a tag there: a
file that ends with the text of the finish tag, and whose last bytes `recv()` cuts one
byte after that text, is called done short of its end (`server_parser.cpp:65-70`); and
after a chain has failed, a file sent without its start tags that begins with the text of
such tags is taken for the file they name (`server_parser.cpp:99`). `check_IP` takes 65536
for 0 and drops empty parts, so that `1..2.3.4` is an address; what it accepts is well
formed all the same.

## Fairness

`FairSpec` of `Timer`: the thread of the timer and a caller inside `cancel()` go on
when they can (the scheduler of the operating system), the bodies of tasks return, and
time passes. Nobody is obliged to call, and no signal is assumed to arrive twice.
`FairSpec` of `Transfer`: a scheduled task is run, which is what `timer_live` shows of
the timer; bytes that were sent and not lost arrive. `FairSpec` of `Server`: each of
the three threads goes on. Clients and the user are free to do nothing.

`FairSpec` of `Client`: `main()` and the timer's thread go on when they can, `connect()`
and `send()` return; the console is not fair, a user may stop typing. A repeating task
that could be started again and again is (strong fairness of `StartRepeating`): the queue
is in the order of time (`QueueOrdered`), and the `SendingTask`s that come in meanwhile are
put in for a later moment than that of a task which is due, so they overtake it only
finitely often. `TimerPromise` has no times, so this cannot be derived there; `DueTaskRuns`
of `Timer` is where it comes from. `FairSpec` of
`Threads` and `Condition`: a call in progress goes on; strong fairness for taking a lock
that is free again and again (no thread is kept from it for ever, which a fair scheduler
gives in practice and POSIX does not promise), and for the end of a `run()` that makes
calls before it ends. Holders of the condition's mutex give it back. That a call
returns, as far as it rests on the strong fairness, is therefore a statement about
deadlock, not about starvation.

## Proofs

Every safety invariant and every action property that a passing run checks is also a
theorem, except the invariant about the conversions, and so are the refinement
`KeepsPromise` and, for each module, `TypeOK` (`TypesCorrect`), which only the run of
`Message` checks as well, where it bounds the blocks. Each is proved from an
inductive invariant, by one step per action; TLC has checked those invariants on the
runs' instances too. They hold for every value of the constants that satisfies the named
assumptions of the modules.

Liveness itself is out of the prover's reach, but what makes a liveness property of this
code true is safety: somebody can always go on (`CancelAnswered`, `ShutdownIsNotBlocked`,
`CallsCanGoOn`, `BroadcastsKept`), and each step takes something away from a number that
cannot fall for ever (`EndComesNearer`, the two `ShutdownComesNearer`,
`ChainComesNearer`). These are theorems; what is left to TLC is the last inference, from
fairness.

**Timer.** For every set of tasks, names and callers, all delays and periods and every
bound of the clock:

* `TypesCorrect`, `PointersSafe`, `OwnershipRespected`, `NothingLost` and
  `TerminationQuiet` from one inductive invariant, `TypeOK /\ MemoryInv`
  (`MemoryCorrect`). `MemorySafe` alone is not inductive: that a fired task may be
  deleted rests on `executedTask` being the timer's own and in no queue, which rests on
  who owns a queued task (`Ownership`), at which points of its loop the thread
  remembers one (`ThreadLocals`), and on `cancel()` deleting only after the thread has
  ended (`Termination`). `OwnershipRespected` is about steps: of what a step deletes, the
  owner was the timer, or the caller who deletes it, or both of them, and then it is the
  task that has just run. It needs that what callers own is not deleted yet (`OwnedAlive`)
  and that a queued task which is both's is scheduled with the mark of its taking back.
* `OrderKept` and `WakeupsNotLost` from a second invariant, `SleepInv`, relative to the
  first: a sorted queue is needed to see that whoever inserts at the front is the one
  who must signal, and that whoever inserts elsewhere need not.
* `PromiseKept`: every step of `Timer` is one that `TimerPromise` allows, or a stutter.
  The mapping counts a task as scheduled while it is in the queue and not cancelled, so
  the proof needs what the states of the queued tasks are (`QueuedStates`): a task that
  is marked cancelled is already gone for the promise, and its removal is a stutter.
* `CancelAnswered`: whoever waits for the semaphore in `cancel()` finds it posted or the
  thread awake on its way to post it, and whoever joins the thread finds it past the
  post; only a task that throws strands the caller. It rests on `NeverOversleeps`, for a
  sleeping thread could not answer, and on one caller only being past the first check,
  with one post for it (`PostInv`).
* `EndComesNearer`: from the call of `cancel()` on each step leaves the thread where it is
  or takes it nearer to its end, which is at most four of its own steps away.

**Server.** All invariants of its run, for every set of connections, from one inductive
invariant `IInv` (`ServerCorrect`): `TypesCorrect`, `FilesOutliveTasks`, `RunnerLives`,
`ChainsGoOn` and `FreedQuietly`. What the properties need beside themselves is how far the
threads are relative to each other (`Places`: nothing is freed before the timer has
terminated and the acceptor has ended), that the connection being handed over is in
`fd2socket_`, is the only one there without a file, and has no task yet (`Fresh`: hence
its name is not taken in the timer, and a greeting that throws leaves out one connection
at most), and that the successor of a running task is scheduled once, at the end of
`run()` (`Chain`: hence its name is free). `ShutdownComesNearer` counts what the three
threads have left to do (`StepsLeft`): after Q the acceptor takes up one more connection
at most, whose first task the terminating timer refuses, and no task is started or
scheduled; clients may go on connecting and sending. `ShutdownIsNotBlocked`: the count is
at most eleven, and while `shutdown()` has not ended one of the threads can go on, unless
the timer's thread is dead - the acceptor that is joined, for one, does not sleep in
`accept()`, because the socket is closed before the join (`Places`). The only assumption
is that `NoConn` is no connection; what is proved of the timer's part is relative to
`TimerPromise`.

**Transfer.** For every set of files and connections, all sizes of files and packages
and all lengths of tags, any number of clients and of connections of each. `TypesCorrect`
holds as it stands. `ContentArrives` and `NothingIsLost` are about `TurnsSpec`: the
chains of one client take turns (`OneChainEach`), on whichever of its connections.
Without that they are false, since `filePartSent` is a static of the process
(user_tasks.cpp). Where each client has one connection, `Assign` itself keeps the turns:
`ContentArrivesAlone` and `NothingIsLostAlone` are about `Spec`.

* `ContentArrives`: what follows start tags on the wire is their file, as far as it has
  been sent, and what is missing is what the task reads next (`WireInOrder`); the same
  of the bytes written since the file was opened (`StoredInOrder`). Both speak of
  every cut of the stream, since a byte knows where in its file it stands.
* `NothingIsLost`: on a connection used for one file, `Sent` is all that has been sent;
  the tags taken, the bytes stored and the bytes on the wire make it up (`Flowing`) as
  long as no error is reported. This rests on the first invariant, on a connection
  being untouched before its first file (`Unused`) and on the chain ending with the
  finish tag (`UsedOnce`). A chain that failed on another connection of the client leaves
  the flag set, and the next file goes out without its start tags; it then begins with
  content on the wire, and the server cannot take its first buffer without an error
  (`Headless`).
* `ChainComesNearer`: what is to read, the end of the file that is to be found, the start
  tags that are to be sent and the run in progress make up `RunsLeft`. Each step of a
  `SendingTask` lowers it; no other step changes it, which needs the turns: the end of
  another chain of the client would reset `filePartSent`.

**Client.** All invariants of its run from one `IInv` (`ClientCorrect`), for every set of
addresses, descriptors, connections and files: `TypesCorrect`, `SendOwn`,
`FilesOutlive`, `LinksFound`. Beside the properties it says what
each thread has in hand at each point (`Placed`), that a connection others know has been
opened and is found under its own descriptor while it is open (`Opening`), that the
static of `create_task()` is the connection of the descriptor for a caller that is alone
(`ActiveIsOwn`), that only connecting tasks linger in the queue, that no `File` of
`fd2file_` is deleted or there twice (`FilesOwned`), and that the task that tries an
address is a repeating one that is not about to destroy itself (`AttemptsKept`). The last
is a theorem of its own, `AttemptsGoOn`: a wanted address always has such a task in the
timer, which is what `AttemptsPersist` needs beside fairness.
`ShutdownComesNearer` needs only that the timer is terminating exactly from the end of
the console on (`Ending`): no successor or attempt is scheduled then, and what `main()`
and the running task have left is at most eight steps. All is relative to `TimerPromise`,
as the model is. The assumptions are that `None` is none of the other values.

**Threads and Mutex.** `CallsExclude` and `ThreadsJoinedOnce`, for every set of callers
and any number of threads started one after the other, in both builds of `Mutex`. The
invariant relates the mutex to the program points of the calls (`MutexKept`,
`HeldInside`), and `m_id` to what has been started and joined (`IdKnown`); where a
`start()` that has called `join()` can be is `JoinsForStart`. `WaitsAreNotCircular`:
whoever waits for the lock waits for a call that is inside and does not wait for a lock
itself (`HolderInside`), and whoever waits for the thread waits for one that waits for
nothing, since a thread never gets to join itself (`NeverJoinsItself`). So, `CallsCanGoOn`:
while a call is in progress somebody can take a step. Both leave out a thread that starts
its own object while another joins it (`BlocksItself`). `NoThread` is no caller.

**Condition.** `SignalsKept`, for every finite set of waiters: `waitersCount` is the
number of those that have counted themselves and not left, so a `signal()` that finds one
sets the event, and only a waiter that takes it resets it. `BroadcastsKept`: while a waiter
that a broadcast has counted is asleep, the event of that broadcast stays set or is about
to be. A waiter that is to reset the event left nobody behind when it left (the last
conjunct of the invariant), so its reset takes nothing from those it was woken with; it
takes the event only from those that came later, and what they were owed is the loss
named above. The set of waiters is finite since the count is a number.

**RefCounted.** `TypesCorrect` and `ObjectsFreedOnceUnheld`, for every finite set of
pointers and threads and any objects, in both builds. The invariant says what a count is
(`Balanced`): the references of readable pointers, of callers, of calls that will give
one back and of calls that have taken one and not stored it yet. An object is deleted
exactly when that is zero (`FreedAtZero`). That a count is not raised from zero needs
that a pointer stays as it is while another call copies it (`CopiedWhole`), or, when it
is assigned itself, that the same call gives its reference back only later; that a
count written in two steps is right needs that what was read still is the count as long
as no race has happened (`ReadsValid`).

**Message.** `BlocksBounded` and `PromisesHeld`, for every set of bytes and messages and
every largest block; the two and the types of the sizes are inductive.

**Model-checked only.** Liveness and everything under fairness, which is out of the
prover's reach: `DueTaskRuns` and `CancelReturns` of `Timer`, `SendingStops` and
`InputIsDrained` of `Transfer`, `AttemptsPersist` of `Client`, `ShutdownEnds` of `Client`
and of `Server`, `CallsReturn` of `Threads`, `BroadcastReturns` of `Condition`. Of
`CancelReturns`, `SendingStops`, `AttemptsPersist`, `ShutdownEnds`, `CallsReturn` and
`BroadcastReturns` the part that is safety is proved, as said above. `ConversionsRight`:
the functions on texts are recursive, and what they compute for every text is an induction
over data. The two violations are counterexamples on the given instances.

## Not modelled

* `IPAddress` (the resolver) but for the exception of `getHostName()`, socket options and
  `select()`: thin wrappers of system calls without state of their own.
* Files whose content holds the text of a tag; `connect()` on a socket that does not block.
* Windows code other than `Condition`: exception translation, handles, `TerminateThread`.
* Formatting, menus, logging, terminal input (`getch`).
* `atou_impl`, `atoi_impl`, `MemBlock`, `MemAllocTester`, `Message::set_protected_using`,
  the reconnecting branch of `ConnectionTask`: no caller.
* Files of 4 GiB and more, whose size wraps `commonsize`; a package size of 0, which
  makes a chain of tasks that never ends.

## Plan

1. `Timer`, `TimerPromise`, `TimerProofs`, `Transfer`, `Server`, `ServerProofs` (done).
2. `Client`, `Mutex`, `Threads`, `Condition`, `RefCounted`, `Message`, `Conversions`
   with one passing run each (done).
3. Proofs of the safety invariants of `Threads`, `Condition`, `RefCounted`, `Message`,
   `Client` and `Transfer`; `Spec => KeepsPromise` of `Timer` (done).
4. What holds when a client uses several connections in turns (`TurnsSpec`); the safety
   half of the liveness properties: no circle of waits, each step of a shutdown or of a
   chain nearer to its end, whoever waits for the timer answered (done).
5. Still worth trying: a model of files whose size wraps 32 bits, and of packages of no
   bytes.
