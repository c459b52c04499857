------------------------------- MODULE Server -------------------------------
(***************************************************************************)
(* The life of the server process: the Dispatcher's console, which shuts   *)
(* it down, the FileServer thread, which accepts connections, and the      *)
(* thread of the Dispatcher's Timer, runner_, on which a chain of          *)
(* RecvTasks receives from each of them (dispatcher.cpp, fileserver.cpp,   *)
(* server_tasks.cpp).                                                      *)
(*                                                                         *)
(* The timer is what TimerPromise says of it, with every task due at once, *)
(* but a task whose run() throws ends its thread.  What a RecvTask does    *)
(* with the bytes is in Transfer; here it only succeeds or fails.          *)
(***************************************************************************)
EXTENDS Integers

CONSTANTS
    Conns,      \* connections that may be made, each with its descriptor
    NoConn

ASSUME ConnsAssumption == NoConn \notin Conns

VARIABLES
    waiting,        \* connections in the backlog of the listening socket
    gone,           \* connections the client has reset
    listening,      \* the listening socket is open
    isRunning,      \* FileServer::running_
    acceptor,       \* where the FileServer thread is
    accepted,       \* its local: the connection it has just accepted
    sockets,        \* fd2socket_
    files,          \* the keys of the Dispatcher's fd2file_
    console,        \* where the Dispatcher's thread is
    pending,        \* runner_: connections whose RecvTask is scheduled
    running,        \* the one whose RecvTask runs
    terminating,    \* Timer::cancel() has been called
    terminated,     \* and has returned
    runnerThread,   \* the thread of runner_
    task,           \* where the running RecvTask is
    suspended,      \* connections whose chain ended with an exception
    process

peerVars == <<waiting, gone>>
acceptorVars == <<listening, isRunning, acceptor, accepted, sockets>>
runnerVars == <<pending, running, terminating, terminated>>
taskVars == <<runnerThread, task, suspended>>
vars == <<peerVars, acceptorVars, files, console, runnerVars, taskVars, process>>

Runner == INSTANCE TimerPromise WITH
    Tasks <- Conns, NoTask <- NoConn, MaxTime <- 0,
    due <- [c \in Conns |-> 0], now <- 0

TypeOK ==
    /\ waiting \subseteq Conns /\ gone \subseteq Conns
    /\ listening \in BOOLEAN /\ isRunning \in BOOLEAN
    /\ acceptor \in {"accept", "greet", "create", "check", "ended"}
    /\ accepted \in Conns \cup {NoConn}
    /\ sockets \subseteq Conns /\ files \subseteq Conns
    /\ console \in {"keys", "cancel", "stop", "join", "clear", "done"}
    /\ pending \subseteq Conns /\ running \in Conns \cup {NoConn}
    /\ terminating \in BOOLEAN /\ terminated \in BOOLEAN
    /\ runnerThread \in {"alive", "dead"}
    /\ task \in {"none", "receive", "create", "return"}
    /\ suspended \subseteq Conns
    /\ process \in {"up", "crashed"}

Init ==
    /\ waiting = {} /\ gone = {}
    /\ listening = TRUE /\ isRunning = TRUE
    /\ acceptor = "accept" /\ accepted = NoConn
    /\ sockets = {} /\ files = {}
    /\ console = "keys"
    /\ pending = {} /\ running = NoConn
    /\ terminating = FALSE /\ terminated = FALSE
    /\ runnerThread = "alive" /\ task = "none"
    /\ suspended = {}
    /\ process = "up"

-----------------------------------------------------------------------------
(* Clients *)

Connect(c) ==
    /\ listening
    /\ c \notin waiting \cup sockets \cup gone
    /\ waiting' = waiting \cup {c}
    /\ UNCHANGED <<gone, acceptorVars, files, console, runnerVars, taskVars, process>>

Reset(c) ==
    /\ c \in (waiting \cup sockets) \ gone
    /\ gone' = gone \cup {c}
    /\ UNCHANGED <<waiting, acceptorVars, files, console, runnerVars, taskVars, process>>

-----------------------------------------------------------------------------
(* Dispatcher::create_task: two threads call it, and no lock guards fd2file_ *)

Raced == acceptor = "create" /\ task = "create" /\ accepted \notin files

\* An insertion into the map while the other thread is in it may end in a crash.
RacedCrash ==
    /\ Raced
    /\ process' = "crashed"
    /\ UNCHANGED <<peerVars, acceptorVars, files, console, runnerVars, taskVars>>

\* Timer::schedule() throws when the timer was stopped, and when the name is taken.
ScheduleThrows(c) == terminating \/ c \in pending

-----------------------------------------------------------------------------
(* FileServer::run *)

Accept ==
    /\ acceptor = "accept" /\ listening
    /\ \E c \in waiting :
        /\ waiting' = waiting \ {c}
        /\ accepted' = c
        /\ sockets' = sockets \cup {c}
    /\ acceptor' = "greet"
    /\ UNCHANGED <<gone, listening, isRunning, files, console, runnerVars, taskVars, process>>

\* Whatever is thrown, the thread ends.
AcceptorEnds ==
    /\ acceptor' = "ended"
    /\ accepted' = NoConn
    /\ isRunning' = FALSE
    /\ UNCHANGED <<peerVars, listening, sockets, console, taskVars, process>>

\* accept() throws once stop() has closed the socket, and when the system has a connection
\* but does not give it (it was aborted, there is no descriptor left).
AcceptThrows ==
    /\ acceptor = "accept" /\ (~listening \/ waiting # {})
    /\ AcceptorEnds
    /\ UNCHANGED <<files, runnerVars>>

\* The name of the peer is asked for and printed.
Greet ==
    /\ acceptor = "greet" /\ accepted \notin gone
    /\ acceptor' = "create"
    /\ UNCHANGED <<peerVars, listening, isRunning, accepted, sockets, files, console,
                   runnerVars, taskVars, process>>

\* getpeername() fails on a connection that was reset, getnameinfo() on any: the resolver
\* may be out of reach (ipaddress.cpp:44-55).
GreetThrows ==
    /\ acceptor = "greet"
    /\ AcceptorEnds
    /\ UNCHANGED <<files, runnerVars>>

CreateFirstTask ==
    /\ acceptor = "create" /\ ~ScheduleThrows(accepted)
    /\ files' = files \cup {accepted}
    /\ Runner!Schedule(accepted)
    /\ acceptor' = "check"
    /\ accepted' = NoConn
    /\ UNCHANGED <<peerVars, listening, isRunning, sockets, console, taskVars, process>>

\* Mutant: the exception is caught inside the loop.
CreateFirstTaskThrows_Caught ==
    /\ acceptor = "create" /\ ScheduleThrows(accepted)
    /\ files' = files \cup {accepted}
    /\ acceptor' = "check"
    /\ accepted' = NoConn
    /\ UNCHANGED <<peerVars, listening, isRunning, sockets, console, runnerVars, taskVars,
                   process>>

CreateFirstTaskThrows ==
    /\ acceptor = "create" /\ ScheduleThrows(accepted)
    /\ files' = files \cup {accepted}
    /\ AcceptorEnds
    /\ UNCHANGED runnerVars

\* Reads running_ with the lock held.
Check ==
    /\ acceptor = "check"
    /\ IF isRunning
       THEN acceptor' = "accept" /\ UNCHANGED isRunning
       ELSE acceptor' = "ended" /\ isRunning' = FALSE
    /\ UNCHANGED <<peerVars, listening, accepted, sockets, files, console, runnerVars,
                   taskVars, process>>

FileServer ==
    \/ Accept \/ AcceptThrows \/ Greet \/ GreetThrows
    \/ CreateFirstTask \/ CreateFirstTaskThrows \/ Check

-----------------------------------------------------------------------------
(* The thread of runner_, and RecvTask::run on it *)

StartTask(c) ==
    /\ runnerThread = "alive"
    /\ Runner!StartOnce(c)
    /\ task' = "receive"
    /\ UNCHANGED <<peerVars, acceptorVars, files, console, runnerThread, suspended, process>>

\* Mutant: the chain goes on after an exception, and nobody is told.
ReceiveThrows_Silent ==
    /\ task = "receive"
    /\ task' = "return"
    /\ UNCHANGED <<peerVars, acceptorVars, files, console, runnerVars, runnerThread,
                   suspended, process>>

\* End of file, an error, or a file that cannot be opened: no next task.
ReceiveThrows ==
    /\ task = "receive"
    /\ suspended' = suspended \cup {running}
    /\ task' = "return"
    /\ UNCHANGED <<peerVars, acceptorVars, files, console, runnerVars, runnerThread, process>>

\* Bytes were stored, or there were none and it has slept for 200 milliseconds.
Receive ==
    /\ task = "receive"
    /\ task' = "create"
    /\ UNCHANGED <<peerVars, acceptorVars, files, console, runnerVars, runnerThread,
                   suspended, process>>

\* Mutant: create_task() is called once more.
CreateNextTask_Twice ==
    /\ task = "create" /\ ~ScheduleThrows(running)
    /\ files' = files \cup {running}
    /\ Runner!Schedule(running)
    /\ UNCHANGED <<peerVars, acceptorVars, console, taskVars, process>>

CreateNextTask ==
    /\ task = "create" /\ ~ScheduleThrows(running)
    /\ files' = files \cup {running}
    /\ Runner!Schedule(running)
    /\ task' = "return"
    /\ UNCHANGED <<peerVars, acceptorVars, console, runnerThread, suspended, process>>

\* This call stands outside the try block: the exception leaves run() and the thread.
CreateNextTaskThrows ==
    /\ task = "create" /\ ScheduleThrows(running)
    /\ files' = files \cup {running}
    /\ Runner!End
    /\ task' = "none"
    /\ runnerThread' = "dead"
    /\ UNCHANGED <<peerVars, acceptorVars, console, suspended, process>>

Return ==
    /\ task = "return"
    /\ Runner!End
    /\ task' = "none"
    /\ UNCHANGED <<peerVars, acceptorVars, files, console, runnerThread, suspended, process>>

RecvTask ==
    \/ \E c \in Conns : StartTask(c)
    \/ ReceiveThrows \/ Receive \/ CreateNextTask \/ CreateNextTaskThrows \/ Return

-----------------------------------------------------------------------------
(* Dispatcher::shutdown *)

\* 'Q' or Esc: shutdown() begins with runner_.cancel().
Quit ==
    /\ console = "keys"
    /\ Runner!Terminate
    /\ console' = "cancel"
    /\ UNCHANGED <<peerVars, acceptorVars, files, taskVars, process>>

\* Mutant: shutdown() does not wait for the timer.
CancelReturns_Early ==
    /\ console = "cancel"
    /\ console' = "stop"
    /\ UNCHANGED <<peerVars, acceptorVars, files, runnerVars, taskVars, process>>

\* Only the thread of the timer posts the semaphore that cancel() waits for.
CancelReturns ==
    /\ console = "cancel" /\ runnerThread = "alive"
    /\ Runner!Terminated
    /\ console' = "stop"
    /\ UNCHANGED <<peerVars, acceptorVars, files, taskVars, process>>


\* FileServer::stop(), with the lock held.
StopServer ==
    /\ console = "stop"
    /\ isRunning' = FALSE
    /\ listening' = FALSE
    /\ console' = "join"
    /\ UNCHANGED <<peerVars, acceptor, accepted, sockets, files, runnerVars, taskVars, process>>

\* Mutant: stop() does not wait for the thread.
JoinServer_Skipped ==
    /\ console = "join"
    /\ sockets' = {}
    /\ console' = "clear"
    /\ UNCHANGED <<peerVars, listening, isRunning, acceptor, accepted, files, runnerVars,
                   taskVars, process>>

JoinServer ==
    /\ console = "join" /\ acceptor = "ended"
    /\ sockets' = {}
    /\ console' = "clear"
    /\ UNCHANGED <<peerVars, listening, isRunning, acceptor, accepted, files, runnerVars,
                   taskVars, process>>

ClearFiles ==
    /\ console = "clear"
    /\ files' = {}
    /\ console' = "done"
    /\ UNCHANGED <<peerVars, acceptorVars, runnerVars, taskVars, process>>

Shutdown == CancelReturns \/ StopServer \/ JoinServer \/ ClearFiles

-----------------------------------------------------------------------------

Up(A) == process = "up" /\ A

Next ==
    \/ \E c \in Conns : Up(Connect(c)) \/ Up(Reset(c))
    \/ Up(FileServer)
    \/ Up(RecvTask)
    \/ Up(RacedCrash)
    \/ Up(Quit)
    \/ Up(Shutdown)

Spec == Init /\ [][Next]_vars

\* Every thread goes on; nobody is obliged to connect or to quit.
FairSpec ==
    /\ Spec
    /\ WF_vars(Up(FileServer)) /\ WF_vars(Up(RecvTask)) /\ WF_vars(Up(Shutdown))

-----------------------------------------------------------------------------
(* Properties *)

\* A RecvTask holds the bare address of its File, which fd2file_ owns
\* (dispatcher.cpp:84-86): no task that is scheduled or runs outlives it, in whatever
\* order a connection comes in and the server is shut down.
TasksHaveFiles == (pending \cup {running}) \ {NoConn} \subseteq files

\* When shutdown() frees the sockets and the files no thread is left that could use
\* them: neither does a task run nor may one still be created.
QuietWhenFreed ==
    console \in {"clear", "done"} => acceptor = "ended" /\ running = NoConn /\ pending = {}

\* Until the server is shut down nothing ends the thread of the timer: the name of a
\* next task is never taken (server_tasks.cpp:71).
RunnerSurvives == runnerThread = "dead" => terminating

\* The connection whose greeting threw: it is in fd2socket_, was given no File, and nobody
\* accepts any more.
Ungreeted == IF acceptor = "ended" THEN sockets \ files ELSE {}

\* Until the server is shut down no chain of RecvTasks breaks in silence: every accepted
\* connection, also one that was reset, has its task in the queue or running, unless an
\* error on it was reported and it was suspended, or the acceptor is about to hand it over.
\* One can be left out, and at most one: an exception of the greeting, which FileServer::run
\* swallows (fileserver.cpp:92, 106), leaves it without a chain and ends the acceptor.
ChainsUnbroken ==
    ~terminating =>
        /\ sockets \ suspended \subseteq pending \cup {running, accepted} \cup Ungreeted
        /\ \A c, d \in sockets \ files : c = d

\* How many steps the threads of the server have at most before them when shutdown() has
\* begun: the console in it, the acceptor with a connection it may still accept, the timer's
\* thread in the task it runs.
ConsoleLeft ==
    CASE console = "cancel" -> 4 [] console = "stop" -> 3 [] console = "join" -> 2
      [] console = "clear" -> 1 [] OTHER -> 0
AcceptorLeft ==
    CASE acceptor = "check" -> 4 [] acceptor = "accept" -> 3 [] acceptor = "greet" -> 2
      [] acceptor = "create" -> 1 [] OTHER -> 0
TaskLeft ==
    CASE task = "receive" -> 3 [] task = "create" -> 2 [] task = "return" -> 1 [] OTHER -> 0

StepsLeft == ConsoleLeft + AcceptorLeft + TaskLeft

\* Once shutdown() has begun whatever a thread of the server does brings its end nearer,
\* however many clients go on connecting and sending: at most one more connection is
\* accepted (fileserver.cpp:82-109), no task is started and none scheduled.
ShutdownNears ==
    [][console # "keys" =>
          \/ StepsLeft' < StepsLeft
          \/ UNCHANGED <<acceptorVars, files, console, runnerVars, taskVars>>]_vars

\* shutdown() comes to its end, unless the thread of the timer has died under it or the
\* process has.
ShutdownEnds ==
    console = "cancel" ~> (console = "done" \/ runnerThread = "dead" \/ process = "crashed")

\* "press'Q' or 'Esc' to FileServer exit" (dispatcher.cpp:17).
QuitExits == console = "cancel" ~> (console = "done" \/ process = "crashed")

=============================================================================
