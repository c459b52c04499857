---------------------------- MODULE ServerProofs ----------------------------
(***************************************************************************)
(* Theorems about Server, for every set of connections.                    *)
(***************************************************************************)
EXTENDS Server, TLAPS

\* Where each thread is tells what it has done: the timer has a task exactly while the
\* task has a place in RecvTask::run, the console's place tells how far shutdown() is.
Places ==
    /\ running = NoConn <=> task = "none"
    /\ terminating <=> console # "keys"
    /\ console \in {"stop", "join", "clear", "done"} => terminated
    /\ terminated => terminating /\ running = NoConn /\ pending = {}
    /\ console \in {"join", "clear", "done"} => ~listening
    /\ console \in {"clear", "done"} => acceptor = "ended"

\* A connection is accepted once: the one that is not yet handed over has no file, so
\* neither has it a task, and every other has a file; only the acceptor's end leaves one
\* without.
Fresh ==
    /\ waiting \cap sockets = {}
    /\ console \notin {"clear", "done"} => files \subseteq sockets
    /\ IF acceptor \in {"greet", "create"}
       THEN sockets \ files = {accepted}
       ELSE accepted = NoConn
    /\ acceptor \in {"accept", "check"} => sockets \subseteq files

\* The name of the next task is free until it is scheduled; a task that is about to
\* return has a successor, or its connection was suspended.
Chain ==
    /\ task \in {"receive", "create"} => running \notin pending
    /\ task = "return" => running \in pending \cup suspended

\* The inductive invariant
IInv ==
    /\ TypeOK /\ Places /\ Fresh /\ Chain
    /\ TasksHaveFiles /\ RunnerSurvives /\ ChainsUnbroken

-----------------------------------------------------------------------------

\* One step of any thread, of a client or of the system keeps the invariant.
LEMMA Step == IInv /\ [Next]_vars => IInv'
<1> SUFFICES ASSUME IInv, [Next]_vars PROVE IInv'
  OBVIOUS
<1> USE ConnsAssumption
<1> USE DEF IInv, TypeOK, Places, Fresh, Chain, TasksHaveFiles, RunnerSurvives, ChainsUnbroken,
            Ungreeted
<1> USE DEF peerVars, acceptorVars, runnerVars, taskVars
<1>1. ASSUME NEW c \in Conns, Connect(c) PROVE IInv'
  BY <1>1 DEF Connect
<1>2. ASSUME NEW c \in Conns, Reset(c) PROVE IInv'
  BY <1>2 DEF Reset
<1>3. ASSUME Accept PROVE IInv'
  BY <1>3 DEF Accept
<1>4. ASSUME AcceptThrows PROVE IInv'
  BY <1>4 DEF AcceptThrows, AcceptorEnds
<1>5. ASSUME Greet PROVE IInv'
  BY <1>5 DEF Greet
<1>6. ASSUME GreetThrows PROVE IInv'
  <2>1. /\ acceptor = "greet" /\ acceptor' = "ended" /\ accepted' = NoConn /\ isRunning' = FALSE
        /\ UNCHANGED <<waiting, gone, listening, sockets, files, console, pending, running,
                       terminating, terminated, runnerThread, task, suspended, process>>
    BY <1>6 DEF GreetThrows, AcceptorEnds
  <2>2. TypeOK' /\ Places'
    BY <2>1
  <2>3. Fresh' /\ Chain'
    BY <2>1
  <2>4. TasksHaveFiles' /\ RunnerSurvives'
    BY <2>1
  <2>5. ChainsUnbroken'
    BY <2>1
  <2> QED BY ONLY <2>2, <2>3, <2>4, <2>5 DEF IInv
<1>7. ASSUME CreateFirstTask PROVE IInv'
  BY <1>7 DEF CreateFirstTask, ScheduleThrows, Runner!Schedule
<1>8. ASSUME CreateFirstTaskThrows PROVE IInv'
  BY <1>8 DEF CreateFirstTaskThrows, AcceptorEnds, ScheduleThrows
<1>9. ASSUME Check PROVE IInv'
  <2>1. /\ acceptor = "check" /\ acceptor' \in {"accept", "ended"} /\ isRunning' \in BOOLEAN
        /\ UNCHANGED <<peerVars, listening, accepted, sockets, files, console, runnerVars,
                       taskVars, process>>
    BY <1>9, Zenon DEF Check
  <2> QED BY <2>1
<1>10. ASSUME NEW c \in Conns, StartTask(c) PROVE IInv'
  BY <1>10 DEF StartTask, Runner!StartOnce, Runner!CanStart
<1>11. ASSUME ReceiveThrows PROVE IInv'
  BY <1>11 DEF ReceiveThrows
<1>12. ASSUME Receive PROVE IInv'
  BY <1>12 DEF Receive
<1>13. ASSUME CreateNextTask PROVE IInv'
  BY <1>13 DEF CreateNextTask, ScheduleThrows, Runner!Schedule
<1>14. ASSUME CreateNextTaskThrows PROVE IInv'
  BY <1>14 DEF CreateNextTaskThrows, ScheduleThrows, Runner!End
<1>15. ASSUME Return PROVE IInv'
  BY <1>15 DEF Return, Runner!End
<1>16. ASSUME RacedCrash PROVE IInv'
  BY <1>16 DEF RacedCrash
<1>17. ASSUME Quit PROVE IInv'
  BY <1>17 DEF Quit, Runner!Terminate
<1>18. ASSUME CancelReturns PROVE IInv'
  BY <1>18 DEF CancelReturns, Runner!Terminated
<1>19. ASSUME StopServer PROVE IInv'
  BY <1>19 DEF StopServer
<1>20. ASSUME JoinServer PROVE IInv'
  BY <1>20 DEF JoinServer
<1>21. ASSUME ClearFiles PROVE IInv'
  BY <1>21 DEF ClearFiles
<1>22. CASE UNCHANGED vars
  BY <1>22 DEF vars
<1> QED
  BY <1>1, <1>2, <1>3, <1>4, <1>5, <1>6, <1>7, <1>8, <1>9, <1>10, <1>11,
     <1>12, <1>13, <1>14, <1>15, <1>16, <1>17, <1>18, <1>19, <1>20, <1>21, <1>22
  DEF Next, Up, FileServer, RecvTask, Shutdown

\* The invariant holds in every reachable state.
THEOREM ServerCorrect == Spec => []IInv
<1>1. Init => IInv
  BY ConnsAssumption
  DEF Init, IInv, TypeOK, Places, Fresh, Chain, TasksHaveFiles, RunnerSurvives, ChainsUnbroken,
      Ungreeted
<1> QED BY <1>1, Step, PTL DEF Spec

\* The parts that the runs check, each for itself.
THEOREM TypesCorrect == Spec => []TypeOK
<1>1. IInv => TypeOK
  BY DEF IInv
<1> QED BY <1>1, ServerCorrect, PTL

\* No RecvTask outlives the File it points to.
THEOREM FilesOutliveTasks == Spec => []TasksHaveFiles
<1>1. IInv => TasksHaveFiles
  BY DEF IInv
<1> QED BY <1>1, ServerCorrect, PTL

\* Only a shutdown ends the thread of the timer.
THEOREM RunnerLives == Spec => []RunnerSurvives
<1>1. IInv => RunnerSurvives
  BY DEF IInv
<1> QED BY <1>1, ServerCorrect, PTL

\* Every accepted connection goes on being received from until an error on it is reported,
\* but for the one whose greeting ended the acceptor.
THEOREM ChainsGoOn == Spec => []ChainsUnbroken
<1>1. IInv => ChainsUnbroken
  BY DEF IInv
<1> QED BY <1>1, ServerCorrect, PTL

\* Sockets and files are freed when no thread is left that could use them.
THEOREM FreedQuietly == Spec => []QuietWhenFreed
<1>1. IInv => QuietWhenFreed
  BY DEF IInv, Places, QuietWhenFreed
<1> QED BY <1>1, ServerCorrect, PTL

-----------------------------------------------------------------------------
(* The shutdown *)

\* The number of steps left is one.
LEMMA StepsCounted == StepsLeft \in 0..11
<1>1. ConsoleLeft \in 0..4
  BY DEF ConsoleLeft
<1>2. AcceptorLeft \in 0..4
  BY DEF AcceptorLeft
<1>3. TaskLeft \in 0..3
  BY DEF TaskLeft
<1> QED BY <1>1, <1>2, <1>3 DEF StepsLeft

\* A step after Q takes one of the threads on, or it is a client's.
LEMMA NearsStep ==
    IInv /\ [Next]_vars /\ console # "keys" =>
        \/ StepsLeft' < StepsLeft
        \/ UNCHANGED <<acceptorVars, files, console, runnerVars, taskVars>>
<1> DEFINE Nears == \/ StepsLeft' < StepsLeft
                    \/ UNCHANGED <<acceptorVars, files, console, runnerVars, taskVars>>
<1> SUFFICES ASSUME IInv, [Next]_vars, console # "keys" PROVE Nears
  OBVIOUS
<1>0. TypeOK /\ terminating /\ terminating \in BOOLEAN
  BY DEF IInv, TypeOK, Places
<1>1. ASSUME NEW c \in Conns, Connect(c) \/ Reset(c) PROVE Nears
  BY <1>1 DEF Connect, Reset
<1>2. ASSUME RacedCrash PROVE Nears
  BY <1>2 DEF RacedCrash
<1>3. ASSUME UNCHANGED vars PROVE Nears
  BY <1>3 DEF vars
<1>4. ASSUME Quit PROVE Nears
  BY <1>4 DEF Quit
<1>5. ASSUME FileServer PROVE Nears
  <2>1. \/ acceptor = "accept" /\ acceptor' \in {"greet", "ended"}
        \/ acceptor = "greet" /\ acceptor' \in {"create", "ended"}
        \/ acceptor = "create" /\ acceptor' = "ended"
        \/ acceptor = "check" /\ acceptor' \in {"accept", "ended"}
    BY <1>5, <1>0
    DEF FileServer, Accept, AcceptThrows, AcceptorEnds, Greet, GreetThrows, CreateFirstTask,
        CreateFirstTaskThrows, ScheduleThrows, Check
  <2>2. UNCHANGED <<console, task>>
    BY <1>5
    DEF FileServer, Accept, AcceptThrows, AcceptorEnds, Greet, GreetThrows, CreateFirstTask,
        CreateFirstTaskThrows, Check, taskVars
  <2>3. StepsLeft' < StepsLeft
    BY ONLY <2>1, <2>2 DEF StepsLeft, ConsoleLeft, AcceptorLeft, TaskLeft
  <2> QED BY <2>3
<1>6. ASSUME RecvTask PROVE Nears
  <2>1. \/ task = "receive" /\ task' \in {"create", "return"}
        \/ task = "create" /\ task' = "none"
        \/ task = "return" /\ task' = "none"
    BY <1>6, <1>0
    DEF RecvTask, StartTask, Runner!StartOnce, Runner!CanStart, ReceiveThrows, Receive,
        CreateNextTask, CreateNextTaskThrows, ScheduleThrows, Return
  <2>2. UNCHANGED <<console, acceptor>>
    BY <1>6
    DEF RecvTask, StartTask, ReceiveThrows, Receive, CreateNextTask, CreateNextTaskThrows,
        Return, acceptorVars
  <2>3. StepsLeft' < StepsLeft
    BY ONLY <2>1, <2>2 DEF StepsLeft, ConsoleLeft, AcceptorLeft, TaskLeft
  <2> QED BY <2>3
<1>7. ASSUME Shutdown PROVE Nears
  <2>1. \/ console = "cancel" /\ console' = "stop"
        \/ console = "stop" /\ console' = "join"
        \/ console = "join" /\ console' = "clear"
        \/ console = "clear" /\ console' = "done"
    BY <1>7 DEF Shutdown, CancelReturns, StopServer, JoinServer, ClearFiles
  <2>2. UNCHANGED <<acceptor, task>>
    BY <1>7
    DEF Shutdown, CancelReturns, StopServer, JoinServer, ClearFiles, acceptorVars, taskVars
  <2>3. StepsLeft' < StepsLeft
    BY ONLY <2>1, <2>2 DEF StepsLeft, ConsoleLeft, AcceptorLeft, TaskLeft
  <2> QED BY <2>3
<1> HIDE DEF Nears
<1> QED BY <1>1, <1>2, <1>3, <1>4, <1>5, <1>6, <1>7 DEF Next, Up

\* After Q the threads of the server take at most eleven more steps together, whatever the
\* clients do: the acceptor does not go round its loop again.
THEOREM ShutdownComesNearer == Spec => ShutdownNears
<1>1. IInv /\ [Next]_vars =>
        [console # "keys" =>
            \/ StepsLeft' < StepsLeft
            \/ UNCHANGED <<acceptorVars, files, console, runnerVars, taskVars>>]_vars
  BY NearsStep
<1> QED BY <1>1, ServerCorrect, PTL DEF Spec, ShutdownNears

\* A thread of the server that has a step to take: the console when the timer's thread or
\* the acceptor is where it waits for them, the timer's thread in a task, the acceptor
\* unless it waits for a client.
ConsoleCanGo ==
    \/ console = "cancel" /\ running = NoConn
    \/ console \in {"stop", "clear"}
    \/ console = "join" /\ acceptor = "ended"
TaskCanGo == task \in {"receive", "create", "return"}
AcceptorCanGo ==
    \/ acceptor \in {"greet", "create", "check"}
    \/ acceptor = "accept" /\ ~listening

ShutdownGoesOn ==
    console \notin {"keys", "done"} /\ runnerThread = "alive" =>
        ConsoleCanGo \/ TaskCanGo \/ AcceptorCanGo

\* Until shutdown() is done somebody can take a step, without a client's help: the console
\* never joins an acceptor that sits in accept() (fileserver.cpp:67-74).  With the theorem
\* above, and as long as nobody who can go on stops for ever, shutdown() ends.
THEOREM ShutdownIsNotBlocked == Spec => [](ShutdownGoesOn /\ StepsLeft \in 0..11)
<1>1. IInv => ShutdownGoesOn /\ StepsLeft \in 0..11
  BY StepsCounted
  DEF IInv, TypeOK, Places, ShutdownGoesOn, ConsoleCanGo, TaskCanGo, AcceptorCanGo
<1> QED BY <1>1, ServerCorrect, PTL

=============================================================================
