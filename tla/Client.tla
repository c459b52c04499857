------------------------------- MODULE Client -------------------------------
(***************************************************************************)
(* The client process: the Mainframe's console thread, and the thread of   *)
(* its Timer with the ConnectionTasks and SendingTasks it runs             *)
(* (mainframe.cpp, user_tasks.cpp, tcpclient.cpp, socket.cpp).  The timer  *)
(* is what TimerPromise says of it, with every task due at once; besides,  *)
(* a task that repeats stays scheduled while it runs, a cancelled one      *)
(* stays in the queue for a while, where it still bears its name, and a    *)
(* task whose run() throws ends the thread.  What a SendingTask sends is   *)
(* in Transfer; here it reads its file and sends on its connection.        *)
(***************************************************************************)
EXTENDS Integers, FiniteSets

CONSTANTS
    Addrs,          \* addresses of servers
    Fds,            \* descriptors the system gives
    Socks,          \* objects TCPSockClient; bound: connections that succeed
    Files,          \* objects File; bound: files picked
    MaxSame,        \* bound: ConnectionTasks of one name and period in the queue
    None

ASSUME ClientAssumption == None \notin Addrs \cup Fds \cup Socks \cup Files

VARIABLES
    console,        \* where the console's thread is, then main()
    command,        \* the command in hand and what was entered for it
    server_ip,
    socks,          \* each TCPSockClient: is_open_, its descriptor and its target_
    fd2sockets_,
    fd2file_,
    freed,          \* Files deleted
    spActiveConnection,
    creating,       \* the fd of the conn each caller of create_task() was given
    pending, running, terminating, terminated,
    lingering,      \* cancelled tasks that are still in the timer's queue
    step,           \* where the running task is
    connected,      \* a running ConnectionTask's connection_
    timerThread,
    process,
    overlapped,     \* two create_task() were under way at once
    replaced,       \* Files deleted while a task pointed to them
    wanted          \* addresses that were entered to be tried again and again, and are
                    \* neither reached nor given up

consoleVars == <<console, command, server_ip>>
sockVars == <<socks, fd2sockets_>>
fileVars == <<fd2file_, freed, replaced>>
createVars == <<spActiveConnection, creating, overlapped>>
timerVars == <<pending, running, terminating, terminated>>
taskVars == <<lingering, step, connected, timerThread>>
vars == <<consoleVars, sockVars, fileVars, createVars, timerVars, taskVars, process, wanted>>

\* A task is what it was constructed with; same tells equal ConnectionTasks apart.
ConnectionTask == [kind : {"connect"}, to : Addrs, repeats : BOOLEAN, same : 1..MaxSame]
SendingTask == [kind : {"send"}, to : Fds \cup {None}, conn : Socks, file : Files \cup {None}]
Task == ConnectionTask \cup SendingTask

ASSUME TaskAssumption == None \notin Task

Timer == INSTANCE TimerPromise WITH
    Tasks <- Task, NoTask <- None, MaxTime <- 0, due <- [t \in Task |-> 0], now <- 0

\* The tasks that the timer's queue holds, and the one that runs
Live == pending \cup lingering \cup ({running} \ {None})

IsRepeating(t) == t.kind = "connect" /\ t.repeats

NoCommand == [name |-> "none", id |-> None]

Unborn == [state |-> "unborn", fd |-> None, target |-> None]
Opened(fd, target) == [state |-> "open", fd |-> fd, target |-> target]
Closed == [state |-> "closed", fd |-> None, target |-> None]

IsOpen(s) == socks[s].state = "open"

\* getpeername() fails for a socket that is closed.
HasPort(s) == IsOpen(s)

TypeOK ==
    /\ console \in {"keys", "look", "cancelled", "assign", "create", "created", "stuck",
                    "ended", "cancel", "join", "free", "done"}
    /\ command \in [name : {"X", "R", "F", "none"}, id : Fds \cup {None}]
    /\ server_ip \in Addrs \cup {None}
    /\ \A s \in Socks : /\ socks[s].state \in {"unborn", "open", "closed"}
                        /\ IsOpen(s) <=> socks[s].fd \in Fds
    /\ \A s, r \in Socks : IsOpen(s) /\ IsOpen(r) /\ s # r => socks[s].fd # socks[r].fd
    /\ fd2sockets_ \in [Fds -> Socks \cup {None}]
    /\ fd2file_ \in [Fds -> Files \cup {None}]
    /\ replaced \subseteq freed /\ freed \subseteq Files
    /\ pending \cup lingering \subseteq Task /\ running \in Task \cup {None}
    /\ pending \cap lingering = {}
    /\ connected \in Socks \cup {None}
    /\ step \in {"none", "connect", "link", "destroy", "check", "read", "send", "finish",
                 "create", "created", "return"}
    /\ running = None <=> step = "none"

Init ==
    /\ console = "keys" /\ command = NoCommand
    /\ server_ip = None
    /\ socks = [s \in Socks |-> Unborn]
    /\ fd2sockets_ = [f \in Fds |-> None] /\ fd2file_ = [f \in Fds |-> None]
    /\ freed = {} /\ replaced = {}
    /\ spActiveConnection = None /\ creating = [c \in {"console", "timer"} |-> None]
    /\ overlapped = FALSE
    /\ pending = {} /\ running = None /\ terminating = FALSE /\ terminated = FALSE
    /\ lingering = {} /\ step = "none" /\ connected = None /\ timerThread = "alive"
    /\ process = "up" /\ wanted = {}

-----------------------------------------------------------------------------
(* Timer::schedule() and Timer::cancel(), create_task() *)

SameName(t, u) == t.kind = u.kind /\ t.to = u.to

\* The queue is searched for the first task of the name, which may be a cancelled one.
MayBeTaken(task) == \E t \in pending : SameName(t, task)
MayBeFree(task) == MayBeTaken(task) => \E t \in lingering : SameName(t, task)

Other(caller) == IF caller = "console" THEN "timer" ELSE "console"
IsCreating(caller) ==
    IF caller = "console" THEN console = "created" ELSE step = "created"

\* Mutant: the connection is remembered once.
Activate_Once(conn) ==
    spActiveConnection' = IF spActiveConnection = None THEN conn ELSE spActiveConnection

Activate(conn) == spActiveConnection' = conn

\* The first half of create_task(send_TaskSpec, conn)
CreateBegins(caller, conn) ==
    /\ Activate(conn)
    /\ creating' = [creating EXCEPT ![caller] = socks[conn].fd]
    /\ overlapped' = (overlapped \/ IsCreating(Other(caller)))

NewSendingTask(fd) ==
    [kind |-> "send", to |-> fd, conn |-> spActiveConnection,
     file |-> IF fd = None THEN None ELSE fd2file_[fd]]

\* The second: what schedule() throws is caught, and the new task deleted.
CreateEnds(caller) ==
    LET task == NewSendingTask(creating[caller])
    IN  /\ IF terminating \/ MayBeTaken(task)
           THEN UNCHANGED timerVars
           ELSE Timer!Schedule(task)
        /\ creating' = [creating EXCEPT ![caller] = None]
        /\ UNCHANGED <<spActiveConnection, overlapped>>

-----------------------------------------------------------------------------
(* Mainframe::run *)

At(place) == console = place /\ UNCHANGED process
Goes(place) ==
    /\ console' = place
    /\ command' = IF place \in {"keys", "ended", "stuck"} THEN NoCommand ELSE command
    /\ UNCHANGED server_ip

\* reconnect_interval_ is what 'I' has set it to, 0 means that the task does not repeat.
NewConnectionTasks(a) == [kind : {"connect"}, to : {a}, repeats : BOOLEAN, same : 1..MaxSame]

\* 'N'
NewConnection(a) ==
    /\ At("keys")
    /\ server_ip' = a
    /\ \E t \in NewConnectionTasks(a) \ Live :
          /\ MayBeFree(t)
          /\ \A u \in NewConnectionTasks(a) \ Live : t.same <= u.same
          /\ Timer!Schedule(t)
          /\ wanted' = IF t.repeats THEN wanted \cup {a} ELSE wanted
    /\ UNCHANGED <<console, command, sockVars, fileVars, createVars, taskVars>>

\* With an invalid port the address is kept all the same.
InvalidPort(a) ==
    /\ At("keys")
    /\ server_ip' = a
    /\ UNCHANGED <<console, command, sockVars, fileVars, createVars, timerVars, taskVars, wanted>>

\* schedule() throws when the name is taken: the console's thread ends.
NewConnectionThrows(a) ==
    /\ At("keys") /\ \E t \in NewConnectionTasks(a) : MayBeTaken(t)
    /\ server_ip' = a
    /\ console' = "ended"
    /\ UNCHANGED <<command, sockVars, fileVars, createVars, timerVars, taskVars, wanted>>

\* 'X' checks the address entered last with 'N', not the one entered now: without one it
\* asks for ever.  cancel(name) takes the first of the name, be it cancelled already.
StopConnection ==
    /\ At("keys")
    /\ IF server_ip = None
       THEN /\ Goes("stuck")
            /\ UNCHANGED <<timerVars, lingering, wanted>>
       ELSE /\ console' = "look"
            /\ command' = [name |-> "X", id |-> None]
            /\ UNCHANGED server_ip
            /\ wanted' = wanted \ {server_ip}
            /\ LET named(t) == t.kind = "connect" /\ t.to = server_ip
               IN  \/ \E t \in pending :
                         /\ named(t)
                         /\ Timer!Cancel(t)
                         /\ lingering' = lingering \cup {t}
                   \/ /\ (\E t \in pending : named(t)) => \E t \in lingering : named(t)
                      /\ UNCHANGED <<timerVars, lingering>>
    /\ UNCHANGED <<sockVars, fileVars, createVars, step, connected, timerThread>>

Targeted(f) ==
    /\ fd2sockets_[f] # None /\ IsOpen(fd2sockets_[f])
    /\ socks[fd2sockets_[f]].target = server_ip

\* The rest of 'X'.  A closed connection has no target, and "sendtask" + fd is no task's name.
CloseConnection ==
    /\ At("look") /\ command.name = "X"
    /\ \/ \E f \in Fds :
             /\ Targeted(f) /\ \A g \in Fds : Targeted(g) => f <= g
             /\ socks' = [socks EXCEPT ![fd2sockets_[f]] = Closed]
       \/ (\A f \in Fds : ~Targeted(f)) /\ UNCHANGED socks
    /\ Goes("keys")
    /\ UNCHANGED <<fd2sockets_, fileVars, createVars, timerVars, taskVars, wanted>>

\* 'R' and 'F' ask for an id.
EnterId(name, id) ==
    /\ At("keys")
    /\ console' = "look"
    /\ command' = [name |-> name, id |-> id]
    /\ UNCHANGED <<server_ip, sockVars, fileVars, createVars, timerVars, taskVars, wanted>>

\* 'R' of an open connection asks for the name of its host, which may throw; of a closed
\* one it asks the closed socket for the port, which throws always.
RestoreConnection ==
    /\ At("look") /\ command.name = "R"
    /\ LET s == fd2sockets_[command.id]
       IN  \/ (s # None => HasPort(s)) /\ Goes("keys")
           \/ s # None /\ Goes("ended")
    /\ UNCHANGED <<sockVars, fileVars, createVars, timerVars, taskVars, wanted>>

\* 'F': the connection with that descriptor, if it is open; then a path is asked for.
FindConnection ==
    /\ At("look") /\ command.name = "F"
    /\ LET s == fd2sockets_[command.id]
       IN  Goes(IF s # None /\ IsOpen(s) THEN "assign" ELSE "keys")
    /\ UNCHANGED <<sockVars, fileVars, createVars, timerVars, taskVars, wanted>>

\* No file is there, or it cannot be opened, which throws.
AssignFails ==
    /\ At("assign")
    /\ Goes("keys") \/ Goes("ended")
    /\ UNCHANGED <<sockVars, fileVars, createVars, timerVars, taskVars, wanted>>

UsedFiles == {t.file : t \in {t \in Live : t.kind = "send"}}

\* The connection's former File is deleted, whether a task points to it or not.
NewFiles == {file \in Files \ freed : \A f \in Fds : fd2file_[f] # file}

AssignFile ==
    LET old == fd2file_[command.id]
        file == CHOOSE file \in NewFiles : TRUE
    IN  /\ At("assign") /\ NewFiles # {}
        /\ fd2file_' = [fd2file_ EXCEPT ![command.id] = file]
        /\ freed' = freed \cup ({old} \ {None})
        /\ replaced' = replaced \cup (({old} \cap UsedFiles) \ {None})
        /\ Goes("create")
        /\ UNCHANGED <<sockVars, createVars, timerVars, taskVars, wanted>>

ConsoleCreates ==
    /\ At("create")
    /\ CreateBegins("console", fd2sockets_[command.id])
    /\ Goes("created")
    /\ UNCHANGED <<sockVars, fileVars, timerVars, taskVars, wanted>>

ConsoleCreated ==
    /\ At("created")
    /\ CreateEnds("console")
    /\ Goes("keys")
    /\ UNCHANGED <<sockVars, fileVars, taskVars, wanted>>

\* 'Q'.  ('S', 'P' and 'M' change nothing that matters here.)
Quit ==
    /\ At("keys")
    /\ Goes("ended")
    /\ UNCHANGED <<sockVars, fileVars, createVars, timerVars, taskVars, wanted>>

-----------------------------------------------------------------------------
(* main(), when the console's thread has ended: Mainframe::shutdown() *)

CancelTimer ==
    /\ At("ended")
    /\ Timer!Terminate
    /\ Goes("cancel")
    /\ UNCHANGED <<sockVars, fileVars, createVars, taskVars, wanted>>

\* Mutant: cancel() does not wait for the thread.
CancelReturns_Early ==
    /\ At("cancel")
    /\ terminated' = TRUE /\ pending' = {}
    /\ Goes("free")
    /\ UNCHANGED <<running, terminating, sockVars, fileVars, createVars, taskVars, wanted>>

\* Mutant: cancel() waits until the queue is empty.
CancelReturns_Drained ==
    /\ At("cancel") /\ timerThread = "alive"
    /\ Timer!Terminated /\ pending \cup lingering = {}
    /\ Goes("free")
    /\ UNCHANGED <<sockVars, fileVars, createVars, taskVars, wanted>>

\* cancel() waits for the thread, for ever if that has died; then it deletes what is queued.
CancelReturns ==
    /\ At("cancel") /\ timerThread = "alive"
    /\ Timer!Terminated
    /\ lingering' = {}
    /\ Goes("free")
    /\ UNCHANGED <<sockVars, fileVars, createVars, step, connected, timerThread, wanted>>

\* The destructor of the Mainframe deletes its members.
Free ==
    /\ At("free")
    /\ freed' = freed \cup ({fd2file_[f] : f \in Fds} \ {None})
    /\ fd2file_' = [f \in Fds |-> None]
    /\ fd2sockets_' = [f \in Fds |-> None]
    /\ Goes("done")
    /\ UNCHANGED <<socks, replaced, createVars, timerVars, taskVars, wanted>>

-----------------------------------------------------------------------------
(* The timer's thread *)

Alive == timerThread = "alive" /\ UNCHANGED <<timerThread, process>>
Runs(place) == Alive /\ step = place
Steps(place) == step' = place /\ UNCHANGED connected
FirstStep(t) == Steps(IF t.kind = "connect" THEN "connect" ELSE "check")

StartOnce(t) ==
    /\ Alive /\ t \in pending /\ ~IsRepeating(t)
    /\ Timer!StartOnce(t)
    /\ FirstStep(t)
    /\ UNCHANGED <<consoleVars, sockVars, fileVars, createVars, lingering, wanted>>

\* A task that repeats is back in the queue before it runs.
StartRepeating(t) ==
    /\ Alive /\ t \in pending /\ IsRepeating(t)
    /\ Timer!CanStart(t)
    /\ running' = t
    /\ FirstStep(t)
    /\ UNCHANGED <<consoleVars, sockVars, fileVars, createVars, pending, terminating, terminated,
                   lingering, wanted>>

\* The queue has come to a cancelled task, which is deleted.
DropCancelled(t) ==
    /\ Alive /\ running = None /\ ~terminating
    /\ t \in lingering
    /\ lingering' = lingering \ {t}
    /\ UNCHANGED <<consoleVars, sockVars, fileVars, createVars, timerVars, step, connected, wanted>>

\* Mutant: a task whose attempt failed destroys itself, as one that has a connection does.
ConnectFails_Destroys ==
    /\ Runs("connect")
    /\ Steps("destroy")
    /\ UNCHANGED <<consoleVars, sockVars, fileVars, createVars, timerVars, lingering, wanted>>

ConnectFails ==
    /\ Runs("connect")
    /\ Steps("return")
    /\ UNCHANGED <<consoleVars, sockVars, fileVars, createVars, timerVars, lingering, wanted>>

\* The system gives the lowest descriptor; those of closed connections may be taken by Files.
IsGiven(f) ==
    /\ \A s \in Socks : socks[s].fd # f
    /\ \A g \in Fds : g < f => fd2sockets_[g] # None

\* The constructor of TCPSockClient opens a socket, connects it, and asks for the name of
\* the host: that is the address itself only where no other is known.  The socket is one
\* that blocks, only the server makes its own non-blocking (server_parser.cpp:138): the
\* answer ERR_WOULDBLOCK, with which an unopened socket would come back, is left out.
ConnectSucceeds(f) ==
    /\ Runs("connect")
    /\ \E s \in Socks : socks[s].state = "unborn"
    /\ IsGiven(f)
    /\ LET s == CHOOSE s \in Socks : socks[s].state = "unborn"
       IN  /\ \E target \in {running.to, None} :
                 socks' = [socks EXCEPT ![s] = Opened(f, target)]
           /\ connected' = s
    /\ wanted' = wanted \ {running.to}
    /\ step' = "link"
    /\ UNCHANGED <<consoleVars, fd2sockets_, fileVars, createVars, timerVars, lingering>>

\* Mutant: a connection that was cancelled meanwhile is not entered.
Entered_Cancelled(s) ==
    IF running \in lingering THEN fd2sockets_
    ELSE [fd2sockets_ EXCEPT ![socks[s].fd] = IF @ = None THEN s ELSE @]

\* insert() leaves what the map holds for a descriptor.
Entered(s) == [fd2sockets_ EXCEPT ![socks[s].fd] = IF @ = None THEN s ELSE @]

\* newlink_task()
Link ==
    /\ Runs("link")
    /\ fd2sockets_' = Entered(connected)
    /\ Steps("destroy")
    /\ UNCHANGED <<consoleVars, socks, fileVars, createVars, timerVars, lingering, wanted>>

\* destroy_task(): a task that is not in the queue is left alone.
Destroy ==
    /\ Runs("destroy")
    /\ Timer!Cancel(running)
    /\ lingering' = lingering \cup ({running} \cap pending)
    /\ Steps("return")
    /\ UNCHANGED <<consoleVars, sockVars, fileVars, createVars, wanted>>

Conn == running.conn
File == running.file

CheckOpen ==
    /\ Runs("check")
    /\ Steps(IF IsOpen(Conn) THEN "read" ELSE "return")
    /\ UNCHANGED <<consoleVars, sockVars, fileVars, createVars, timerVars, lingering, wanted>>

\* Either there is more to read, or the finish tag is due.
ReadFile ==
    /\ Runs("read") /\ File # None
    /\ Steps("send") \/ Steps("finish")
    /\ UNCHANGED <<consoleVars, sockVars, fileVars, createVars, timerVars, lingering, wanted>>

\* A task that was made for a closed connection has no File; run() asks that for its end.
ReadNoFile ==
    /\ timerThread = "alive" /\ step = "read" /\ File = None
    /\ process' = "crashed"
    /\ UNCHANGED <<consoleVars, sockVars, fileVars, createVars, timerVars, taskVars, wanted>>

\* Mutant: a package that fails is read and sent again.
SendPackage_Again ==
    /\ Runs("send")
    /\ Steps("create") \/ Steps("read")
    /\ UNCHANGED <<consoleVars, sockVars, fileVars, createVars, timerVars, lingering, wanted>>

\* A package that fails ends the chain.  Nothing is sent at the end of the file.
SendPackage ==
    /\ Runs("send")
    /\ Steps("create") \/ Steps("return")
    /\ UNCHANGED <<consoleVars, sockVars, fileVars, createVars, timerVars, lingering, wanted>>

SendFinishTag ==
    /\ Runs("finish") /\ IsOpen(Conn)
    /\ Steps("return")
    /\ UNCHANGED <<consoleVars, sockVars, fileVars, createVars, timerVars, lingering, wanted>>

\* The send of the finish tag is not guarded.
SendFinishTagThrows ==
    /\ timerThread = "alive" /\ step = "finish"
    /\ timerThread' = "dead"
    /\ Timer!End
    /\ Steps("none")
    /\ UNCHANGED <<consoleVars, sockVars, fileVars, createVars, lingering, process, wanted>>

TaskCreates ==
    /\ Runs("create")
    /\ CreateBegins("timer", Conn)
    /\ Steps("created")
    /\ UNCHANGED <<consoleVars, sockVars, fileVars, timerVars, lingering, wanted>>

TaskCreated ==
    /\ Runs("created")
    /\ CreateEnds("timer")
    /\ Steps("return")
    /\ UNCHANGED <<consoleVars, sockVars, fileVars, lingering, wanted>>

Return ==
    /\ Runs("return")
    /\ Timer!End
    /\ step' = "none" /\ connected' = None
    /\ UNCHANGED <<consoleVars, sockVars, fileVars, createVars, lingering, wanted>>

-----------------------------------------------------------------------------
(* What may end the process: no lock guards the maps, no count the Files *)

\* One thread inserts into a map that the other is in.
MapsRaced ==
    \/ console = "look" /\ step = "link" /\ fd2sockets_ # Entered(connected)
    \/ console = "assign" /\ step = "created"
    \/ console = "created" /\ step = "created" /\ creating["timer"] = None

\* A task reads a File that was deleted.
FileMisused == step \in {"read", "send", "finish"} /\ File \in freed

Crash ==
    /\ MapsRaced \/ FileMisused
    /\ process' = "crashed"
    /\ UNCHANGED <<consoleVars, sockVars, fileVars, createVars, timerVars, taskVars, wanted>>

-----------------------------------------------------------------------------

ConsoleNext ==
    \/ \E a \in Addrs : NewConnection(a) \/ InvalidPort(a) \/ NewConnectionThrows(a)
    \/ \E name \in {"R", "F"}, id \in Fds : EnterId(name, id)
    \/ AssignFile \/ StopConnection \/ CloseConnection \/ RestoreConnection \/ FindConnection \/ AssignFails
    \/ ConsoleCreates \/ ConsoleCreated \/ Quit

MainNext == CancelTimer \/ CancelReturns \/ Free

TimerNext ==
    \/ \E t \in Live : StartOnce(t) \/ StartRepeating(t) \/ DropCancelled(t)
    \/ \E f \in Fds : ConnectSucceeds(f)
    \/ ConnectFails \/ Link \/ Destroy
    \/ CheckOpen \/ ReadFile \/ ReadNoFile \/ SendPackage \/ SendFinishTag \/ SendFinishTagThrows
    \/ TaskCreates \/ TaskCreated \/ Return

Next == process = "up" /\ (ConsoleNext \/ MainNext \/ TimerNext \/ Crash)

Spec == Init /\ [][Next]_vars

\* The scheduler of the system: main() and the timer's thread go on when they can; connect()
\* and send() return.  Nobody is obliged to type.  The queue of the timer is in the order of
\* time, and a task that sends is put in for a later moment than one that is due: a task
\* that repeats comes to its turn whenever the thread goes on taking tasks.
FairSpec ==
    /\ Spec
    /\ WF_vars(process = "up" /\ MainNext)
    /\ WF_vars(process = "up" /\ TimerNext)
    /\ \A t \in {t \in ConnectionTask : t.repeats} : SF_vars(process = "up" /\ StartRepeating(t))

-----------------------------------------------------------------------------
(* Properties *)

\* A SendingTask sends on the connection whose descriptor it is named after and whose file
\* it reads, unless that was closed - although create_task() hands the connection over in a
\* static that both threads write (mainframe.cpp:302-313).  Only when both are in it at
\* once may a file go to another server.
TasksSendOwn ==
    overlapped \/ \A t \in Live :
        t.kind = "send" /\ IsOpen(t.conn) => t.to = socks[t.conn].fd

\* A SendingTask holds a bare pointer to its File (user_tasks.h:53).  None is deleted before
\* the last task that could read it, also in the shutdown, except by 'F' on a connection
\* that is still sending (mainframe.cpp:260).
FilesOutliveTasks ==
    /\ UsedFiles \cap freed \subseteq replaced
    /\ console \in {"free", "done"} => running = None

\* The attempt to connect to a is being made.
Tries(a) == step = "connect" /\ running.to = a

\* What ends all attempts: the shutdown, an exception that ends the timer's thread (the
\* unguarded finish tag, user_tasks.cpp:124), a crash.
AttemptsEnd == terminating \/ timerThread = "dead" \/ process = "crashed"

\* An address entered with 'N', while reconnect_interval_ is not 0, is tried again and again
\* until there is a connection to it or 'X' gives it up ("only reconnection process has
\* stopped", mainframe.cpp:132): no attempt that fails is the last, whatever other commands,
\* attempts and connections come in between, as long as the timer's thread lives.  (With an
\* interval of 0 there is one attempt, and nothing is said of it.)
AttemptsPersist ==
    \A a \in Addrs : a \in wanted ~> (Tries(a) \/ a \notin wanted \/ AttemptsEnd)

\* Every open connection can be found by its id, as 'F' and 'R' look for it, from the moment
\* it is entered - except one that was given the descriptor of a closed one, which keeps its
\* place (mainframe.cpp:343).  Nothing is said of 'X', which looks for the first connection
\* whose target is the address: it finds none whose host has another name, and of several to
\* one address only the first (mainframe.cpp:111-117).
LinksReachable ==
    console = "done" \/ \A s \in Socks : IsOpen(s) =>
        \/ fd2sockets_[socks[s].fd] = s
        \/ fd2sockets_[socks[s].fd] # None /\ ~IsOpen(fd2sockets_[socks[s].fd])
        \/ step = "link" /\ connected = s

\* How many steps main() and the running task have at most before them when the timer has
\* been cancelled.
MainLeft == CASE console = "cancel" -> 2 [] console = "free" -> 1 [] OTHER -> 0
TaskLeft ==
    CASE step = "check" -> 6 [] step = "read" -> 5 [] step \in {"send", "connect"} -> 4
      [] step \in {"create", "link"} -> 3 [] step \in {"created", "destroy", "finish"} -> 2
      [] step = "return" -> 1 [] OTHER -> 0

\* From then on no package, attempt or connection is begun, and each step brings the end
\* nearer: the successor of a SendingTask is refused and deleted (mainframe.cpp:315-322), an
\* attempt is not repeated, whatever the servers do.
ShutdownNears ==
    [][terminating => \/ MainLeft' + TaskLeft' < MainLeft + TaskLeft
                      \/ UNCHANGED <<console, step, pending, running>>]_vars

\* The console's thread ends, by 'Q' or by an exception, and the process ends - except when
\* the finish tag could not be sent before, cancel() waits for the dead thread then
\* (user_tasks.cpp:124, timer.cpp:374).
ShutdownEnds ==
    console = "ended" ~> console = "done" \/ timerThread = "dead" \/ process = "crashed"

=============================================================================
