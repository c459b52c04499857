---------------------------- MODULE ClientProofs ----------------------------
(***************************************************************************)
(* Theorems about Client, for every set of addresses, descriptors,         *)
(* connections and files.                                                  *)
(***************************************************************************)
EXTENDS Client, TLAPS

-----------------------------------------------------------------------------
(* The inductive invariant *)

SockStates == [state : {"unborn", "open", "closed"}, fd : Fds \cup {None},
               target : Addrs \cup {None}]

Callers == {"console", "timer"}

TypedConsole ==
    /\ console \in {"keys", "look", "cancelled", "assign", "create", "created", "stuck",
                    "ended", "cancel", "join", "free", "done"}
    /\ command \in [name : {"X", "R", "F", "none"}, id : Fds \cup {None}]
    /\ server_ip \in Addrs \cup {None}

TypedSocks ==
    /\ socks \in [Socks -> SockStates]
    /\ \A s \in Socks : IsOpen(s) <=> socks[s].fd \in Fds
    /\ \A s, r \in Socks : IsOpen(s) /\ IsOpen(r) /\ s # r => socks[s].fd # socks[r].fd
    /\ fd2sockets_ \in [Fds -> Socks \cup {None}]

TypedFiles ==
    /\ fd2file_ \in [Fds -> Files \cup {None}]
    /\ replaced \subseteq freed /\ freed \subseteq Files

TypedTasks ==
    /\ pending \cup lingering \subseteq Task /\ running \in Task \cup {None}
    /\ pending \cap lingering = {}
    /\ connected \in Socks \cup {None}
    /\ step \in {"none", "connect", "link", "destroy", "check", "read", "send", "finish",
                 "create", "created", "return"}
    /\ running = None <=> step = "none"

TypedCreation ==
    /\ spActiveConnection \in Socks \cup {None}
    /\ creating \in [Callers -> Fds \cup {None}]

\* Where the threads are tells what is in their hands.
Placed ==
    /\ console = "look" /\ command.name # "X" => command.id \in Fds
    /\ console \in {"assign", "create"} =>
          command.id \in Fds /\ fd2sockets_[command.id] # None
    /\ console \in {"free", "done"} => pending = {} /\ lingering = {} /\ running = None
    /\ step \in {"connect", "link", "destroy"} => running.kind = "connect"
    /\ step \in {"check", "read", "send", "finish", "create", "created"} => running.kind = "send"
    /\ step = "link" => connected # None

\* A connection that others know has been opened; the descriptor that a connection is found
\* under is its own until it is closed.
Opening ==
    /\ \A f \in Fds : fd2sockets_[f] # None =>
          /\ socks[fd2sockets_[f]].state # "unborn"
          /\ IsOpen(fd2sockets_[f]) => socks[fd2sockets_[f]].fd = f
    /\ connected # None => socks[connected].state # "unborn"
    /\ \A t \in Live : t.kind = "send" => socks[t.conn].state # "unborn"
    /\ \A c \in Callers : IsCreating(c) =>
          spActiveConnection # None /\ socks[spActiveConnection].state # "unborn"

\* The static is the connection of the descriptor, for a caller that is alone.
ActiveIsOwn ==
    overlapped \/ \A c \in Callers :
        IsCreating(c) /\ IsOpen(spActiveConnection) => creating[c] = socks[spActiveConnection].fd

OnlyConnectionsLinger == \A t \in lingering : t.kind = "connect"

\* fd2file_ owns its Files.
FilesOwned ==
    /\ \A f \in Fds : fd2file_[f] \notin freed
    /\ \A f, g \in Fds : f # g => fd2file_[f] # fd2file_[g] \/ fd2file_[f] = None

\* An address is tried by a task that stays: it repeats, and does not destroy itself now.
Trying(t, a) ==
    /\ t.kind = "connect" /\ t.to = a /\ t.repeats
    /\ ~(t = running /\ step \in {"link", "destroy"})

AttemptsKept == terminated \/ \A a \in wanted : \E t \in pending : Trying(t, a)

IInv ==
    /\ TypedConsole /\ TypedSocks /\ TypedFiles /\ TypedTasks /\ TypedCreation
    /\ Placed /\ Opening /\ OnlyConnectionsLinger
    /\ ActiveIsOwn /\ TasksSendOwn
    /\ FilesOwned /\ FilesOutliveTasks
    /\ AttemptsKept /\ LinksReachable

-----------------------------------------------------------------------------
(* What the tasks are *)

\* A task is of one kind or the other.
LEMMA Kinds ==
    \A t \in Task : \/ t.kind = "connect" /\ t \in ConnectionTask
                    \/ t.kind = "send" /\ t \in SendingTask
<1>1. \A t \in ConnectionTask : t.kind = "connect"
  BY DEF ConnectionTask
<1>2. \A t \in SendingTask : t.kind = "send"
  BY DEF SendingTask
<1> QED
  BY <1>1, <1>2 DEF Task

\* What create_task() makes is a SendingTask of the static connection.
LEMMA Created ==
    ASSUME NEW fd \in Fds \cup {None}, spActiveConnection \in Socks, TypedFiles
    PROVE  /\ NewSendingTask(fd) \in SendingTask /\ NewSendingTask(fd) \in Task
           /\ NewSendingTask(fd).kind = "send" /\ NewSendingTask(fd).to = fd
           /\ NewSendingTask(fd).conn = spActiveConnection
           /\ NewSendingTask(fd).file = IF fd = None THEN None ELSE fd2file_[fd]
<1> DEFINE file == IF fd = None THEN None ELSE fd2file_[fd]
<1>1. file \in Files \cup {None}
  BY DEF TypedFiles
<1> HIDE DEF file
<1>2. [kind |-> "send", to |-> fd, conn |-> spActiveConnection, file |-> file] \in SendingTask
  BY <1>1 DEF SendingTask
<1>3. NewSendingTask(fd)
        = [kind |-> "send", to |-> fd, conn |-> spActiveConnection, file |-> file]
  BY DEF NewSendingTask, file
<1> QED
  BY <1>2, <1>3 DEF Task, file

\* A SendingTask has a connection.
LEMMA Sending ==
    ASSUME NEW t \in Task, t.kind = "send"
    PROVE  t \in SendingTask /\ t.conn \in Socks
<1>1. t \in SendingTask
  BY Kinds
<1> QED
  BY <1>1 DEF SendingTask

\* The second half of create_task() schedules a SendingTask of an opened connection, which
\* is its own for a caller that is alone, and of a File that is not deleted; or nothing.
LEMMA Ends ==
    ASSUME IInv, NEW c \in Callers, IsCreating(c), CreateEnds(c)
    PROVE  /\ UNCHANGED <<running, terminating, terminated>>
           /\ creating' = [creating EXCEPT ![c] = None]
           /\ UNCHANGED <<spActiveConnection, overlapped>>
           /\ \/ pending' = pending
              \/ \E task \in Task :
                    /\ pending' = pending \cup {task} /\ task \notin lingering
                    /\ task.kind = "send"
                    /\ task.conn \in Socks /\ socks[task.conn].state # "unborn"
                    /\ ~overlapped /\ IsOpen(task.conn) => task.to = socks[task.conn].fd
                    /\ task.file \notin freed
<1> USE ClientAssumption, TaskAssumption DEF IInv
<1> DEFINE task == NewSendingTask(creating[c])
<1>1. spActiveConnection \in Socks /\ socks[spActiveConnection].state # "unborn"
  BY DEF Opening, TypedCreation
<1>2. creating[c] \in Fds \cup {None}
  BY DEF TypedCreation
<1>3. /\ task \in Task /\ task.kind = "send" /\ task.to = creating[c]
      /\ task.conn = spActiveConnection
      /\ task.file = IF creating[c] = None THEN None ELSE fd2file_[creating[c]]
  BY <1>1, <1>2, Created
<1>4. task.file \notin freed
  BY <1>2, <1>3 DEF FilesOwned, TypedFiles
<1>5. task \notin lingering
  BY <1>3 DEF OnlyConnectionsLinger
<1>6. ~overlapped /\ IsOpen(task.conn) => task.to = socks[task.conn].fd
  BY <1>3 DEF ActiveIsOwn
<1>7. /\ UNCHANGED <<running, terminating, terminated>>
      /\ pending' = pending \/ pending' = pending \cup {task}
  BY DEF CreateEnds, timerVars, Timer!Schedule
<1>8. /\ creating' = [creating EXCEPT ![c] = None]
      /\ UNCHANGED <<spActiveConnection, overlapped>>
  BY DEF CreateEnds
<1> HIDE DEF task
<1> QED
  BY <1>1, <1>3, <1>4, <1>5, <1>6, <1>7, <1>8

-----------------------------------------------------------------------------

\* Each action keeps each part of the invariant: what it does not touch, and what it does.
LEMMA Step == IInv /\ [Next]_vars => IInv'
<1> SUFFICES ASSUME IInv, [Next]_vars PROVE IInv'
  OBVIOUS
<1> USE ClientAssumption, TaskAssumption
<1> USE DEF IInv, consoleVars, sockVars, fileVars, createVars, timerVars, taskVars
<1>1. CASE \/ \E a \in Addrs : InvalidPort(a) \/ NewConnectionThrows(a)
           \/ \E name \in {"R", "F"}, id \in Fds : EnterId(name, id)
           \/ RestoreConnection \/ FindConnection \/ AssignFails \/ Quit
  <2> USE <1>1
      DEF InvalidPort, NewConnectionThrows, EnterId, RestoreConnection, FindConnection,
          AssignFails, Quit, At, Goes
  <2>1. TypedConsole'
    BY DEF TypedConsole, NoCommand
  <2>2. Placed'
    BY DEF TypedConsole, TypedTasks, TypedSocks, Placed
  <2>3. Opening'
    BY DEF TypedSocks, TypedTasks, TypedCreation, Opening, Placed, Callers, IsCreating, Live,
           IsOpen
  <2>4. ActiveIsOwn'
    BY DEF TypedSocks, TypedCreation, ActiveIsOwn, Opening, Placed, Callers, IsCreating,
           IsOpen
  <2>5. FilesOutliveTasks'
    BY DEF TypedTasks, TypedFiles, FilesOutliveTasks, FilesOwned, UsedFiles, Live, Placed
  <2>6. LinksReachable'
    BY DEF TypedSocks, TypedTasks, LinksReachable, Opening, Placed, IsOpen
  <2>7. /\ TypedSocks' /\ TypedFiles' /\ TypedTasks' /\ TypedCreation'
        /\ OnlyConnectionsLinger' /\ TasksSendOwn' /\ FilesOwned' /\ AttemptsKept'
    BY DEF TypedSocks, TypedFiles, TypedTasks, TypedCreation, OnlyConnectionsLinger,
           TasksSendOwn, FilesOwned, AttemptsKept, IsOpen, Live, Trying
  <2> QED
    BY <2>1, <2>2, <2>3, <2>4, <2>5, <2>6, <2>7
<1>2. ASSUME NEW a \in Addrs, NewConnection(a) PROVE IInv'
  <2> USE <1>2
      DEF NewConnection, At, Timer!Schedule, NewConnectionTasks
  <2>1. TypedConsole'
    BY DEF TypedConsole, NoCommand
  <2>2. TypedTasks'
    <3>1. PICK t \in NewConnectionTasks(a) \ Live : Timer!Schedule(t)
      OBVIOUS
    <3>2. t \in Task
      BY DEF Task, ConnectionTask
    <3> QED
      BY <3>1, <3>2 DEF TypedTasks, Live
  <2>3. Placed'
    BY DEF TypedConsole, TypedTasks, TypedSocks, Placed
  <2>4. Opening'
    BY DEF TypedSocks, TypedTasks, TypedCreation, Opening, Placed, Callers, IsCreating, Live,
           IsOpen
  <2>5. TasksSendOwn'
    BY DEF TypedTasks, TypedSocks, TypedCreation, TasksSendOwn, ActiveIsOwn, Opening, Placed,
           Live, IsOpen
  <2>6. FilesOutliveTasks'
    BY DEF TypedTasks, TypedFiles, FilesOutliveTasks, FilesOwned, UsedFiles, Live, Placed
  <2>7. AttemptsKept'
    BY DEF TypedTasks, AttemptsKept, Trying, Placed, Live
  <2>8. /\ TypedSocks' /\ TypedFiles' /\ TypedCreation' /\ OnlyConnectionsLinger'
        /\ ActiveIsOwn' /\ FilesOwned' /\ LinksReachable'
    BY DEF TypedSocks, TypedFiles, TypedCreation, OnlyConnectionsLinger, ActiveIsOwn,
           FilesOwned, LinksReachable, IsOpen, IsCreating
  <2> QED
    BY <2>1, <2>2, <2>3, <2>4, <2>5, <2>6, <2>7, <2>8
<1>3. ASSUME StopConnection PROVE IInv'
  <2> USE <1>3
      DEF StopConnection, At, Goes, Timer!Cancel
  <2>1. TypedConsole'
    BY DEF TypedConsole, NoCommand
  <2>2. TypedTasks'
    BY DEF TypedTasks
  <2>3. Placed'
    BY DEF TypedConsole, TypedTasks, TypedSocks, Placed
  <2>4. Opening'
    BY DEF TypedSocks, TypedTasks, TypedCreation, Opening, Placed, Callers, IsCreating, Live,
           IsOpen
  <2>5. OnlyConnectionsLinger'
    BY DEF TypedTasks, OnlyConnectionsLinger, Placed
  <2>6. ActiveIsOwn'
    BY DEF TypedSocks, TypedCreation, ActiveIsOwn, Opening, Placed, Callers, IsCreating,
           IsOpen
  <2>7. TasksSendOwn'
    BY DEF TypedTasks, TypedSocks, TypedCreation, TasksSendOwn, ActiveIsOwn, Opening, Placed,
           Live, IsOpen
  <2>8. FilesOutliveTasks'
    BY DEF TypedTasks, TypedFiles, FilesOutliveTasks, FilesOwned, UsedFiles, Live, Placed
  <2>9. AttemptsKept'
    BY DEF TypedTasks, AttemptsKept, Trying, Placed, Live
  <2>10. LinksReachable'
    BY DEF TypedSocks, TypedTasks, LinksReachable, Opening, Placed, IsOpen
  <2>11. TypedSocks' /\ TypedFiles' /\ TypedCreation' /\ FilesOwned'
    BY DEF TypedSocks, TypedFiles, TypedCreation, FilesOwned, IsOpen
  <2> QED
    BY <2>1, <2>2, <2>3, <2>4, <2>5, <2>6, <2>7, <2>8, <2>9, <2>10, <2>11
<1>4. ASSUME CloseConnection PROVE IInv'
  <2> USE <1>4
      DEF CloseConnection, At, Goes, Targeted, Closed
  <2>1. TypedConsole'
    BY DEF TypedConsole, NoCommand
  <2>2. TypedSocks'
    BY DEF TypedSocks, SockStates, IsOpen
  <2>3. Placed'
    BY DEF TypedConsole, TypedTasks, TypedSocks, Placed
  <2>4. Opening'
    <3>1. /\ socks' \in [Socks -> SockStates]
          /\ \A s \in Socks : socks'[s] # socks[s] => socks'[s] = Closed
      BY DEF TypedSocks, SockStates
    <3>2. \A s \in Socks : socks[s].state # "unborn" => socks'[s].state # "unborn"
      BY <3>1
    <3>3. \A s \in Socks : IsOpen(s)' => socks'[s] = socks[s]
      BY <3>1 DEF IsOpen
    <3>4. /\ \A t \in Live : t.kind = "send" => t.conn \in Socks
          /\ Live' = Live
      BY Sending DEF Live, TypedTasks
    <3> QED
      BY <3>2, <3>3, <3>4 DEF Opening, TypedSocks, TypedTasks, TypedCreation, Callers, IsCreating,
         IsOpen
  <2>5. ActiveIsOwn'
    BY DEF TypedSocks, TypedCreation, ActiveIsOwn, Opening, Placed, Callers, IsCreating,
           IsOpen
  <2>6. TasksSendOwn'
    <3>1. /\ socks' \in [Socks -> SockStates]
          /\ \A s \in Socks : socks'[s] # socks[s] => socks'[s] = Closed
      BY DEF TypedSocks, SockStates
    <3>2. \A s \in Socks : IsOpen(s)' => socks'[s] = socks[s]
      BY <3>1 DEF IsOpen
    <3>3. /\ \A t \in Live : t.kind = "send" => t.conn \in Socks
          /\ Live' = Live
      BY Sending DEF Live, TypedTasks
    <3> QED
      BY <3>2, <3>3 DEF TasksSendOwn, IsOpen
  <2>7. FilesOutliveTasks'
    BY DEF TypedTasks, TypedFiles, FilesOutliveTasks, FilesOwned, UsedFiles, Live, Placed
  <2>8. LinksReachable'
    BY DEF TypedSocks, TypedTasks, LinksReachable, Opening, Placed, IsOpen
  <2>9. /\ TypedFiles' /\ TypedTasks' /\ TypedCreation' /\ OnlyConnectionsLinger'
        /\ FilesOwned' /\ AttemptsKept'
    BY DEF TypedFiles, TypedTasks, TypedCreation, OnlyConnectionsLinger, FilesOwned,
           AttemptsKept, Trying
  <2> QED
    BY <2>1, <2>2, <2>3, <2>4, <2>5, <2>6, <2>7, <2>8, <2>9
<1>5. ASSUME AssignFile PROVE IInv'
  <2> USE <1>5
      DEF AssignFile, At, Goes, NewFiles
  <2>1. TypedConsole'
    BY DEF TypedConsole, NoCommand
  <2>2. TypedFiles'
    <3>1. (CHOOSE file \in NewFiles : TRUE) \in NewFiles
      BY DEF NewFiles
    <3>2. command.id \in Fds
      BY DEF Placed
    <3> QED
      BY <3>1, <3>2 DEF TypedFiles
  <2>3. Placed'
    BY DEF TypedConsole, TypedTasks, TypedSocks, Placed
  <2>4. Opening'
    BY DEF TypedSocks, TypedTasks, TypedCreation, Opening, Placed, Callers, IsCreating, Live,
           IsOpen
  <2>5. ActiveIsOwn'
    BY DEF TypedSocks, TypedCreation, ActiveIsOwn, Opening, Placed, Callers, IsCreating,
           IsOpen
  <2>6. FilesOwned'
    <3> DEFINE file == CHOOSE file \in NewFiles : TRUE
               old == fd2file_[command.id]
    <3>1. file \in Files \ freed /\ \A f \in Fds : fd2file_[f] # file
      BY DEF NewFiles
    <3>2. command.id \in Fds
      BY DEF Placed
    <3>3. fd2file_' = [fd2file_ EXCEPT ![command.id] = file] /\ freed' = freed \cup ({old} \ {None})
      OBVIOUS
    <3> HIDE DEF file
    <3> QED
      BY <3>1, <3>2, <3>3 DEF FilesOwned, TypedFiles
  <2>7. FilesOutliveTasks'
    BY DEF TypedTasks, TypedFiles, FilesOutliveTasks, FilesOwned, UsedFiles, Live, Placed
  <2>8. LinksReachable'
    BY DEF TypedSocks, TypedTasks, LinksReachable, Opening, Placed, IsOpen
  <2>9. /\ TypedSocks' /\ TypedTasks' /\ TypedCreation' /\ OnlyConnectionsLinger'
        /\ TasksSendOwn' /\ AttemptsKept'
    BY DEF TypedSocks, TypedTasks, TypedCreation, OnlyConnectionsLinger, TasksSendOwn,
           AttemptsKept, IsOpen, Live, Trying
  <2> QED
    BY <2>1, <2>2, <2>3, <2>4, <2>5, <2>6, <2>7, <2>8, <2>9
<1>6. ASSUME ConsoleCreates PROVE IInv'
  <2> USE <1>6
      DEF ConsoleCreates, At, Goes, CreateBegins, Activate, Other
  <2>1. TypedConsole'
    BY DEF TypedConsole, NoCommand
  <2>2. TypedCreation'
    <3>1. fd2sockets_[command.id] \in Socks
      BY DEF Placed, TypedSocks
    <3>2. socks[fd2sockets_[command.id]].fd \in Fds \cup {None}
      BY <3>1 DEF TypedSocks, SockStates
    <3> QED
      BY <3>1, <3>2 DEF TypedCreation, Callers
  <2>3. Placed'
    BY DEF TypedConsole, TypedTasks, TypedSocks, Placed
  <2>4. Opening'
    BY DEF TypedSocks, TypedTasks, TypedCreation, Opening, Placed, Callers, IsCreating, Live,
           IsOpen
  <2>5. ActiveIsOwn'
    BY DEF TypedSocks, TypedCreation, ActiveIsOwn, Opening, Placed, Callers, IsCreating,
           IsOpen
  <2>6. TasksSendOwn'
    BY DEF TypedTasks, TypedSocks, TypedCreation, TasksSendOwn, ActiveIsOwn, Opening, Placed,
           Live, IsOpen
  <2>7. FilesOutliveTasks'
    BY DEF TypedTasks, TypedFiles, FilesOutliveTasks, FilesOwned, UsedFiles, Live, Placed
  <2>8. LinksReachable'
    BY DEF TypedSocks, TypedTasks, LinksReachable, Opening, Placed, IsOpen
  <2>9. /\ TypedSocks' /\ TypedFiles' /\ TypedTasks' /\ OnlyConnectionsLinger'
        /\ FilesOwned' /\ AttemptsKept'
    BY DEF TypedSocks, TypedFiles, TypedTasks, OnlyConnectionsLinger, FilesOwned,
           AttemptsKept, IsOpen, Trying
  <2> QED
    BY <2>1, <2>2, <2>3, <2>4, <2>5, <2>6, <2>7, <2>8, <2>9
<1>7. ASSUME ConsoleCreated PROVE IInv'
  <2> USE <1>7
      DEF ConsoleCreated, At, Goes, CreateEnds, Timer!Schedule
  <2>0. /\ UNCHANGED <<running, terminating, terminated>>
        /\ creating' = [creating EXCEPT !["console"] = None]
        /\ UNCHANGED <<spActiveConnection, overlapped>>
        /\ \/ pending' = pending
           \/ \E task \in Task :
                 /\ pending' = pending \cup {task} /\ task \notin lingering
                 /\ task.kind = "send"
                 /\ task.conn \in Socks /\ socks[task.conn].state # "unborn"
                 /\ ~overlapped /\ IsOpen(task.conn) => task.to = socks[task.conn].fd
                 /\ task.file \notin freed
    BY Ends DEF Callers, IsCreating
  <2>1. TypedConsole'
    BY DEF TypedConsole, NoCommand
  <2>2. TypedTasks'
    BY <2>0 DEF TypedTasks
  <2>3. TypedCreation'
    BY DEF TypedCreation, Callers
  <2>4. Placed'
    BY DEF TypedConsole, TypedTasks, TypedSocks, Placed
  <2>5. Opening'
    BY <2>0 DEF Opening, TypedTasks, Callers, IsCreating, Live, IsOpen
  <2>6. ActiveIsOwn'
    BY DEF TypedSocks, TypedCreation, ActiveIsOwn, Opening, Placed, Callers, IsCreating,
           IsOpen
  <2>7. TasksSendOwn'
    BY <2>0 DEF TasksSendOwn, TypedTasks, Live, IsOpen
  <2>8. FilesOutliveTasks'
    BY <2>0 DEF FilesOutliveTasks, TypedTasks, UsedFiles, Live, Placed
  <2>9. AttemptsKept'
    BY DEF TypedTasks, AttemptsKept, Trying, Placed, Live
  <2>10. LinksReachable'
    BY DEF TypedSocks, TypedTasks, LinksReachable, Opening, Placed, IsOpen
  <2>11. TypedSocks' /\ TypedFiles' /\ OnlyConnectionsLinger' /\ FilesOwned'
    BY DEF TypedSocks, TypedFiles, OnlyConnectionsLinger, FilesOwned, IsOpen
  <2> QED
    BY <2>1, <2>2, <2>3, <2>4, <2>5, <2>6, <2>7, <2>8, <2>9, <2>10, <2>11
<1>8. ASSUME CancelTimer PROVE IInv'
  <2> USE <1>8
      DEF CancelTimer, At, Goes, Timer!Terminate
  <2>1. TypedConsole'
    BY DEF TypedConsole, NoCommand
  <2>2. Placed'
    BY DEF TypedConsole, TypedTasks, TypedSocks, Placed
  <2>3. Opening'
    BY DEF TypedSocks, TypedTasks, TypedCreation, Opening, Placed, Callers, IsCreating, Live,
           IsOpen
  <2>4. ActiveIsOwn'
    BY DEF TypedSocks, TypedCreation, ActiveIsOwn, Opening, Placed, Callers, IsCreating,
           IsOpen
  <2>5. FilesOutliveTasks'
    BY DEF TypedTasks, TypedFiles, FilesOutliveTasks, FilesOwned, UsedFiles, Live, Placed
  <2>6. LinksReachable'
    BY DEF TypedSocks, TypedTasks, LinksReachable, Opening, Placed, IsOpen
  <2>7. /\ TypedSocks' /\ TypedFiles' /\ TypedTasks' /\ TypedCreation'
        /\ OnlyConnectionsLinger' /\ TasksSendOwn' /\ FilesOwned' /\ AttemptsKept'
    BY DEF TypedSocks, TypedFiles, TypedTasks, TypedCreation, OnlyConnectionsLinger,
           TasksSendOwn, FilesOwned, AttemptsKept, IsOpen, Live, Trying
  <2> QED
    BY <2>1, <2>2, <2>3, <2>4, <2>5, <2>6, <2>7
<1>9. ASSUME CancelReturns PROVE IInv'
  <2> USE <1>9
      DEF CancelReturns, At, Goes, Timer!Terminated
  <2>1. TypedConsole'
    BY DEF TypedConsole, NoCommand
  <2>2. TypedTasks'
    BY DEF TypedTasks
  <2>3. Placed'
    BY DEF TypedConsole, TypedTasks, TypedSocks, Placed
  <2>4. Opening'
    BY DEF TypedSocks, TypedTasks, TypedCreation, Opening, Placed, Callers, IsCreating, Live,
           IsOpen
  <2>5. OnlyConnectionsLinger'
    BY DEF TypedTasks, OnlyConnectionsLinger, Placed
  <2>6. ActiveIsOwn'
    BY DEF TypedSocks, TypedCreation, ActiveIsOwn, Opening, Placed, Callers, IsCreating,
           IsOpen
  <2>7. TasksSendOwn'
    BY DEF TypedTasks, TypedSocks, TypedCreation, TasksSendOwn, ActiveIsOwn, Opening, Placed,
           Live, IsOpen
  <2>8. FilesOutliveTasks'
    BY DEF TypedTasks, TypedFiles, FilesOutliveTasks, FilesOwned, UsedFiles, Live, Placed
  <2>9. AttemptsKept'
    BY DEF TypedTasks, AttemptsKept, Trying, Placed, Live
  <2>10. LinksReachable'
    BY DEF TypedSocks, TypedTasks, LinksReachable, Opening, Placed, IsOpen
  <2>11. TypedSocks' /\ TypedFiles' /\ TypedCreation' /\ FilesOwned'
    BY DEF TypedSocks, TypedFiles, TypedCreation, FilesOwned, IsOpen
  <2> QED
    BY <2>1, <2>2, <2>3, <2>4, <2>5, <2>6, <2>7, <2>8, <2>9, <2>10, <2>11
<1>10. ASSUME Free PROVE IInv'
  <2> USE <1>10
      DEF Free, At, Goes
  <2>1. TypedConsole'
    BY DEF TypedConsole, NoCommand
  <2>2. TypedSocks'
    BY DEF TypedSocks, SockStates, IsOpen
  <2>3. TypedFiles'
    BY DEF TypedFiles
  <2>4. Placed'
    BY DEF TypedConsole, TypedTasks, TypedSocks, Placed
  <2>5. Opening'
    BY DEF TypedSocks, TypedTasks, TypedCreation, Opening, Placed, Callers, IsCreating, Live,
           IsOpen
  <2>6. ActiveIsOwn'
    BY DEF TypedSocks, TypedCreation, ActiveIsOwn, Opening, Placed, Callers, IsCreating,
           IsOpen
  <2>7. FilesOwned'
    BY DEF TypedFiles, FilesOwned
  <2>8. FilesOutliveTasks'
    BY DEF TypedTasks, TypedFiles, FilesOutliveTasks, FilesOwned, UsedFiles, Live, Placed
  <2>9. LinksReachable'
    BY DEF TypedSocks, TypedTasks, LinksReachable, Opening, Placed, IsOpen
  <2>10. /\ TypedTasks' /\ TypedCreation' /\ OnlyConnectionsLinger' /\ TasksSendOwn'
        /\ AttemptsKept'
    BY DEF TypedTasks, TypedCreation, OnlyConnectionsLinger, TasksSendOwn, AttemptsKept,
           IsOpen, Live, Trying
  <2> QED
    BY <2>1, <2>2, <2>3, <2>4, <2>5, <2>6, <2>7, <2>8, <2>9, <2>10
<1>11. ASSUME NEW t \in Live, StartOnce(t) \/ StartRepeating(t) PROVE IInv'
  <2> USE <1>11
      DEF StartOnce, StartRepeating, Alive, FirstStep, Steps, Timer!StartOnce,
          Timer!CanStart, IsRepeating
  <2>1. TypedTasks'
    BY DEF TypedTasks
  <2>2. Placed'
    <3>1. t \in Task /\ t # None
      BY DEF TypedTasks
    <3>2. running' = t /\ step' = IF t.kind = "connect" THEN "connect" ELSE "check"
      BY DEF FirstStep
    <3>3. t.kind \in {"connect", "send"}
      BY <3>1, Kinds
    <3>4. console \notin {"free", "done"}
      BY DEF Placed
    <3> QED
      BY <3>1, <3>2, <3>3, <3>4 DEF Placed
  <2>3. Opening'
    BY DEF TypedSocks, TypedTasks, TypedCreation, Opening, Placed, Callers, IsCreating, Live,
           IsOpen
  <2>4. ActiveIsOwn'
    BY DEF TypedSocks, TypedCreation, ActiveIsOwn, Opening, Placed, Callers, IsCreating,
           IsOpen
  <2>5. TasksSendOwn'
    BY DEF TypedTasks, TypedSocks, TypedCreation, TasksSendOwn, ActiveIsOwn, Opening, Placed,
           Live, IsOpen
  <2>6. FilesOutliveTasks'
    BY DEF TypedTasks, TypedFiles, FilesOutliveTasks, FilesOwned, UsedFiles, Live, Placed
  <2>7. AttemptsKept'
    BY DEF TypedTasks, AttemptsKept, Trying, Placed, Live
  <2>8. LinksReachable'
    BY DEF TypedSocks, TypedTasks, LinksReachable, Opening, Placed, IsOpen
  <2>9. /\ TypedConsole' /\ TypedSocks' /\ TypedFiles' /\ TypedCreation'
        /\ OnlyConnectionsLinger' /\ FilesOwned'
    BY DEF TypedConsole, TypedSocks, TypedFiles, TypedCreation, OnlyConnectionsLinger,
           FilesOwned, IsOpen
  <2> QED
    BY <2>1, <2>2, <2>3, <2>4, <2>5, <2>6, <2>7, <2>8, <2>9
<1>12. ASSUME NEW t \in Live, DropCancelled(t) PROVE IInv'
  <2> USE <1>12
      DEF DropCancelled, Alive
  <2>1. TypedTasks'
    BY DEF TypedTasks
  <2>2. Placed'
    BY DEF TypedConsole, TypedTasks, TypedSocks, Placed
  <2>3. Opening'
    BY DEF TypedSocks, TypedTasks, TypedCreation, Opening, Placed, Callers, IsCreating, Live,
           IsOpen
  <2>4. OnlyConnectionsLinger'
    BY DEF TypedTasks, OnlyConnectionsLinger, Placed
  <2>5. TasksSendOwn'
    BY DEF TypedTasks, TypedSocks, TypedCreation, TasksSendOwn, ActiveIsOwn, Opening, Placed,
           Live, IsOpen
  <2>6. FilesOutliveTasks'
    BY DEF TypedTasks, TypedFiles, FilesOutliveTasks, FilesOwned, UsedFiles, Live, Placed
  <2>7. /\ TypedConsole' /\ TypedSocks' /\ TypedFiles' /\ TypedCreation'
        /\ ActiveIsOwn' /\ FilesOwned' /\ AttemptsKept' /\ LinksReachable'
    BY DEF TypedConsole, TypedSocks, TypedFiles, TypedCreation, ActiveIsOwn, FilesOwned,
           AttemptsKept, LinksReachable, IsOpen, Trying, IsCreating
  <2> QED
    BY <2>1, <2>2, <2>3, <2>4, <2>5, <2>6, <2>7
<1>13. CASE ConnectFails \/ CheckOpen \/ ReadFile \/ SendPackage \/ SendFinishTag
  <2> USE <1>13
      DEF ConnectFails, CheckOpen, ReadFile, SendPackage, SendFinishTag, Alive, Runs, Steps
  <2>1. TypedTasks'
    BY DEF TypedTasks
  <2>2. Placed'
    BY DEF TypedConsole, TypedTasks, TypedSocks, Placed
  <2>3. Opening'
    BY DEF TypedSocks, TypedTasks, TypedCreation, Opening, Placed, Callers, IsCreating, Live,
           IsOpen
  <2>4. ActiveIsOwn'
    BY DEF TypedSocks, TypedCreation, ActiveIsOwn, Opening, Placed, Callers, IsCreating,
           IsOpen
  <2>5. AttemptsKept'
    BY DEF TypedTasks, AttemptsKept, Trying, Placed, Live
  <2>6. LinksReachable'
    BY DEF TypedSocks, TypedTasks, LinksReachable, Opening, Placed, IsOpen
  <2>7. /\ TypedConsole' /\ TypedSocks' /\ TypedFiles' /\ TypedCreation'
        /\ OnlyConnectionsLinger' /\ TasksSendOwn' /\ FilesOwned' /\ FilesOutliveTasks'
    BY DEF TypedConsole, TypedSocks, TypedFiles, TypedCreation, OnlyConnectionsLinger,
           TasksSendOwn, FilesOwned, FilesOutliveTasks, IsOpen, Live, UsedFiles
  <2> QED
    BY <2>1, <2>2, <2>3, <2>4, <2>5, <2>6, <2>7
<1>14. ASSUME NEW f \in Fds, ConnectSucceeds(f) PROVE IInv'
  <2> USE <1>14
      DEF ConnectSucceeds, Alive, Runs, Steps, IsGiven, Opened
  <2>1. TypedSocks'
    <3> DEFINE s == CHOOSE s \in Socks : socks[s].state = "unborn"
    <3>1. s \in Socks /\ socks[s].state = "unborn"
      OBVIOUS
    <3>2. PICK target \in {running.to, None} : socks' = [socks EXCEPT ![s] = Opened(f, target)]
      OBVIOUS
    <3>3. running \in Task /\ running.kind = "connect"
      BY DEF TypedTasks, Placed
    <3>4. target \in Addrs \cup {None}
      BY <3>3, Kinds DEF ConnectionTask
    <3>5. \A r \in Socks : socks[r].fd # f
      OBVIOUS
    <3> HIDE DEF s
    <3>6. socks' \in [Socks -> SockStates]
      BY <3>1, <3>2, <3>4 DEF TypedSocks, SockStates
    <3> QED
      BY <3>1, <3>2, <3>5, <3>6 DEF TypedSocks, IsOpen
  <2>2. TypedTasks'
    BY DEF TypedTasks
  <2>3. Placed'
    BY DEF TypedConsole, TypedTasks, TypedSocks, Placed
  <2>4. Opening'
    BY DEF TypedSocks, TypedTasks, TypedCreation, Opening, Placed, Callers, IsCreating, Live,
           IsOpen
  <2>5. ActiveIsOwn'
    BY DEF TypedSocks, TypedCreation, ActiveIsOwn, Opening, Placed, Callers, IsCreating,
           IsOpen
  <2>6. TasksSendOwn'
    BY DEF TypedTasks, TypedSocks, TypedCreation, TasksSendOwn, ActiveIsOwn, Opening, Placed,
           Live, IsOpen
  <2>7. AttemptsKept'
    BY DEF TypedTasks, AttemptsKept, Trying, Placed, Live
  <2>8. LinksReachable'
    BY SMTT(20) DEF TypedSocks, TypedTasks, LinksReachable, Opening, Placed, IsOpen
  <2>9. /\ TypedConsole' /\ TypedFiles' /\ TypedCreation' /\ OnlyConnectionsLinger'
        /\ FilesOwned' /\ FilesOutliveTasks'
    BY DEF TypedConsole, TypedFiles, TypedCreation, OnlyConnectionsLinger, FilesOwned,
           FilesOutliveTasks, Live, UsedFiles
  <2> QED
    BY <2>1, <2>2, <2>3, <2>4, <2>5, <2>6, <2>7, <2>8, <2>9
<1>15. ASSUME Link PROVE IInv'
  <2> USE <1>15
      DEF Link, Alive, Runs, Steps, Entered
  <2>1. TypedSocks'
    <3>1. connected \in Socks
      BY DEF Placed, TypedTasks
    <3> QED
      BY <3>1 DEF TypedSocks, IsOpen
  <2>2. TypedTasks'
    BY DEF TypedTasks
  <2>3. Placed'
    BY DEF TypedConsole, TypedTasks, TypedSocks, Placed
  <2>4. Opening'
    BY DEF TypedSocks, TypedTasks, TypedCreation, Opening, Placed, Callers, IsCreating, Live,
           IsOpen
  <2>5. ActiveIsOwn'
    BY DEF TypedSocks, TypedCreation, ActiveIsOwn, Opening, Placed, Callers, IsCreating,
           IsOpen
  <2>6. AttemptsKept'
    BY DEF TypedTasks, AttemptsKept, Trying, Placed, Live
  <2>7. LinksReachable'
    BY DEF TypedSocks, TypedTasks, LinksReachable, Opening, Placed, IsOpen
  <2>8. /\ TypedConsole' /\ TypedFiles' /\ TypedCreation' /\ OnlyConnectionsLinger'
        /\ TasksSendOwn' /\ FilesOwned' /\ FilesOutliveTasks'
    BY DEF TypedConsole, TypedFiles, TypedCreation, OnlyConnectionsLinger, TasksSendOwn,
           FilesOwned, FilesOutliveTasks, IsOpen, Live, UsedFiles
  <2> QED
    BY <2>1, <2>2, <2>3, <2>4, <2>5, <2>6, <2>7, <2>8
<1>16. ASSUME Destroy PROVE IInv'
  <2> USE <1>16
      DEF Destroy, Alive, Runs, Steps, Timer!Cancel
  <2>1. TypedTasks'
    BY DEF TypedTasks
  <2>2. Placed'
    BY DEF TypedConsole, TypedTasks, TypedSocks, Placed
  <2>3. Opening'
    BY DEF TypedSocks, TypedTasks, TypedCreation, Opening, Placed, Callers, IsCreating, Live,
           IsOpen
  <2>4. OnlyConnectionsLinger'
    BY DEF TypedTasks, OnlyConnectionsLinger, Placed
  <2>5. ActiveIsOwn'
    BY DEF TypedSocks, TypedCreation, ActiveIsOwn, Opening, Placed, Callers, IsCreating,
           IsOpen
  <2>6. TasksSendOwn'
    BY DEF TypedTasks, TypedSocks, TypedCreation, TasksSendOwn, ActiveIsOwn, Opening, Placed,
           Live, IsOpen
  <2>7. FilesOutliveTasks'
    BY DEF TypedTasks, TypedFiles, FilesOutliveTasks, FilesOwned, UsedFiles, Live, Placed
  <2>8. AttemptsKept'
    BY DEF TypedTasks, AttemptsKept, Trying, Placed, Live
  <2>9. LinksReachable'
    BY DEF TypedSocks, TypedTasks, LinksReachable, Opening, Placed, IsOpen
  <2>10. TypedConsole' /\ TypedSocks' /\ TypedFiles' /\ TypedCreation' /\ FilesOwned'
    BY DEF TypedConsole, TypedSocks, TypedFiles, TypedCreation, FilesOwned, IsOpen
  <2> QED
    BY <2>1, <2>2, <2>3, <2>4, <2>5, <2>6, <2>7, <2>8, <2>9, <2>10
<1>17. ASSUME SendFinishTagThrows PROVE IInv'
  <2> USE <1>17
      DEF SendFinishTagThrows, Steps, Timer!End
  <2>1. TypedTasks'
    BY DEF TypedTasks
  <2>2. Placed'
    BY DEF TypedConsole, TypedTasks, TypedSocks, Placed
  <2>3. Opening'
    BY DEF TypedSocks, TypedTasks, TypedCreation, Opening, Placed, Callers, IsCreating, Live,
           IsOpen
  <2>4. ActiveIsOwn'
    BY DEF TypedSocks, TypedCreation, ActiveIsOwn, Opening, Placed, Callers, IsCreating,
           IsOpen
  <2>5. TasksSendOwn'
    BY DEF TypedTasks, TypedSocks, TypedCreation, TasksSendOwn, ActiveIsOwn, Opening, Placed,
           Live, IsOpen
  <2>6. FilesOutliveTasks'
    BY DEF TypedTasks, TypedFiles, FilesOutliveTasks, FilesOwned, UsedFiles, Live, Placed
  <2>7. AttemptsKept'
    BY DEF TypedTasks, AttemptsKept, Trying, Placed, Live
  <2>8. LinksReachable'
    BY DEF TypedSocks, TypedTasks, LinksReachable, Opening, Placed, IsOpen
  <2>9. /\ TypedConsole' /\ TypedSocks' /\ TypedFiles' /\ TypedCreation'
        /\ OnlyConnectionsLinger' /\ FilesOwned'
    BY DEF TypedConsole, TypedSocks, TypedFiles, TypedCreation, OnlyConnectionsLinger,
           FilesOwned, IsOpen
  <2> QED
    BY <2>1, <2>2, <2>3, <2>4, <2>5, <2>6, <2>7, <2>8, <2>9
<1>18. ASSUME TaskCreates PROVE IInv'
  <2> USE <1>18
      DEF TaskCreates, Alive, Runs, Steps, CreateBegins, Activate, Other, Conn
  <2>1. TypedTasks'
    BY DEF TypedTasks
  <2>2. TypedCreation'
    <3>1. running \in Task /\ running.kind = "send"
      BY DEF TypedTasks, Placed
    <3>2. running.conn \in Socks
      BY <3>1, Sending
    <3>3. socks[running.conn].fd \in Fds \cup {None}
      BY <3>2 DEF TypedSocks, SockStates
    <3> QED
      BY <3>2, <3>3 DEF TypedCreation, Callers
  <2>3. Placed'
    BY DEF TypedConsole, TypedTasks, TypedSocks, Placed
  <2>4. Opening'
    <3>1. running \in Task /\ running.kind = "send"
      BY DEF TypedTasks, Placed
    <3>2. running.conn \in Socks /\ socks[running.conn].state # "unborn"
      BY <3>1, Sending DEF Opening, Live
    <3> QED
      BY <3>2 DEF Opening, Callers, IsCreating, Live, IsOpen
  <2>5. ActiveIsOwn'
    BY DEF TypedSocks, TypedCreation, ActiveIsOwn, Opening, Placed, Callers, IsCreating,
           IsOpen
  <2>6. TasksSendOwn'
    BY DEF TypedTasks, TypedSocks, TypedCreation, TasksSendOwn, ActiveIsOwn, Opening, Placed,
           Live, IsOpen
  <2>7. AttemptsKept'
    BY DEF TypedTasks, AttemptsKept, Trying, Placed, Live
  <2>8. LinksReachable'
    BY DEF TypedSocks, TypedTasks, LinksReachable, Opening, Placed, IsOpen
  <2>9. /\ TypedConsole' /\ TypedSocks' /\ TypedFiles' /\ OnlyConnectionsLinger'
        /\ FilesOwned' /\ FilesOutliveTasks'
    BY DEF TypedConsole, TypedSocks, TypedFiles, OnlyConnectionsLinger, FilesOwned,
           FilesOutliveTasks, IsOpen, Live, UsedFiles
  <2> QED
    BY <2>1, <2>2, <2>3, <2>4, <2>5, <2>6, <2>7, <2>8, <2>9
<1>19. ASSUME TaskCreated PROVE IInv'
  <2> USE <1>19
      DEF TaskCreated, Alive, Runs, Steps, CreateEnds, Timer!Schedule
  <2>0. /\ UNCHANGED <<running, terminating, terminated>>
        /\ creating' = [creating EXCEPT !["timer"] = None]
        /\ UNCHANGED <<spActiveConnection, overlapped>>
        /\ \/ pending' = pending
           \/ \E task \in Task :
                 /\ pending' = pending \cup {task} /\ task \notin lingering
                 /\ task.kind = "send"
                 /\ task.conn \in Socks /\ socks[task.conn].state # "unborn"
                 /\ ~overlapped /\ IsOpen(task.conn) => task.to = socks[task.conn].fd
                 /\ task.file \notin freed
    BY Ends DEF Callers, IsCreating
  <2>1. TypedTasks'
    BY <2>0 DEF TypedTasks
  <2>2. TypedCreation'
    BY DEF TypedCreation, Callers
  <2>3. Placed'
    BY DEF TypedConsole, TypedTasks, TypedSocks, Placed
  <2>4. Opening'
    BY <2>0 DEF Opening, TypedTasks, Callers, IsCreating, Live, IsOpen
  <2>5. ActiveIsOwn'
    BY DEF TypedSocks, TypedCreation, ActiveIsOwn, Opening, Placed, Callers, IsCreating,
           IsOpen
  <2>6. TasksSendOwn'
    BY <2>0 DEF TasksSendOwn, TypedTasks, Live, IsOpen
  <2>7. FilesOutliveTasks'
    BY <2>0 DEF FilesOutliveTasks, TypedTasks, UsedFiles, Live, Placed
  <2>8. AttemptsKept'
    BY DEF TypedTasks, AttemptsKept, Trying, Placed, Live
  <2>9. LinksReachable'
    BY DEF TypedSocks, TypedTasks, LinksReachable, Opening, Placed, IsOpen
  <2>10. /\ TypedConsole' /\ TypedSocks' /\ TypedFiles' /\ OnlyConnectionsLinger'
        /\ FilesOwned'
    BY DEF TypedConsole, TypedSocks, TypedFiles, OnlyConnectionsLinger, FilesOwned, IsOpen
  <2> QED
    BY <2>1, <2>2, <2>3, <2>4, <2>5, <2>6, <2>7, <2>8, <2>9, <2>10
<1>20. ASSUME Return PROVE IInv'
  <2> USE <1>20
      DEF Return, Alive, Runs, Steps, Timer!End
  <2>1. TypedTasks'
    BY DEF TypedTasks
  <2>2. Placed'
    BY DEF TypedConsole, TypedTasks, TypedSocks, Placed
  <2>3. Opening'
    BY DEF TypedSocks, TypedTasks, TypedCreation, Opening, Placed, Callers, IsCreating, Live,
           IsOpen
  <2>4. ActiveIsOwn'
    BY DEF TypedSocks, TypedCreation, ActiveIsOwn, Opening, Placed, Callers, IsCreating,
           IsOpen
  <2>5. TasksSendOwn'
    BY DEF TypedTasks, TypedSocks, TypedCreation, TasksSendOwn, ActiveIsOwn, Opening, Placed,
           Live, IsOpen
  <2>6. FilesOutliveTasks'
    BY DEF TypedTasks, TypedFiles, FilesOutliveTasks, FilesOwned, UsedFiles, Live, Placed
  <2>7. AttemptsKept'
    BY DEF TypedTasks, AttemptsKept, Trying, Placed, Live
  <2>8. LinksReachable'
    BY DEF TypedSocks, TypedTasks, LinksReachable, Opening, Placed, IsOpen
  <2>9. /\ TypedConsole' /\ TypedSocks' /\ TypedFiles' /\ TypedCreation'
        /\ OnlyConnectionsLinger' /\ FilesOwned'
    BY DEF TypedConsole, TypedSocks, TypedFiles, TypedCreation, OnlyConnectionsLinger,
           FilesOwned, IsOpen
  <2> QED
    BY <2>1, <2>2, <2>3, <2>4, <2>5, <2>6, <2>7, <2>8, <2>9
<1>21. CASE ReadNoFile \/ Crash \/ UNCHANGED vars
  BY <1>21, SMTT(20) DEF ReadNoFile, Crash, vars, TypedConsole, TypedSocks, TypedFiles, TypedTasks,
     TypedCreation, Placed, Opening, OnlyConnectionsLinger, ActiveIsOwn, TasksSendOwn,
     FilesOwned, FilesOutliveTasks, AttemptsKept, LinksReachable, IsOpen, Live, UsedFiles,
     Trying, IsCreating
<1> QED
  BY <1>1, <1>2, <1>3, <1>4, <1>5, <1>6, <1>7, <1>8, <1>9, <1>10, <1>11, <1>12, <1>13, <1>14,
     <1>15, <1>16, <1>17, <1>18, <1>19, <1>20, <1>21
  DEF Next, ConsoleNext, MainNext, TimerNext

\* No action breaks the invariant that the theorems below take from it.
THEOREM ClientCorrect == Spec => []IInv
<1> USE ClientAssumption, TaskAssumption
<1>1. Init => IInv
  <2> SUFFICES ASSUME Init PROVE IInv
    OBVIOUS
  <2>1. TypedConsole
    BY DEF Init, TypedConsole, NoCommand
  <2>2. TypedSocks
    BY DEF Init, TypedSocks, SockStates, IsOpen, Unborn
  <2>3. TypedFiles
    BY DEF Init, TypedFiles
  <2>4. TypedTasks
    BY DEF Init, TypedTasks
  <2>5. TypedCreation
    BY DEF Init, TypedCreation, Callers
  <2>6. Placed
    BY DEF Init, Placed, NoCommand
  <2>7. Opening
    BY DEF Init, Opening, Callers, IsCreating, Live
  <2>8. OnlyConnectionsLinger
    BY DEF Init, OnlyConnectionsLinger
  <2>9. ActiveIsOwn
    BY DEF Init, ActiveIsOwn, Callers, IsCreating
  <2>10. TasksSendOwn
    BY DEF Init, TasksSendOwn, Live
  <2>11. FilesOwned
    BY DEF Init, FilesOwned
  <2>12. FilesOutliveTasks
    BY DEF Init, FilesOutliveTasks
  <2>13. AttemptsKept
    BY DEF Init, AttemptsKept
  <2>14. LinksReachable
    BY DEF Init, LinksReachable, IsOpen, Unborn
  <2> QED
    BY <2>1, <2>2, <2>3, <2>4, <2>5, <2>6, <2>7, <2>8, <2>9, <2>10, <2>11, <2>12, <2>13, <2>14
    DEF IInv
<1> QED
  BY <1>1, Step, PTL DEF Spec

\* What each thread, table and task may hold; no descriptor is open twice.
THEOREM TypesCorrect == Spec => []TypeOK
<1>1. IInv => TypeOK
  BY DEF IInv, TypeOK, TypedConsole, TypedSocks, SockStates, TypedFiles, TypedTasks, IsOpen
<1> QED
  BY <1>1, ClientCorrect, PTL

\* As long as the two threads have not been in create_task() at once, a SendingTask sends on
\* the connection it was made for, whichever connections are opened and closed meanwhile
\* (mainframe.cpp:302).
THEOREM SendOwn == Spec => []TasksSendOwn
<1> QED
  BY ClientCorrect, PTL DEF IInv

\* A File is deleted while a SendingTask points to it by the replacement of 'F' only
\* (mainframe.cpp:260), in the shutdown never.
THEOREM FilesOutlive == Spec => []FilesOutliveTasks
<1> QED
  BY ClientCorrect, PTL DEF IInv

\* The part of AttemptsPersist that needs no fairness: an address that is wanted keeps a
\* repeating task in the timer's queue, one that is not about to cancel itself, through any
\* number of failures, connections to other servers and commands.  So what could end the
\* attempts is the end of the thread that makes them, and nothing else.
THEOREM AttemptsGoOn == Spec => []AttemptsKept
<1> QED
  BY ClientCorrect, PTL DEF IInv

\* An open connection is found under its descriptor, but for the place of a closed one
\* (mainframe.cpp:343).
THEOREM LinksFound == Spec => []LinksReachable
<1> QED
  BY ClientCorrect, PTL DEF IInv

-----------------------------------------------------------------------------
(* The shutdown *)

Ending == terminating <=> console \in {"cancel", "free", "done"}

\* No command of the console is given in the shutdown, and none begins it.
LEMMA ConsoleMoves ==
    ASSUME ConsoleNext
    PROVE  /\ console \notin {"cancel", "free", "done"}
           /\ console' \notin {"cancel", "free", "done"}
           /\ terminating' = terminating
<1> USE DEF At, Goes, timerVars
<1>1. ASSUME NEW a \in Addrs, NewConnection(a) \/ InvalidPort(a) \/ NewConnectionThrows(a)
      PROVE  /\ console \notin {"cancel", "free", "done"}
             /\ console' \notin {"cancel", "free", "done"}
             /\ terminating' = terminating
  BY <1>1 DEF NewConnection, InvalidPort, NewConnectionThrows, Timer!Schedule
<1>2. CASE \E name \in {"R", "F"}, id \in Fds : EnterId(name, id)
  BY <1>2 DEF EnterId
<1>3. CASE StopConnection
  BY <1>3 DEF StopConnection, Timer!Cancel
<1>4. CASE CloseConnection
  BY <1>4 DEF CloseConnection
<1>5. CASE RestoreConnection \/ FindConnection \/ AssignFails \/ Quit
  BY <1>5 DEF RestoreConnection, FindConnection, AssignFails, Quit
<1>6. CASE AssignFile \/ ConsoleCreates
  BY <1>6 DEF AssignFile, ConsoleCreates
<1>7. CASE ConsoleCreated
  BY <1>7 DEF ConsoleCreated, CreateEnds, Timer!Schedule
<1> QED BY <1>1, <1>2, <1>3, <1>4, <1>5, <1>6, <1>7 DEF ConsoleNext

\* main() goes through the shutdown from its beginning to its end.
LEMMA MainMoves ==
    ASSUME MainNext
    PROVE  /\ \/ console = "ended" /\ console' = "cancel" /\ terminating'
              \/ console = "cancel" /\ console' = "free" /\ terminating' = terminating
              \/ console = "free" /\ console' = "done" /\ terminating' = terminating
           /\ step' = step
BY DEF MainNext, CancelTimer, CancelReturns, Free, At, Goes, Timer!Terminate, Timer!Terminated,
       timerVars, taskVars

\* The timer's thread does not leave the run of a task but by the end of it, and starts none
\* when the timer has been cancelled.
LEMMA TaskMoves ==
    ASSUME TimerNext
    PROVE  /\ UNCHANGED <<console, terminating>>
           /\ terminating =>
                 \/ step = "connect" /\ step' \in {"link", "return"}
                 \/ step = "link" /\ step' = "destroy"
                 \/ step = "destroy" /\ step' = "return"
                 \/ step = "check" /\ step' \in {"read", "return"}
                 \/ step = "read" /\ step' \in {"send", "finish"}
                 \/ step = "send" /\ step' \in {"create", "return"}
                 \/ step = "create" /\ step' = "created"
                 \/ step = "created" /\ step' = "return"
                 \/ step = "finish" /\ step' \in {"return", "none"}
                 \/ step = "return" /\ step' = "none"
                 \/ UNCHANGED <<step, pending, running>>
<1> USE DEF Alive, Runs, Steps, consoleVars, timerVars, taskVars
<1>1. CASE \E t \in Live : StartOnce(t) \/ StartRepeating(t) \/ DropCancelled(t)
  BY <1>1 DEF StartOnce, StartRepeating, DropCancelled, Timer!StartOnce, Timer!CanStart
<1>2. CASE \E f \in Fds : ConnectSucceeds(f)
  BY <1>2 DEF ConnectSucceeds
<1>3. CASE ConnectFails \/ Link
  BY <1>3 DEF ConnectFails, Link
<1>4. CASE Destroy
  BY <1>4 DEF Destroy, Timer!Cancel
<1>5. CASE CheckOpen \/ ReadFile \/ ReadNoFile \/ SendPackage
  BY <1>5 DEF CheckOpen, ReadFile, ReadNoFile, SendPackage
<1>6. CASE SendFinishTag \/ SendFinishTagThrows \/ Return
  BY <1>6 DEF SendFinishTag, SendFinishTagThrows, Return, Timer!End
<1>7. CASE TaskCreates
  BY <1>7 DEF TaskCreates
<1>8. CASE TaskCreated
  BY <1>8 DEF TaskCreated, CreateEnds, Timer!Schedule
<1> QED BY <1>1, <1>2, <1>3, <1>4, <1>5, <1>6, <1>7, <1>8 DEF TimerNext

\* The timer is terminated by main() alone, in the shutdown.
LEMMA EndingKept == Spec => []Ending
<1>1. Init => Ending
  BY DEF Init, Ending
<1>2. Ending /\ [Next]_vars => Ending'
  <2> SUFFICES ASSUME Ending, [Next]_vars PROVE Ending'
    OBVIOUS
  <2> USE DEF Ending
  <2>1. CASE ConsoleNext
    BY <2>1, ConsoleMoves
  <2>2. CASE MainNext
    BY <2>2, MainMoves
  <2>3. CASE TimerNext
    BY <2>3, TaskMoves
  <2>4. CASE Crash \/ UNCHANGED vars
    BY <2>4 DEF Crash, vars, consoleVars, timerVars
  <2> QED BY <2>1, <2>2, <2>3, <2>4 DEF Next
<1> QED BY <1>1, <1>2, PTL DEF Spec

\* When the timer has been cancelled main() and the running task take at most eight more
\* steps together, whatever the servers do.
THEOREM ShutdownComesNearer == Spec => ShutdownNears
<1> DEFINE Nears == terminating => \/ MainLeft' + TaskLeft' < MainLeft + TaskLeft
                                   \/ UNCHANGED <<console, step, pending, running>>
<1>1. Ending /\ [Next]_vars => [Nears]_vars
  <2> SUFFICES ASSUME Ending, Next, terminating
               PROVE  \/ MainLeft' + TaskLeft' < MainLeft + TaskLeft
                      \/ UNCHANGED <<console, step, pending, running>>
    OBVIOUS
  <2>1. CASE ConsoleNext
    BY <2>1, ConsoleMoves DEF Ending
  <2>2. CASE MainNext
    <3>1. \/ console = "cancel" /\ console' = "free"
          \/ console = "free" /\ console' = "done"
      BY <2>2, MainMoves DEF Ending
    <3>2. step' = step
      BY <2>2, MainMoves
    <3> QED BY ONLY <3>1, <3>2 DEF MainLeft, TaskLeft
  <2>3. CASE TimerNext
    <3>1. console' = console
      BY <2>3, TaskMoves
    <3>2. CASE UNCHANGED <<step, pending, running>>
      BY <3>1, <3>2
    <3>3. CASE ~UNCHANGED <<step, pending, running>>
      <4>1. \/ step = "connect" /\ step' \in {"link", "return"}
            \/ step = "link" /\ step' = "destroy"
            \/ step = "destroy" /\ step' = "return"
            \/ step = "check" /\ step' \in {"read", "return"}
            \/ step = "read" /\ step' \in {"send", "finish"}
            \/ step = "send" /\ step' \in {"create", "return"}
            \/ step = "create" /\ step' = "created"
            \/ step = "created" /\ step' = "return"
            \/ step = "finish" /\ step' \in {"return", "none"}
            \/ step = "return" /\ step' = "none"
        BY <2>3, <3>3, TaskMoves
      <4> QED BY ONLY <3>1, <4>1 DEF MainLeft, TaskLeft
    <3> QED BY <3>2, <3>3
  <2>4. CASE Crash
    BY <2>4 DEF Crash, consoleVars, timerVars, taskVars
  <2> QED BY <2>1, <2>2, <2>3, <2>4 DEF Next
<1> QED BY <1>1, EndingKept, PTL DEF Spec, ShutdownNears

=============================================================================
