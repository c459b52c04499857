------------------------------ MODULE Transfer ------------------------------
(***************************************************************************)
(* A file goes from the client's SendingTask to the server's RecvTask.     *)
(* Either end is a chain of one-shot tasks on its Timer: each run handles  *)
(* one buffer and schedules the next (user_tasks.cpp, server_tasks.cpp).   *)
(* TCP between them keeps the order of the bytes and nothing else: recv()  *)
(* returns any part of what has arrived, so the tags around the file's     *)
(* bytes may be cut anywhere, or stand in one buffer with the next file.   *)
(*                                                                         *)
(* A timer runs one task at a time.  A run of RecvTask is one step; a run  *)
(* of SendingTask is two, for the console may close the connection after   *)
(* the task has found it open.                                             *)
(* Choosing a file for a connection whose chain still runs is left to the  *)
(* console's model: it deletes the File under the running task.            *)
(***************************************************************************)
EXTENDS Integers, SequencesExt

CONSTANTS
    Conns,          \* connections made to the one server
    Clients,        \* client processes
    ClientOf,       \* the process a connection belongs to
    Files,          \* files that may be sent
    NoFile,
    Size,           \* File::size()
    Package,        \* packages_size_
    StartLen,       \* length of the two start tags of a file
    FinishLen,      \* strlen(TAG_FINISH_CONTENT)
    RecvMax,        \* DEF_RECVBUFFER_SIZE
    Unwritable      \* files whose path the server cannot open for writing

ASSUME ConnsAssumption == ClientOf \in [Conns -> Clients]
ASSUME FilesAssumption == NoFile \notin Files /\ Size \in [Files -> Nat] /\ Unwritable \subseteq Files
ASSUME LengthsAssumption ==
    {Package, StartLen, FinishLen, RecvMax} \subseteq Nat \ {0}

VARIABLES
    file,           \* the client's fd2file_: the file, its position, its end-of-file flag
    sending,        \* connections for which a SendingTask is scheduled or runs
    running,        \* those whose task runs, and has found the session open
    filePartSent,   \* the static of SendingTask::run, one per process
    timer,          \* the thread of each client's timer
    reported,       \* files the client called "sucesfully sent", with the connection
    assigned,       \* files chosen so far, with the connection
    link,           \* each connection: up, shut by the client, or broken
    wire,           \* bytes sent and not received yet
    server,         \* the server process
    receiving,      \* connections for which a RecvTask is scheduled
    opened,         \* the server's fd2file_: the file being written
    stored,         \* what was written to it
    commonsize,     \* the static of BufferParser::operator()
    dirty,          \* connections with an error since their file was opened
    errors,         \* connections with an error
    closed          \* files the server called done

clientVars == <<file, sending, running, filePartSent, timer, reported, assigned>>
fileVars == <<opened, stored, dirty, closed>>
serverVars == <<server, receiving, opened, stored, commonsize, dirty, errors, closed>>
vars == <<clientVars, link, wire, serverVars>>

-----------------------------------------------------------------------------
(* Bytes *)

\* A byte of a file's content is never taken for one of a tag: the files that are sent hold
\* neither the text of the finish tag nor that of the start tags.  (The server compares
\* bytes only, server_parser.cpp:67, 99; what it does with other files is not said here.)
Byte == [part : {"start", "data", "finish"}, of : Files \cup {NoFile}, at : Nat]

Bytes(part, f, from, n) == [i \in 1 .. n |-> [part |-> part, of |-> f, at |-> from + i]]

StartTags(f) == Bytes("start", f, 0, StartLen)
Content(f) == Bytes("data", f, 0, Size[f])

\* TAG_FINISH_CONTENT; it is sent with its terminating zero.
FinishTag == Bytes("finish", NoFile, 0, FinishLen)
FinishTagSent == Bytes("finish", NoFile, 0, FinishLen + 1)

Least(S) == CHOOSE x \in S : \A y \in S : x <= y

TypeOK ==
    /\ file \in [Conns -> [name : Files \cup {NoFile}, pos : Nat, eof : BOOLEAN]]
    /\ sending \subseteq Conns
    /\ running \subseteq sending
    /\ filePartSent \in [Clients -> BOOLEAN]
    /\ timer \in [Clients -> {"alive", "dead"}]
    /\ reported \subseteq Conns \X Files
    /\ assigned \subseteq Conns \X Files
    /\ link \in [Conns -> {"up", "shut", "broken"}]
    /\ wire \in [Conns -> Seq(Byte)]
    /\ server \in {"up", "crashed"}
    /\ receiving \subseteq Conns
    /\ opened \in [Conns -> Files \cup {NoFile}]
    /\ stored \in [Conns -> Seq(Byte)]
    /\ commonsize \in Nat
    /\ dirty \subseteq Conns
    /\ errors \subseteq Conns
    /\ closed \subseteq [file : Files, data : Seq(Byte), clean : BOOLEAN]

\* The connections stand, and the server has scheduled the first RecvTask of each.
Init ==
    /\ file = [c \in Conns |-> [name |-> NoFile, pos |-> 0, eof |-> FALSE]]
    /\ sending = {}
    /\ running = {}
    /\ filePartSent = [p \in Clients |-> FALSE]
    /\ timer = [p \in Clients |-> "alive"]
    /\ reported = {}
    /\ assigned = {}
    /\ link = [c \in Conns |-> "up"]
    /\ wire = [c \in Conns |-> <<>>]
    /\ server = "up"
    /\ receiving = Conns
    /\ opened = [c \in Conns |-> NoFile]
    /\ stored = [c \in Conns |-> <<>>]
    /\ commonsize = 0
    /\ dirty = {}
    /\ errors = {}
    /\ closed = {}

-----------------------------------------------------------------------------
(* The console of the client, and the network *)

\* 'F': opens the file for the connection and starts the chain.  A closed connection is
\* not found any more: it has lost its descriptor.
Assign(c, f) ==
    /\ f \notin {a[2] : a \in assigned} /\ c \notin sending
    /\ link[c] # "shut"
    /\ assigned' = assigned \cup {<<c, f>>}
    /\ file' = [file EXCEPT ![c] = [name |-> f, pos |-> 0, eof |-> FALSE]]
    /\ sending' = sending \cup {c}
    /\ UNCHANGED <<running, filePartSent, timer, reported, link, wire, serverVars>>

\* 'X': the chain is not cancelled, for its tasks bear another name.
Close(c) ==
    /\ link[c] # "shut"
    /\ link' = [link EXCEPT ![c] = "shut"]
    /\ UNCHANGED <<clientVars, wire, serverVars>>

\* The end of what was under way is lost.
Break(c) ==
    /\ link[c] = "up"
    /\ link' = [link EXCEPT ![c] = "broken"]
    /\ \E n \in 0 .. Len(wire[c]) : wire' = [wire EXCEPT ![c] = SubSeq(@, 1, n)]
    /\ UNCHANGED <<clientVars, serverVars>>

-----------------------------------------------------------------------------
(* SendingTask::run *)

\* The thread of the timer takes up the task of c.
Starts(c) ==
    /\ c \in sending
    /\ timer[ClientOf[c]] = "alive"
    /\ \A d \in running : ClientOf[d] # ClientOf[c]

SessionClosed(c) ==
    /\ Starts(c)
    /\ link[c] = "shut"
    /\ sending' = sending \ {c}
    /\ UNCHANGED <<file, running, filePartSent, timer, reported, assigned, link, wire,
                   serverVars>>

SessionOpen(c) ==
    /\ Starts(c)
    /\ link[c] # "shut"
    /\ running' = running \cup {c}
    /\ UNCHANGED <<file, sending, filePartSent, timer, reported, assigned, link, wire,
                   serverVars>>

\* Mutant: the last run creates another task.
EndChain_Not(c) ==
    /\ running' = running \ {c}
    /\ UNCHANGED sending

\* run() returns without having created the next task, or having done so.
EndChain(c) ==
    /\ running' = running \ {c}
    /\ sending' = sending \ {c}

NextTask(c) ==
    /\ running' = running \ {c}
    /\ UNCHANGED sending

\* send() returns: on a connection that has broken the bytes are lost.
Transmit(c, bytes) ==
    /\ link[c] # "shut"
    /\ wire' = IF link[c] = "up" THEN [wire EXCEPT ![c] = @ \o bytes] ELSE wire

\* The whole file has been read: the last run.
AtFinish(c) == c \in running /\ file[c].eof /\ filePartSent[ClientOf[c]]

SendFinish(c) ==
    /\ AtFinish(c)
    /\ filePartSent' = [filePartSent EXCEPT ![ClientOf[c]] = FALSE]
    /\ Transmit(c, FinishTagSent)
    /\ reported' = reported \cup {<<c, file[c].name>>}
    /\ EndChain(c)
    /\ UNCHANGED <<file, timer, assigned, link, serverVars>>

\* This send() stands outside the try block: its exception leaves run(), and ends the
\* thread of the timer.
SendFinishThrows(c) ==
    /\ AtFinish(c)
    /\ link[c] # "up"
    /\ filePartSent' = [filePartSent EXCEPT ![ClientOf[c]] = FALSE]
    /\ timer' = [timer EXCEPT ![ClientOf[c]] = "dead"]
    /\ EndChain(c)
    /\ UNCHANGED <<file, reported, assigned, link, wire, serverVars>>

\* fread(): a short count sets the end-of-file flag.
ReadCount(c) == Least({Package, Size[file[c].name] - file[c].pos})

ReadPart(c) ==
    /\ c \in running /\ ~AtFinish(c)
    /\ filePartSent' = [filePartSent EXCEPT ![ClientOf[c]] = TRUE]
    /\ file' = [file EXCEPT ![c].pos = @ + ReadCount(c),
                            ![c].eof = @ \/ ReadCount(c) < Package]

\* Mutant: the flag is not looked at, the start tags go before every part.
SendPart_Tagged(c) ==
    /\ ReadPart(c)
    /\ ReadCount(c) > 0
    /\ Transmit(c, StartTags(file[c].name) \o
                      Bytes("data", file[c].name, file[c].pos, ReadCount(c)))
    /\ NextTask(c)
    /\ UNCHANGED <<timer, reported, assigned, link, serverVars>>

SendPart(c) ==
    LET f == file[c].name
        tags == IF filePartSent[ClientOf[c]] THEN <<>> ELSE StartTags(f)
    IN  /\ ReadPart(c)
        /\ ReadCount(c) > 0
        /\ Transmit(c, tags \o Bytes("data", f, file[c].pos, ReadCount(c)))
        /\ NextTask(c)
        /\ UNCHANGED <<timer, reported, assigned, link, serverVars>>

\* Nothing was read, and nothing is sent: of an empty file, not even the start tags.
SendNothing(c) ==
    /\ ReadPart(c)
    /\ ReadCount(c) = 0
    /\ NextTask(c)
    /\ UNCHANGED <<timer, reported, assigned, link, wire, serverVars>>

\* The exception is caught, and the chain ends; filePartSent stays as it is.
SendPartFails(c) ==
    /\ ReadPart(c)
    /\ ReadCount(c) > 0 /\ link[c] # "up"
    /\ EndChain(c)
    /\ UNCHANGED <<timer, reported, assigned, link, wire, serverVars>>

SendingTask(c) ==
    \/ SessionClosed(c) \/ SessionOpen(c)
    \/ SendFinish(c) \/ SendFinishThrows(c)
    \/ SendPart(c) \/ SendNothing(c) \/ SendPartFails(c)

-----------------------------------------------------------------------------
(* RecvTask::run *)

Receives(c) == server = "up" /\ c \in receiving

\* recv() returns 0, or fails: an error is reported and the chain ends, the file stays
\* open.  Where it would block, the chain goes on and nothing has changed.
RecvEnds(c) ==
    /\ Receives(c)
    /\ wire[c] = <<>> /\ link[c] # "up"
    /\ receiving' = receiving \ {c}
    /\ dirty' = dirty \cup {c}
    /\ errors' = errors \cup {c}
    /\ UNCHANGED <<clientVars, link, wire, server, opened, stored, commonsize, closed>>

\* A buffer of at most RecvMax bytes.
Recv(c, buffer) ==
    /\ Receives(c)
    /\ IsPrefix(buffer, wire[c])
    /\ wire' = [wire EXCEPT ![c] = SubSeq(@, Len(buffer) + 1, Len(@))]
    /\ UNCHANGED <<clientVars, link>>

Buffers(c) == {SubSeq(wire[c], 1, n) : n \in 1 .. Least({RecvMax, Len(wire[c])})}

\* An access far outside the buffer.
Crash ==
    /\ server' = "crashed"
    /\ UNCHANGED <<receiving, opened, stored, commonsize, dirty, errors, closed>>

\* Mutant: nobody is told.
Garbled_Silent(c, f, total) ==
    /\ commonsize' = total
    /\ opened' = [opened EXCEPT ![c] = f]
    /\ dirty' = dirty \cup {c}
    /\ UNCHANGED <<server, receiving, errors, closed>>

\* Mutant: it ends the chain, as every other exception does.
Garbled_Ends(c, f, total) ==
    /\ commonsize' = total
    /\ opened' = [opened EXCEPT ![c] = f]
    /\ dirty' = dirty \cup {c}
    /\ errors' = errors \cup {c}
    /\ receiving' = receiving \ {c}
    /\ UNCHANGED <<server, closed>>

\* GarbledMsgReceivedException: the buffer is dropped, the chain goes on.
Garbled(c, f, total) ==
    /\ commonsize' = total
    /\ opened' = [opened EXCEPT ![c] = f]
    /\ dirty' = dirty \cup {c}
    /\ errors' = errors \cup {c}
    /\ UNCHANGED <<server, receiving, closed>>

BeginsWithTags(f, buffer) == IsPrefix(StartTags(f), buffer)

\* No file is open and the buffer does not begin with whole start tags.  Where they
\* are cut off, the search for their end runs past the received bytes.
BadStart(c) ==
    /\ opened[c] = NoFile
    /\ \E buffer \in Buffers(c) :
        /\ Recv(c, buffer)
        /\ \A f \in Files : ~BeginsWithTags(f, buffer)
        /\ \/ Garbled(c, NoFile, 0) /\ UNCHANGED stored
           \/ (\E f \in Files : IsPrefix(buffer, StartTags(f))) /\ Crash

\* File::open() throws a system_exception, which ends the chain.
OpenFails(c) ==
    /\ opened[c] = NoFile
    /\ \E f \in Unwritable, buffer \in Buffers(c) :
        /\ Recv(c, buffer)
        /\ BeginsWithTags(f, buffer)
        /\ commonsize' = 0
        /\ receiving' = receiving \ {c}
        /\ errors' = errors \cup {c}
        /\ UNCHANGED <<server, fileVars>>

\* The file is resized to its full length first, and grows only beyond it.
FileSize(f, written) == IF Len(written) > Size[f] THEN Len(written) ELSE Size[f]

\* Mutant: the finish tag is not looked for at the end of the buffer.
HasFinishTag_Unchecked(bytes) == Len(bytes) > FinishLen

\* The tag and its zero must be the end of the buffer; the zero is not looked at.
HasFinishTag(bytes) ==
    /\ Len(bytes) > FinishLen
    /\ SubSeq(bytes, Len(bytes) - FinishLen, Len(bytes) - 1) = FinishTag

\* The bytes after the start tags, for file f, of which some have been written, clean
\* if no error was met since it was opened, and before counted by commonsize.
Store(c, f, written, clean, before, bytes) ==
    LET total == before + Len(bytes)
        data == SubSeq(bytes, 1, Len(bytes) - FinishLen - 1)
    IN  \/ /\ total <= FileSize(f, written)
           /\ commonsize' = total
           /\ opened' = [opened EXCEPT ![c] = f]
           /\ stored' = [stored EXCEPT ![c] = written \o bytes]
           /\ dirty' = IF clean THEN dirty \ {c} ELSE dirty
           /\ UNCHANGED <<server, receiving, errors, closed>>
        \/ /\ total > FileSize(f, written) /\ HasFinishTag(bytes)
           /\ commonsize' = 0
           /\ opened' = [opened EXCEPT ![c] = NoFile]
           /\ stored' = [stored EXCEPT ![c] = <<>>]
           /\ closed' = closed \cup {[file |-> f, data |-> written \o data, clean |-> clean]}
           /\ UNCHANGED <<server, receiving, dirty, errors>>
        \/ /\ total > FileSize(f, written) /\ ~HasFinishTag(bytes)
           /\ Garbled(c, f, total)
           /\ stored' = [stored EXCEPT ![c] = written]
        \/ /\ total > FileSize(f, written) /\ Len(bytes) = FinishLen
           /\ Crash

\* Whole start tags: the file is opened and gets what follows them.
FirstBuffer(c) ==
    /\ opened[c] = NoFile
    /\ \E f \in Files \ Unwritable, buffer \in Buffers(c) :
        /\ Recv(c, buffer)
        /\ BeginsWithTags(f, buffer)
        /\ Store(c, f, <<>>, TRUE, 0, SubSeq(buffer, StartLen + 1, Len(buffer)))

NextBuffer(c) ==
    /\ opened[c] # NoFile
    /\ \E buffer \in Buffers(c) :
        /\ Recv(c, buffer)
        /\ Store(c, opened[c], stored[c], c \notin dirty, commonsize, buffer)

RecvTask(c) == RecvEnds(c) \/ BadStart(c) \/ OpenFails(c) \/ FirstBuffer(c) \/ NextBuffer(c)

-----------------------------------------------------------------------------

Next ==
    \E c \in Conns :
        \/ \E f \in Files : Assign(c, f)
        \/ Close(c)
        \/ Break(c)
        \/ SendingTask(c)
        \/ RecvTask(c)

Spec == Init /\ [][Next]_vars

\* The user of each client sends one file at a time, on whichever of its connections.
OneChainEach == \A c, d \in sending : ClientOf[c] = ClientOf[d] => c = d

TurnsSpec == Init /\ [][Next /\ OneChainEach']_vars

\* Either timer runs the tasks scheduled on it; nobody is obliged to choose a file.
FairSpec ==
    /\ Spec
    /\ \A c \in Conns : WF_vars(SendingTask(c)) /\ WF_vars(RecvTask(c))

-----------------------------------------------------------------------------
(* Properties *)

\* A file that the server calls done without having reported an error since it was
\* opened begins with every byte of the original, in order (server_parser.cpp:70): no
\* cut of the buffers, and nothing that other clients send, makes it lose one.  This is said
\* of files that do not hold the finish tag's text: one that ends with it, cut by recv() one
\* byte after, is called done short of its end (server_parser.cpp:67).
DoneHasContent == \A r \in closed : r.clean => IsPrefix(Content(r.file), r.data)

\* "File transfering ... is done" (server_parser.cpp:70): such a file is the original.
DoneIsIntact == \A r \in closed : r.clean => r.data = Content(r.file)

Received(f) == \E r \in closed : r.file = f /\ r.clean
Written(c, f) == opened[c] = f /\ c \notin dirty /\ IsPrefix(Content(f), stored[c])

\* When the client has called a file sent, the only one of its connection, and the
\* server has taken every byte of it, then the file is there, perhaps not closed yet,
\* or the server has reported an error or crashed.  As above, the content holds no tag: a
\* file that begins with the text of start tags could be taken for another one after a
\* chain has failed (server_parser.cpp:99).
NoSilentLoss ==
    \A c \in Conns, f \in Files :
        <<c, f>> \in reported /\ {a \in assigned : a[1] = c} = {<<c, f>>}
            /\ wire[c] = <<>> /\ link[c] = "up" =>
                Received(f) \/ Written(c, f) \/ c \in errors \/ server = "crashed"

\* "Sending will be stopped after the entire content be sent" (mainframe.cpp:262), or
\* once the connection has failed: no chain of SendingTasks goes on for ever.
SendingStops ==
    \A c \in Conns : c \in sending ~> (c \notin sending \/ timer[ClientOf[c]] = "dead")

\* How far the chain of c is from its end: what it has to read, the end of the file it has to
\* find, the start tags it has to send, and the run it stands before or in.
RunsLeft(c) ==
    IF c \notin sending THEN 0
    ELSE 2 * ((Size[file[c].name] - file[c].pos)
                + (IF file[c].eof THEN 0 ELSE 1)
                + (IF filePartSent[ClientOf[c]] THEN 0 ELSE 1))
         + (IF c \in running THEN 1 ELSE 2)

\* Each step of a SendingTask brings its chain nearer to the end (user_tasks.cpp:107-176), and
\* nothing sets it back: not a read of nothing, not the chains of other clients, and not
\* what an earlier chain of the same client has left in filePartSent.
SendingNears ==
    [][\A c \in sending : IF SendingTask(c) THEN RunsLeft(c)' < RunsLeft(c)
                                          ELSE RunsLeft(c)' = RunsLeft(c)]_vars

\* A file that the server cannot open for writing was chosen on c: the one thing in what
\* is received that ends a chain of RecvTasks (File::open() throws).
HasUnwritable(c) == \E f \in Unwritable : <<c, f>> \in assigned

\* The server goes on receiving until nothing is left, whatever it receives: no buffer,
\* however cut and garbled or not, ends the chain of RecvTasks or keeps it from taking the
\* next (server_tasks.cpp:45-83).
InputIsDrained ==
    \A c \in Conns :
        wire[c] # <<>> ~> \/ wire[c] = <<>>
                          \/ server = "crashed"
                          \/ c \notin receiving /\ HasUnwritable(c)

=============================================================================
