-------------------------------- MODULE Shell --------------------------------
(***************************************************************************)
(* network/Shell.cpp: connections come and go, and the output stream of    *)
(* one that has gone is deleted only when its last command is done, by the *)
(* shell thread as it closes it or later by a timer.                       *)
(***************************************************************************)
EXTENDS Consoles

CONSTANTS
    GcSize        \* slots of the ring gc

shell_thread == "shell"
Conns == Streams \ Consoles

ASSUME ShellAssumption ==
    /\ shell_thread \in Comms \ Consoles
    /\ GcSize \in Nat \ {0}

VARIABLES
    unused,       \* connections still to come
    shells,       \* the open connections
    waiting,      \* the line the shell thread cannot place, or None
    gc,           \* closed streams to delete
    deleted,      \* the streams deleted
    hasty,        \* history: streams that sent something before the last
                  \* line was done, or a query
    orphans       \* history: streams in gc with no line left to be done, and
                  \* streams that asked $I or $S

shellVars == <<unused, shells, waiting, gc, deleted, hasty, orphans>>
vars == <<consoleVars, shellVars>>

TypeOK ==
    /\ ConsolesTypeOK
    /\ unused \subseteq Conns /\ shells \subseteq Conns \ unused
    /\ waiting \in Entry \cup {None}
    /\ gc \in Seq(Conns) /\ Len(gc) < GcSize
    /\ deleted \subseteq Conns \ shells
    /\ hasty \subseteq Conns /\ orphans \subseteq Conns

Init ==
    /\ ConsolesInit
    /\ unused = Conns /\ shells = {}
    /\ waiting = None
    /\ gc = <<>> /\ deleted = {}
    /\ hasty = {} /\ orphans = {}

\* The lines of c that are in the queue or being executed.
HasLine(c) ==
    \/ \E i \in DOMAIN messages : messages[i].os = c
    \/ phase # "receive" /\ line.os = c

-----------------------------------------------------------------------------
\* The shell thread is back in FreeRTOS_select.
Selecting == waiting = None /\ ~Pushing(shell_thread)

\* A new connection.
Accept(c) ==
    /\ Selecting /\ c \in unused
    /\ unused' = unused \ {c}
    /\ shells' = shells \cup {c}
    /\ UNCHANGED <<consoleVars, waiting, gc, deleted, hasty, orphans>>

\* k lines in one buffer.  process_command_buffer does not wait: the line
\* that finds the queue full is left to the caller, those after it are lost.
Data(c, k) ==
    LET queue[i \in 0 .. k] ==
            IF i = 0 THEN messages
            ELSE IF Len(queue[i - 1]) = QueueSize THEN queue[i - 1]
            ELSE Append(queue[i - 1], [os |-> c, n |-> lines[c] + i])
        placed == Len(queue[k]) - Len(messages)
    IN  /\ Selecting /\ c \in shells
        /\ lines[c] + k <= MaxLines[c] /\ Sent + k <= MaxSent
        /\ lines' = [lines EXCEPT ![c] = @ + k]
        /\ done' = ClearDone(c)
        /\ messages' = queue[k]
        /\ waiting' = IF placed = k THEN None
                      ELSE [os |-> c, n |-> lines[c] + placed + 1]
        /\ hasty' = IF k > 1 \/ HasLine(c) THEN hasty \cup {c} ELSE hasty
        /\ UNCHANGED <<ring, command, asked, unused, shells, gc, deleted,
                       orphans>>

\* A query from a connection.
Query(c) ==
    /\ Selecting /\ c \in shells
    /\ Ask(shell_thread, c)
    /\ hasty' = hasty \cup {c}
    /\ orphans' = orphans \cup {d \in {c} : Pushing(shell_thread)'
                                           /\ pushing'[shell_thread].text}
    /\ UNCHANGED <<unused, shells, waiting, gc, deleted>>

\* A mistake the checks must notice: a stream is deleted with its connection.
ReleasedAlways(c) == TRUE

\* close_shell's p_shell->os->is_done()
Released(c) == done[c]

\* gc.push_back, which does not test whether the ring is full: head then
\* meets tail and the ring is empty.
Collected(c) == IF Len(gc) = GcSize - 1 THEN <<>> ELSE Append(gc, c)

close_shell(c) ==
    /\ shells' = shells \ {c}
    /\ IF Released(c)
         THEN /\ deleted' = deleted \cup {c}
              /\ UNCHANGED <<gc, orphans>>
         ELSE /\ gc' = Collected(c)
              /\ orphans' = IF HasLine(c) THEN orphans ELSE orphans \cup {c}
              /\ UNCHANGED deleted

\* The connection is found closed when it is read.
Gone(c) ==
    /\ Selecting /\ c \in shells
    /\ close_shell(c)
    /\ UNCHANGED <<consoleVars, unused, waiting, hasty>>

\* A mistake the checks must notice: the line stays to be sent again.
ResubmitTwice ==
    /\ waiting # None
    /\ Room
    /\ messages' = Append(messages, waiting)
    /\ UNCHANGED <<waiting, ring, command, done, lines, asked, unused, shells,
                   gc, deleted, hasty, orphans>>

\* Every 100 ms: send_message_queue once more ...
Resubmit ==
    /\ waiting # None
    /\ Room
    /\ messages' = Append(messages, waiting)
    /\ waiting' = None
    /\ UNCHANGED <<ring, command, done, lines, asked, unused, shells, gc,
                   deleted, hasty, orphans>>

\* ... until the connection is lost.
GiveUp ==
    /\ waiting # None
    /\ close_shell(waiting.os)
    /\ waiting' = None
    /\ UNCHANGED <<consoleVars, unused, hasty>>

\* os_garbage_collector, called by the timer task; one stream of its loop.
Collect ==
    /\ CommandRuns
    /\ gc # <<>> /\ done[Head(gc)]
    /\ deleted' = deleted \cup {Head(gc)}
    /\ gc' = Tail(gc)
    /\ UNCHANGED <<consoleVars, unused, shells, waiting, hasty, orphans>>

ShellThread ==
    \/ \E c \in Conns : \/ Accept(c) \/ Query(c) \/ Gone(c)
                        \/ \E k \in 1 .. 2 : Data(c, k)
    \/ Resubmit \/ GiveUp

Next ==
    \/ ConsolesNext /\ UNCHANGED shellVars
    \/ ShellThread
    \/ Collect

\* Tasks that can run do: the command thread and the timer task get the
\* processor back from the comms tasks, which mostly wait for characters.
Spec ==
    /\ Init /\ [][Next]_vars
    /\ WF_vars(CommandThread /\ UNCHANGED shellVars)
    /\ \A t \in Comms : WF_vars(push_back(t) /\ UNCHANGED shellVars)
    /\ WF_vars(Resubmit) /\ WF_vars(Collect)

-----------------------------------------------------------------------------
\* What Shell.cpp:79-80 asks for: a stream "needs to stick around until the
\* command has completed".
StreamOutlives == InUse \cap deleted = {}

\* It does for a client that sends a line only when the one before is done.
PatientClientSafe ==
    (InUse \cup {c \in Conns : HasLine(c)}) \cap deleted \subseteq hasty

\* The lines of a connection are executed in the order it sent them, none of
\* them twice, though some may be lost: a line that waited for room is never
\* overtaken.
LinesInOrder ==
    \A i, j \in DOMAIN messages :
        /\ i < j /\ messages[i].os = messages[j].os
              => messages[i].n < messages[j].n
        /\ phase # "receive" /\ line.os = messages[i].os
              => line.n < messages[i].n
        /\ waiting.os = messages[i].os => messages[i].n < waiting.n

\* Streams waiting to be deleted whose last line has gone into a subroutine.
Forgotten ==
    {c \in silent : /\ ~done[c] /\ ~HasLine(c)
                    /\ \E i \in DOMAIN gc : gc[i] = c}

\* Every stream that outlives its connection is deleted in the end, provided
\* that none is closed without a line left to be done, nor may have its flag
\* cleared by a $I answered after its last line, nor has a line of a subroutine
\* for its last: such a one is never marked done, and keeps the collector from all
\* those behind it.
StreamsReleased ==
    [](orphans = {} /\ Forgotten = {}) =>
        \A c \in Conns : (\E i \in DOMAIN gc : gc[i] = c) ~> (c \in deleted)
=============================================================================
