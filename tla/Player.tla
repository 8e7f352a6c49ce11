------------------------------- MODULE Player -------------------------------
(***************************************************************************)
(* modules/utils/player/Player.cpp: a file is played by a task of its own, *)
(* which sends its lines to the command thread; the commands that pause,   *)
(* abort, suspend and resume it run in the command thread, partly at once  *)
(* and partly when that thread is idle.                                    *)
(*                                                                         *)
(* The play task is below the command thread: it runs only while that one  *)
(* waits for a message or sleeps.  Every line of a file is a move, and     *)
(* every move a block of the planner's queue; heaters, positions and       *)
(* messages are left out.                                                  *)
(***************************************************************************)
EXTENDS Integers, Sequences

CONSTANTS
    FileLength,   \* lines of a file
    QueueSize,    \* places in the message queue
    MaxBlocks,    \* blocks the planner's queue holds
    Threads,      \* the play tasks there can be
    MaxPlays, MaxCommands, MaxHalts   \* bounds: files played, commands, halts

ASSUME PlayerAssumption ==
    /\ FileLength \in Nat \ {0} /\ QueueSize \in Nat \ {0}
    /\ MaxBlocks \in Nat \ {0}
    /\ MaxPlays \in Nat /\ MaxCommands \in Nat /\ MaxHalts \in Nat

VARIABLES
    playing_file, current_file_handler, abort_thread,    \* of Player
    abort_flg, suspended, was_playing_file, suspend_loops,
    thread, buf,             \* each play task's place, the line it has read
    messages,                \* the message queue: lines of files, commands
    command, asleep,         \* what the command thread does, whether it
                             \* sleeps meanwhile
    blocks,                  \* moves in the planner's queue
    state_stack,             \* Robot::state_stack, who has pushed each
    halted,                  \* Module::halted
    plays, commands, halts,  \* how many there have been
    executed, late,          \* history: the last line executed, how many
    stopped,                 \*   since an abort or suspend was complete
    aborted,                 \* history: the last play there was an abort of
    second,                  \* history: a play task began beside another
    hasty                    \* history: a suspend or resume was cut short

file == <<playing_file, current_file_handler, abort_thread>>
suspension == <<suspended, was_playing_file, suspend_loops, state_stack>>
counts == <<plays, commands, halts>>
history == <<executed, late, stopped, aborted, second, hasty>>
command_vars == <<command, asleep>>
vars == <<file, abort_flg, suspension, thread, buf, messages, command_vars,
          blocks, halted, counts, history>>

Closed == [file |-> 0, n |-> 0]          \* nullptr; also no line
Line == [file : 1 .. MaxPlays, n : 1 .. FileLength]
Commands == {"play", "play -p", "M24", "M25", "M26",
             "abort", "M600", "M601", "G28"}

TypeOK ==
    /\ playing_file \in BOOLEAN /\ abort_thread \in BOOLEAN
    /\ current_file_handler \in
          {Closed} \cup [file : 1 .. MaxPlays, n : 1 .. FileLength + 1]
    /\ abort_flg \in BOOLEAN /\ suspended \in BOOLEAN
    /\ was_playing_file \in BOOLEAN /\ suspend_loops \in 0 .. 2
    /\ thread \in [Threads -> {"none", "fgets", "test", "room", "send",
                               "end", "close", "fault"}]
    /\ buf \in [Threads -> Line \cup {Closed}]
    /\ messages \in Seq([cmd : Commands] \cup [line : Line])
    /\ Len(messages) <= QueueSize
    /\ command \in {"ready", "append", "flush", "suspending", "heating",
                    "restoring", "returning"}
    /\ asleep \in BOOLEAN /\ blocks \in 0 .. MaxBlocks
    /\ state_stack \in Seq({"host", "suspend"})
    /\ halted \in BOOLEAN
    /\ plays \in 0 .. MaxPlays /\ commands \in 0 .. MaxCommands
    /\ halts \in 0 .. MaxHalts
    /\ executed \in Line \cup {Closed} /\ late \in Nat
    /\ aborted \in 0 .. MaxPlays
    /\ stopped \in {"no", "soon", "yes"} /\ second \in BOOLEAN /\ hasty \in BOOLEAN

\* A host's macro has pushed its state (M120), nothing is being played.
Init ==
    /\ playing_file = FALSE /\ current_file_handler = Closed
    /\ abort_thread = FALSE /\ abort_flg = FALSE
    /\ suspended = FALSE /\ was_playing_file = FALSE /\ suspend_loops = 0
    /\ thread = [t \in Threads |-> "none"] /\ buf = [t \in Threads |-> Closed]
    /\ messages = <<>> /\ command = "ready" /\ asleep = FALSE
    /\ blocks = 0
    /\ state_stack = <<"host">>
    /\ halted = FALSE
    /\ plays = 0 /\ commands = 0 /\ halts = 0
    /\ executed = Closed /\ late = 0 /\ stopped = "no"
    /\ aborted = 0
    /\ second = FALSE /\ hasty = FALSE

\* Robot::pop_state
Popped == SubSeq(state_stack, 1, Len(state_stack) - 1)

-----------------------------------------------------------------------------
(***************************************************************************)
(* player_thread                                                           *)
(***************************************************************************)

\* The command thread waits for a message, or sleeps.
PlayRuns == asleep \/ (command = "ready" /\ messages = <<>>)

At(t, place) == PlayRuns /\ thread[t] = place
Go(t, place) == thread' = [thread EXCEPT ![t] = place]

\* fgets; the behaviour of fgets(nullptr) is undefined.
Fgets(t) ==
    /\ At(t, "fgets")
    /\ IF current_file_handler = Closed
         THEN Go(t, "fault") /\ UNCHANGED <<buf, current_file_handler>>
       ELSE IF current_file_handler.n > FileLength
         THEN Go(t, "end") /\ UNCHANGED <<buf, current_file_handler>>
       ELSE /\ buf' = [buf EXCEPT ![t] = current_file_handler]
            /\ current_file_handler' = [current_file_handler EXCEPT !.n = @ + 1]
            /\ Go(t, "test")
    /\ UNCHANGED <<playing_file, abort_thread, abort_flg, suspension, messages,
                   command_vars, blocks, halted, counts, history>>

\* A mistake the checks must notice: the pause is not seen.
NeverPaused == FALSE

Paused == ~playing_file /\ ~abort_thread /\ ~halted

\* Paused, or abort_thread || is_halted()
Test(t) ==
    /\ At(t, "test") /\ ~Paused
    /\ IF abort_thread \/ halted
         THEN abort_thread' = FALSE /\ Go(t, "end")
         ELSE UNCHANGED abort_thread /\ Go(t, "room")
    /\ UNCHANGED <<playing_file, current_file_handler, abort_flg, suspension,
                   buf, messages, command_vars, blocks, halted, counts, history>>

\* while(!is_there_room()), every 10 ms.
Room(t) ==
    /\ At(t, "room") /\ blocks < MaxBlocks
    /\ Go(t, "send")
    /\ UNCHANGED <<file, abort_flg, suspension, buf, messages, command_vars, blocks,
                   halted, counts, history>>

\* A mistake the checks must notice: send_message_queue(..., false).
SendNoWait(t) ==
    /\ At(t, "send")
    /\ messages' = IF Len(messages) < QueueSize
                     THEN Append(messages, [line |-> buf[t]]) ELSE messages
    /\ Go(t, "fgets")
    /\ UNCHANGED <<file, abort_flg, suspension, buf, command_vars, blocks, halted,
                   counts, history>>

Send(t) ==
    /\ At(t, "send") /\ Len(messages) < QueueSize
    /\ messages' = Append(messages, [line |-> buf[t]])
    /\ Go(t, "fgets")
    /\ UNCHANGED <<file, abort_flg, suspension, buf, command_vars, blocks, halted,
                   counts, history>>

\* The end of the file, or of the play: playing_file = false ...
End(t) ==
    /\ At(t, "end")
    /\ playing_file' = FALSE
    /\ Go(t, "close")
    /\ UNCHANGED <<current_file_handler, abort_thread, abort_flg, suspension,
                   buf, messages, command_vars, blocks, halted, counts, history>>

\* ... and fclose.
Close(t) ==
    /\ At(t, "close")
    /\ current_file_handler' = Closed
    /\ Go(t, "none")
    /\ UNCHANGED <<playing_file, abort_thread, abort_flg, suspension, buf,
                   messages, command_vars, blocks, halted, counts, history>>

PlayThread(t) ==
    Fgets(t) \/ Test(t) \/ Room(t) \/ Send(t) \/ End(t) \/ Close(t)

-----------------------------------------------------------------------------
(***************************************************************************)
(* The command thread: the commands.                                       *)
(***************************************************************************)

Received(m) ==
    /\ command = "ready" /\ messages # <<>>
    /\ Head(messages) = m
    /\ messages' = Tail(messages)

Receives(c) == Received([cmd |-> c]) /\ UNCHANGED <<counts, blocks, halted>>

\* A line of a file: a move, unless the machine is halted; append_block waits
\* for room.
ExecuteLine ==
    \E l \in Line :
        /\ Received([line |-> l])
        /\ IF halted THEN UNCHANGED <<command_vars, blocks, executed, late>>
           ELSE /\ executed' = l
                /\ late' = IF stopped = "yes" THEN late + 1 ELSE late
                /\ IF blocks < MaxBlocks
                     THEN blocks' = blocks + 1 /\ UNCHANGED command_vars
                     ELSE /\ command' = "append" /\ asleep' = TRUE
                          /\ UNCHANGED blocks
        /\ UNCHANGED <<file, abort_flg, suspension, thread, buf, halted, counts,
                       stopped, aborted, second, hasty>>

AppendBlock ==
    /\ command = "append"
    /\ (blocks < MaxBlocks \/ halted)
    /\ command' = "ready" /\ asleep' = FALSE
    /\ blocks' = IF halted THEN blocks ELSE blocks + 1
    /\ UNCHANGED <<file, abort_flg, suspension, thread, buf, messages, halted,
                   counts, history>>

\* A play goes on, so that what comes now is not late; it is to stop; the
\* abort or suspend is complete.
Going == stopped' = "no" /\ late' = 0
Stopping == stopped' = "soon" /\ late' = 0
Complete == stopped' = IF stopped = "soon" THEN "yes" ELSE stopped

\* The rest of play_command, once it has not refused.  A file that is open
\* is closed, its task is not told.
Started(paused) ==
    LET t == CHOOSE u \in Threads : thread[u] = "none"
    IN  /\ current_file_handler' = [file |-> plays + 1, n |-> 1]
        /\ plays' = plays + 1
        /\ playing_file' = ~paused
        /\ Go(t, "fgets")
        /\ second' = (second \/ \E u \in Threads : thread[u] # "none")
        /\ Going

\* play_command; c tells whether it starts paused.
Play(c) ==
    /\ c \in {"play", "play -p"}
    /\ Received([cmd |-> c])
    /\ IF playing_file \/ suspended \/ plays = MaxPlays
         THEN UNCHANGED <<playing_file, current_file_handler, thread, plays, history>>
         ELSE Started(c = "play -p") /\ UNCHANGED <<executed, aborted, hasty>>
    /\ UNCHANGED <<abort_thread, abort_flg, suspension, buf, command_vars, blocks,
                   halted, commands, halts>>

\* start print
M24 ==
    /\ Receives("M24")
    /\ IF current_file_handler # Closed
         THEN playing_file' = TRUE /\ Going
         ELSE UNCHANGED <<playing_file, stopped, late>>
    /\ UNCHANGED <<current_file_handler, abort_thread, abort_flg, suspension,
                   thread, buf, command_vars, executed, aborted, second, hasty>>

\* pause print
M25 ==
    /\ Receives("M25")
    /\ playing_file' = FALSE
    /\ UNCHANGED <<current_file_handler, abort_thread, abort_flg, suspension,
                   thread, buf, command_vars, history>>

\* The suspension is not complete, or is being ended.
Incomplete == suspend_loops > 0 \/ command # "ready"

\* A mistake the checks must notice: the state that was saved stays.
CancelNoPop ==
    /\ suspended' = FALSE
    /\ was_playing_file' = FALSE
    /\ suspend_loops' = 0
    /\ hasty' = (hasty \/ Incomplete)
    /\ UNCHANGED state_stack

\* "clean up from suspend"
Cancel ==
    /\ suspended' = FALSE
    /\ was_playing_file' = FALSE
    /\ suspend_loops' = 0
    /\ state_stack' = Popped
    /\ hasty' = (hasty \/ Incomplete)

CancelIfSuspended == IF suspended THEN Cancel ELSE UNCHANGED <<suspension, hasty>>

\* A mistake the checks must notice: a paused play is not told.
AbortLater ==
    /\ Receives("abort")
    /\ CancelIfSuspended
    /\ IF ~playing_file /\ current_file_handler = Closed
         THEN UNCHANGED <<abort_thread, abort_flg, late, stopped, aborted>>
         ELSE /\ abort_thread' = playing_file
              /\ abort_flg' = TRUE
              /\ aborted' = plays /\ Stopping
    /\ UNCHANGED <<playing_file, current_file_handler, thread, buf, command_vars,
                   executed, second>>

\* abort_command
Abort ==
    /\ Receives("abort")
    /\ CancelIfSuspended
    /\ IF ~playing_file /\ current_file_handler = Closed
         THEN UNCHANGED <<abort_thread, abort_flg, late, stopped, aborted>>
         ELSE /\ abort_thread' = TRUE
              /\ abort_flg' = TRUE
              /\ aborted' = plays /\ Stopping
    /\ UNCHANGED <<playing_file, current_file_handler, thread, buf, command_vars,
                   executed, second>>

\* Reset print: abort_command and play_command, which refuses as long as
\* the play task has not cleared playing_file; the name of the file has gone
\* with it.
M26 ==
    /\ Received([cmd |-> "M26"])
    /\ IF current_file_handler = Closed
         THEN UNCHANGED <<file, abort_flg, suspension, thread, plays, history>>
         ELSE /\ CancelIfSuspended
              /\ abort_thread' = TRUE /\ abort_flg' = TRUE
              /\ aborted' = plays
              /\ IF \/ playing_file \/ plays = MaxPlays
                    \/ \E t \in Threads : thread[t] = "close"
                   THEN /\ Stopping
                        /\ UNCHANGED <<playing_file, current_file_handler,
                                       thread, plays, second>>
                   ELSE Started(FALSE)
              /\ UNCHANGED executed
    /\ UNCHANGED <<buf, command_vars, blocks, halted, commands, halts>>

\* Homing cancels a suspend.
G28 ==
    /\ Receives("G28")
    /\ CancelIfSuspended
    /\ UNCHANGED <<file, abort_flg, thread, buf, command_vars, executed, late,
                   stopped, aborted, second>>

\* suspend_command
M600 ==
    /\ Receives("M600")
    /\ IF suspended THEN UNCHANGED <<playing_file, suspension, late, stopped>>
       ELSE /\ suspended' = TRUE
            /\ playing_file' = FALSE
            /\ was_playing_file' = playing_file
            /\ suspend_loops' = 2
            /\ Stopping
            /\ UNCHANGED state_stack
    /\ UNCHANGED <<current_file_handler, abort_thread, abort_flg, thread, buf,
                   command_vars, executed, aborted, second, hasty>>

\* resume_command: set the heaters ...
M601 ==
    /\ Receives("M601")
    /\ command' = IF suspended THEN "heating" ELSE "ready"
    /\ UNCHANGED asleep
    /\ hasty' = (hasty \/ (suspended /\ Incomplete))
    /\ UNCHANGED <<file, abort_flg, suspension, thread, buf, executed, late,
                   stopped, aborted, second>>

-----------------------------------------------------------------------------
(***************************************************************************)
(* The command thread: what it does when it is idle, or has waited.        *)
(***************************************************************************)

\* A wait that does not end at once: safe_sleep.
Sleep ==
    /\ command = "heating" \/ (command # "ready" /\ blocks > 0)
    /\ ~asleep
    /\ asleep' = TRUE
    /\ UNCHANGED <<file, abort_flg, suspension, thread, buf, messages, command,
                   blocks, halted, counts, history>>

Waited(place) ==
    /\ command = place
    /\ asleep' = FALSE
    /\ UNCHANGED <<abort_flg, thread, buf, messages, halted, counts, executed,
                   aborted, second>>

\* ... wait for them, unless halted; the suspend is over; if halted, so is
\* the resume ...
Heated ==
    /\ Waited("heating")
    /\ suspended' = FALSE
    /\ IF halted
         THEN /\ state_stack' = IF suspended THEN Popped ELSE state_stack
              /\ command' = "ready"
              /\ UNCHANGED blocks
         ELSE /\ command' = "restoring"
              /\ blocks' \in blocks .. MaxBlocks
              /\ UNCHANGED state_stack
    /\ UNCHANGED <<file, was_playing_file, suspend_loops, late, stopped, hasty>>

\* ... before_resume_gcode, pop_state ...
Restored ==
    /\ Waited("restoring") /\ blocks = 0
    /\ state_stack' = Popped
    /\ command' = "returning"
    /\ blocks' \in 0 .. 1
    /\ UNCHANGED <<file, suspended, was_playing_file, suspend_loops, late,
                   stopped, hasty>>

\* ... the move back, and on with the play.
Returned ==
    /\ Waited("returning") /\ blocks = 0
    /\ command' = "ready"
    /\ IF halted THEN suspended' = FALSE
                      /\ UNCHANGED <<playing_file, was_playing_file, late, stopped>>
       ELSE /\ playing_file' = (playing_file \/ was_playing_file)
            /\ was_playing_file' = FALSE
            /\ IF was_playing_file THEN Going ELSE UNCHANGED <<late, stopped>>
            /\ UNCHANGED suspended
    /\ UNCHANGED <<current_file_handler, abort_thread, suspend_loops, blocks,
                   state_stack, hasty>>

\* if(suspended && suspend_loops > 0)
Turns == suspended /\ suspend_loops > 0

\* No message for 100 ms, time enough for a play task that can send one.
TimedOut ==
    /\ command = "ready" /\ messages = <<>>
    /\ \A t \in Threads : \/ thread[t] \notin {"room", "send"}
                          \/ thread[t] = "room" /\ blocks = MaxBlocks

\* in_command_ctx(true): an abort, or a turn of the suspend.
Idle ==
    /\ TimedOut
    /\ \/ /\ abort_flg
          /\ abort_flg' = FALSE
          /\ command' = "flush"
          /\ UNCHANGED suspend_loops
       \/ /\ ~abort_flg /\ Turns
          /\ suspend_loops' = suspend_loops - 1
          /\ command' = IF suspend_loops' = 0 THEN "suspending" ELSE "ready"
          /\ UNCHANGED abort_flg
    /\ UNCHANGED <<file, suspended, was_playing_file, state_stack, asleep,
                   thread, buf, messages, blocks, halted, counts, history>>

\* flush_queue, wait_for_idle: "Abort completed".
Flushed ==
    /\ Waited("flush") /\ blocks = 0
    /\ Complete
    /\ command' = "ready"
    /\ UNCHANGED <<file, suspension, blocks, late, hasty>>

\* suspend_part2, wait_for_idle: "Print Suspended", unless halted.
Suspended ==
    /\ Waited("suspending") /\ blocks = 0
    /\ command' = "ready"
    /\ IF halted THEN suspended' = FALSE /\ UNCHANGED <<state_stack, stopped>>
       ELSE /\ state_stack' = Append(state_stack, "suspend")
            /\ Complete
            /\ UNCHANGED suspended
    /\ UNCHANGED <<file, was_playing_file, suspend_loops, blocks, late, hasty>>

CommandThread ==
    \/ ExecuteLine \/ AppendBlock
    \/ \E c \in Commands : Play(c)
    \/ M24 \/ M25 \/ M26 \/ Abort \/ G28 \/ M600 \/ M601
    \/ Sleep \/ Heated \/ Restored \/ Returned \/ Idle \/ Flushed \/ Suspended

-----------------------------------------------------------------------------
\* A command of the host.
Host(c) ==
    /\ commands < MaxCommands
    /\ Len(messages) < QueueSize
    /\ commands' = commands + 1
    /\ messages' = Append(messages, [cmd |-> c])
    /\ UNCHANGED <<file, abort_flg, suspension, thread, buf, command_vars, blocks,
                   halted, plays, halts, history>>

\* A move ends.
BlockDone ==
    /\ blocks > 0
    /\ blocks' = blocks - 1
    /\ UNCHANGED <<file, abort_flg, suspension, thread, buf, messages, command_vars,
                   halted, counts, history>>

\* broadcast_halt(true) by a task above: the moves are dropped, on_halt
\* cancels a suspend.
Halt ==
    /\ ~halted /\ halts < MaxHalts
    /\ halted' = TRUE
    /\ halts' = halts + 1
    /\ blocks' = 0
    /\ IF suspended THEN Cancel
       ELSE hasty' = (hasty \/ command # "ready") /\ UNCHANGED suspension
    /\ UNCHANGED <<file, abort_flg, thread, buf, messages, command_vars, plays,
                   commands, executed, late, stopped, aborted, second>>

\* The halt is released.
Release ==
    /\ halted
    /\ halted' = FALSE
    /\ UNCHANGED <<file, abort_flg, suspension, thread, buf, messages, command_vars,
                   blocks, counts, history>>

Next ==
    \/ \E t \in Threads : PlayThread(t)
    \/ CommandThread
    \/ \E c \in Commands : Host(c)
    \/ BlockDone \/ Halt \/ Release

\* Moves end, a halt is released, and tasks that can run do: those above the
\* play task wait most of the time.
Spec ==
    /\ Init /\ [][Next]_vars
    /\ WF_vars(CommandThread) /\ WF_vars(BlockDone) /\ WF_vars(Release)
    /\ \A t \in Threads : WF_vars(PlayThread(t))

-----------------------------------------------------------------------------
\* The lines of a file are executed one after the other, none left out and
\* none twice, whatever pauses, suspends and aborts come; only a halt, or a
\* file played while the task of a paused one is there, mixes them up.
LinesInOrder ==
    [][halts = 0 /\ ~second /\ executed' # executed =>
          \/ executed' = [executed EXCEPT !.n = @ + 1]
          \/ executed'.file > executed.file /\ executed'.n = 1]_vars

\* At most one line of the file, the one the play task was already waiting
\* with, is executed after an abort or a suspend has been completed.
OneLineLate == second \/ late <= 1

\* What Player.cpp:420-421 is about: no line of the file is left to be
\* executed when an abort or a suspend has been completed.
NoLineLate == second \/ late = 0

\* The state pushed by a suspend is popped once, however the suspend ends,
\* and the states the host has pushed stay; unless the suspend is ended
\* before it was complete, or a halt falls into its completion or its end.
StateKept ==
    command = "ready" /\ ~hasty =>
        state_stack = IF suspended /\ suspend_loops = 0
                        THEN <<"host", "suspend">> ELSE <<"host">>

\* An aborted play ends, paused, suspended or waiting for room though it may
\* be; after that another may begin.
AbortEnds ==
    []~second =>
        \A p \in 1 .. MaxPlays :
            aborted = p ~> plays > p \/ \A t \in Threads : thread[t] = "none"
=============================================================================
