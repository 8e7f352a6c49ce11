--------------------------- MODULE Player_proofs ---------------------------
(***************************************************************************)
(* Pauses, aborts and suspends: the lines of a file are executed one after *)
(* the other, at most one of them after an abort or a suspend is complete, *)
(* and the state a suspend saves is restored once: for files, queues and   *)
(* numbers of commands of any size.                                        *)
(***************************************************************************)
EXTENDS Player, SequenceTheorems, TLAPS

\* A message is a command or a line.
Message == [cmd : Commands] \cup [line : Line]
IsLine(m) == m \in [line : Line]

\* The queue of messages to the command thread.
Queue(ms) == ms \in Seq(Message) /\ Len(ms) <= QueueSize

\* Who pushed a state onto the stack.
Owners == {"host", "suspend"}

\* The types, in four parts: the file and its play tasks, ...
FileTypes ==
    /\ playing_file \in BOOLEAN /\ abort_thread \in BOOLEAN
    /\ current_file_handler \in
          {Closed} \cup [file : 1 .. MaxPlays, n : 1 .. FileLength + 1]
    /\ thread \in [Threads -> {"none", "fgets", "test", "room", "send",
                               "end", "close", "fault"}]
    /\ buf \in [Threads -> Line \cup {Closed}]
    /\ plays \in 0 .. MaxPlays
    /\ current_file_handler.file <= plays
    /\ \A t \in Threads :
          thread[t] \in {"test", "room", "send"} => buf[t] \in Line

\* ... the suspend and the command under way, ...
SuspendTypes ==
    /\ abort_flg \in BOOLEAN /\ suspended \in BOOLEAN
    /\ was_playing_file \in BOOLEAN /\ suspend_loops \in 0 .. 2
    /\ command \in {"ready", "append", "flush", "suspending", "heating",
                    "restoring", "returning"}
    /\ asleep \in BOOLEAN /\ blocks \in 0 .. MaxBlocks
    /\ state_stack \in Seq(Owners)
    /\ halted \in BOOLEAN

\* ... what has happened so far, and the queue.
HistoryTypes ==
    /\ commands \in 0 .. MaxCommands /\ halts \in 0 .. MaxHalts
    /\ executed \in Line \cup {Closed} /\ late \in Nat
    /\ aborted \in 0 .. MaxPlays
    /\ stopped \in {"no", "soon", "yes"}
    /\ second \in BOOLEAN /\ hasty \in BOOLEAN

Types == FileTypes /\ SuspendTypes /\ HistoryTypes /\ Queue(messages)

\* A queue with no line, or with one.
NoLine(ms) == \A i \in DOMAIN ms : ~IsLine(ms[i])
AtMostOneLine(ms) ==
    \A i, j \in DOMAIN ms : IsLine(ms[i]) /\ IsLine(ms[j]) => i = j

\* Play task t has tested a line, and not sent it yet.
Tested(t) == thread[t] \in {"room", "send"}

\* The lines that will be executed whatever comes but a halt.
NoneUnderWay == NoLine(messages) /\ \A t \in Threads : ~Tested(t)
OneUnderWay ==
    /\ AtMostOneLine(messages)
    /\ \A t \in Threads : Tested(t) => NoLine(messages)

\* There is one play task at a time ...
Alone ==
    \A t, u \in Threads : thread[t] # "none" /\ thread[u] # "none" => t = u

\* ... and when the play is to stop it lets no further line pass its test ...
Guarded ==
    \A t \in Threads :
       /\ thread[t] # "fault"
       /\ thread[t] # "none" => current_file_handler # Closed
       /\ stopped # "no" /\ playing_file /\ ~abort_thread =>
             thread[t] \in {"none", "end", "close"}

\* ... so that one that waits for room is the last.
LateInv ==
    IF stopped = "yes"
      THEN (late = 0 /\ OneUnderWay) \/ (late = 1 /\ NoneUnderWay)
      ELSE late = 0

\* While an abort or a suspend waits for the last moves there is one at most.
EndInv == stopped = "soon" /\ command \in {"flush", "suspending"} => OneUnderWay

StopInv == ~second => Alone /\ Guarded /\ LateInv /\ EndInv

\* The state is saved while a suspend is complete and the resume has not
\* popped it.
Saved ==
    \/ /\ command \in {"ready", "append", "flush"}
       /\ suspended /\ suspend_loops = 0
    \/ command \in {"heating", "restoring"}

\* The stack without the saved state, and with it.
Bare == <<"host">>
Full == <<"host", "suspend">>

StackInv ==
    ~hasty =>
       /\ state_stack = IF Saved THEN Full ELSE Bare
       /\ command \in {"suspending", "heating"} => suspended /\ suspend_loops = 0
       /\ command \in {"restoring", "returning"} => ~suspended

\* Line k of a file, or of an earlier one, comes before line l; p is the line
\* just before l in its file.
Before(k, l) == k.file < l.file \/ (k.file = l.file /\ k.n < l.n)
JustBefore(p, l) == p.file = l.file /\ p.n + 1 = l.n

\* The lines in the queue, and the one executed last.
Queued == {l \in Line : \E i \in DOMAIN messages : messages[i] = [line |-> l]}
Past == Queued \cup {executed}

\* Line l comes after those in set s and leaves none out.
Follows(l, s) ==
    /\ \A k \in s : Before(k, l)
    /\ l.n = 1 \/ \E p \in s : JustBefore(p, l)

\* The lines in the queue are in order ...
Sorted ==
    \A i, j \in DOMAIN messages :
       i < j /\ IsLine(messages[i]) /\ IsLine(messages[j])
          => Before(messages[i].line, messages[j].line)

\* ... without a gap ...
NoGap ==
    \A l \in Queued : /\ Before(executed, l)
                      /\ l.n = 1 \/ \E p \in Past : JustBefore(p, l)

\* ... and so are those the play task adds.
Feeding ==
    \A t \in Threads :
       /\ thread[t] \in {"test", "room", "send"} =>
             /\ Follows(buf[t], Past)
             /\ JustBefore(buf[t], current_file_handler)
       /\ thread[t] = "fgets" => Follows(current_file_handler, Past)

Numbered == \A l \in Past : l.file <= plays

OrderInv ==
    halts = 0 /\ ~second => ~halted /\ Numbered /\ Sorted /\ NoGap /\ Feeding

IInv ==
    /\ Types
    /\ StopInv
    /\ StackInv
    /\ OrderInv

-----------------------------------------------------------------------------
(***************************************************************************)
(* Types.                                                                  *)
(***************************************************************************)

LEMMA Assumptions ==
    /\ FileLength \in Nat \ {0} /\ QueueSize \in Nat \ {0}
    /\ MaxBlocks \in Nat \ {0}
    /\ MaxPlays \in Nat /\ MaxCommands \in Nat /\ MaxHalts \in Nat
BY PlayerAssumption

\* A command is no line, and a message with a line holds that line.
LEMMA MessageKinds ==
    /\ \A c \in Commands : [cmd |-> c] \in Message /\ ~IsLine([cmd |-> c])
    /\ \A l \in Line : /\ [line |-> l] \in Message /\ IsLine([line |-> l])
                       /\ [line |-> l].line = l
    /\ \A m : IsLine(m) => /\ m.line \in Line /\ m = [line |-> m.line]
                           /\ m \in Message
BY DEF Message, IsLine

\* The numbers of a line.
LEMMA LineFields ==
    /\ \A l \in Line : /\ l.file \in 1 .. MaxPlays /\ l.n \in 1 .. FileLength
                       /\ l.file \in Nat /\ l.n \in Nat
    /\ Closed.file = 0 /\ Closed.n = 0 /\ Closed \notin Line
BY Assumptions DEF Line, Closed

\* The first message is taken.
LEMMA Take ==
    ASSUME Queue(messages), NEW m, Received(m)
    PROVE  /\ command = "ready" /\ Queue(messages') /\ m \in Message
           /\ 1 \in DOMAIN messages /\ messages[1] = m
           /\ \A i \in DOMAIN messages' :
                 /\ i \in Nat \ {0} /\ i + 1 \in DOMAIN messages
                 /\ messages'[i] = messages[i + 1]
           /\ \A i \in DOMAIN messages :
                 \/ i = 1
                 \/ /\ i \in Nat /\ i - 1 \in DOMAIN messages'
                    /\ messages'[i - 1] = messages[i]
<1>1. /\ messages \in Seq(Message) /\ messages # <<>> /\ Head(messages) = m
      /\ messages' = Tail(messages) /\ command = "ready"
      /\ Len(messages) <= QueueSize
  BY DEF Queue, Received
<1>2. /\ Head(messages) \in Message /\ Tail(messages) \in Seq(Message)
      /\ Len(Tail(messages)) = Len(messages) - 1 /\ Len(messages) \in Nat
      /\ \A i \in 1 .. Len(Tail(messages)) : Tail(messages)[i] = messages[i + 1]
      /\ Head(messages) = messages[1]
  BY <1>1, HeadTailProperties
<1>3. /\ DOMAIN messages = 1 .. Len(messages)
      /\ DOMAIN messages' = 1 .. Len(messages) - 1
  BY <1>1, <1>2
<1>4. Len(messages) # 0
  BY <1>1, EmptySeq
<1>5. Queue(messages')
  BY <1>1, <1>2, Assumptions DEF Queue
<1>6. \A i \in DOMAIN messages' : messages'[i] = messages[i + 1]
  BY <1>1, <1>2, <1>3
<1>7. ASSUME NEW i \in DOMAIN messages, i # 1
      PROVE  /\ i \in Nat /\ i - 1 \in DOMAIN messages'
             /\ messages'[i - 1] = messages[i]
  <2>1. i \in Nat /\ i - 1 \in DOMAIN messages' /\ (i - 1) + 1 = i
    BY <1>2, <1>3, <1>7
  <2> QED
    BY <1>6, <2>1
<1>8. \A i \in DOMAIN messages' : i \in Nat \ {0} /\ i + 1 \in DOMAIN messages
  BY <1>2, <1>3
<1> QED
  BY <1>1, <1>2, <1>3, <1>4, <1>5, <1>6, <1>7, <1>8

\* A message is put at the end.
LEMMA Put ==
    ASSUME Queue(messages), NEW m \in Message, Len(messages) < QueueSize,
           messages' = Append(messages, m)
    PROVE  /\ Queue(messages')
           /\ \A i \in DOMAIN messages : /\ i \in DOMAIN messages'
                                         /\ messages'[i] = messages[i]
           /\ \A i \in DOMAIN messages' :
                 \/ i \in DOMAIN messages
                 \/ messages'[i] = m /\ \A j \in DOMAIN messages' : j <= i
           /\ \E i \in DOMAIN messages' : messages'[i] = m
<1>1. /\ messages' \in Seq(Message) /\ Len(messages') = Len(messages) + 1
      /\ Len(messages) \in Nat
      /\ \A i \in 1 .. Len(messages) : messages'[i] = messages[i]
      /\ messages'[Len(messages) + 1] = m
  BY AppendProperties DEF Queue
<1>2. /\ DOMAIN messages = 1 .. Len(messages)
      /\ DOMAIN messages' = 1 .. Len(messages) + 1
  BY <1>1 DEF Queue
<1>3. Queue(messages')
  BY <1>1, Assumptions DEF Queue
<1>4. \A i \in DOMAIN messages' :
         i \in DOMAIN messages \/ i = Len(messages) + 1
  BY <1>1, <1>2
<1>5. \A j \in DOMAIN messages' : j <= Len(messages) + 1
  BY <1>1, <1>2
<1>6. /\ Len(messages) + 1 \in DOMAIN messages'
      /\ \A i \in DOMAIN messages : i \in DOMAIN messages'
  BY <1>1, <1>2
<1> QED
  BY <1>1, <1>2, <1>3, <1>4, <1>5, <1>6

\* A pop leaves a stack.
LEMMA PopType ==
    ASSUME state_stack \in Seq(Owners)
    PROVE  Popped \in Seq(Owners)
<1>1. CASE state_stack = <<>>
  BY <1>1 DEF Popped
<1>2. CASE state_stack # <<>>
  <2>1. Len(state_stack) \in Nat \ {0}
    BY <1>2, EmptySeq
  <2>2. /\ 1 \in 1 .. Len(state_stack) + 1
        /\ Len(state_stack) - 1 \in 1 - 1 .. Len(state_stack)
    BY <2>1
  <2> QED
    BY <2>2, SubSeqProperties DEF Popped
<1> QED
  BY <1>1, <1>2

LEMMA TypeParts == Types => TypeOK
BY DEF Types, FileTypes, SuspendTypes, HistoryTypes, Queue, TypeOK, Message,
       Owners

LEMMA InitTypes == Init => Types
<1> SUFFICES ASSUME Init PROVE Types
  OBVIOUS
<1>1. /\ playing_file = FALSE /\ abort_thread = FALSE
      /\ current_file_handler = Closed
      /\ thread = [t \in Threads |-> "none"] /\ buf = [t \in Threads |-> Closed]
      /\ plays = 0
  BY DEF Init
<1>2. /\ abort_flg = FALSE /\ suspended = FALSE /\ was_playing_file = FALSE
      /\ suspend_loops = 0 /\ command = "ready" /\ asleep = FALSE
      /\ blocks = 0 /\ halted = FALSE /\ state_stack = <<"host">>
  BY DEF Init
<1>3. /\ commands = 0 /\ halts = 0 /\ executed = Closed /\ late = 0
      /\ stopped = "no" /\ aborted = 0 /\ second = FALSE /\ hasty = FALSE
  BY DEF Init
<1>4. FileTypes
  <2>1. playing_file \in BOOLEAN /\ abort_thread \in BOOLEAN
    BY <1>1
  <2>2. /\ plays \in 0 .. MaxPlays /\ current_file_handler.file <= plays
        /\ \A t \in Threads : thread[t] = "none"
    BY <1>1, Assumptions, LineFields
  <2> QED
    BY <1>1, <2>1, <2>2 DEF FileTypes
<1>5. SuspendTypes
  <2>1. state_stack \in Seq(Owners)
    BY <1>2 DEF Owners
  <2>2. /\ abort_flg \in BOOLEAN /\ suspended \in BOOLEAN
        /\ was_playing_file \in BOOLEAN /\ asleep \in BOOLEAN
        /\ halted \in BOOLEAN
    BY <1>2
  <2>3. suspend_loops \in 0 .. 2 /\ blocks \in 0 .. MaxBlocks
    BY <1>2, Assumptions
  <2> QED
    BY <1>2, <2>1, <2>2, <2>3 DEF SuspendTypes
<1>6. HistoryTypes
  <2>1. second \in BOOLEAN /\ hasty \in BOOLEAN
    BY <1>3
  <2>2. /\ commands \in 0 .. MaxCommands /\ halts \in 0 .. MaxHalts
        /\ late \in Nat /\ aborted \in 0 .. MaxPlays
    BY <1>3, Assumptions
  <2> QED
    BY <1>3, <2>1, <2>2 DEF HistoryTypes
<1>7. Queue(messages)
  <2>1. messages = <<>> /\ Len(messages) = 0
    BY DEF Init
  <2> QED
    BY <2>1, Assumptions DEF Queue
<1> QED
  BY <1>4, <1>5, <1>6, <1>7 DEF Types

\* Every step of a play task keeps the types.
LEMMA PlayTypes ==
    ASSUME Types, NEW t \in Threads, PlayThread(t)
    PROVE  Types'
<1> USE DEF Types
<1>1. ASSUME UNCHANGED <<suspension, command_vars, blocks, halted, counts,
                         history, abort_flg>>
      PROVE  SuspendTypes' /\ HistoryTypes' /\ plays' = plays
  BY <1>1 DEF SuspendTypes, HistoryTypes, suspension, command_vars, counts, history
<1>2. ASSUME Fgets(t)
      PROVE  Types'
  <2>1. FileTypes'
    <3>1. ASSUME current_file_handler # Closed, current_file_handler.n <= FileLength
          PROVE  /\ current_file_handler \in Line
                 /\ [current_file_handler EXCEPT !.n = @ + 1] \in
                       [file : 1 .. MaxPlays, n : 1 .. FileLength + 1]
                 /\ [current_file_handler EXCEPT !.n = @ + 1].file
                       = current_file_handler.file
      BY <3>1, Assumptions DEF FileTypes, Line
    <3>2. current_file_handler # Closed => current_file_handler.n \in Nat
      BY Assumptions DEF FileTypes
    <3>3. \/ UNCHANGED <<current_file_handler, buf>>
          \/ /\ current_file_handler # Closed
             /\ current_file_handler.n <= FileLength
             /\ buf' = [buf EXCEPT ![t] = current_file_handler]
             /\ current_file_handler' =
                   [current_file_handler EXCEPT !.n = @ + 1]
      BY <1>2, <3>2, Assumptions DEF Fgets
    <3>4. thread' \in [Threads -> {"none", "fgets", "test", "room", "send",
                                   "end", "close", "fault"}]
      BY <1>2 DEF Fgets, Go, FileTypes
    <3>5. \A u \in Threads :
             thread'[u] \in {"test", "room", "send"} => buf'[u] \in Line
      <4>1. ASSUME NEW u \in Threads, u # t,
                   thread'[u] \in {"test", "room", "send"}
            PROVE  buf'[u] \in Line
        BY <1>2, <3>3, <4>1 DEF Fgets, Go, FileTypes
      <4>2. thread'[t] \in {"test", "room", "send"} => buf'[t] \in Line
        BY <1>2, <3>1, <3>2, Assumptions DEF Fgets, Go, FileTypes
      <4> QED
        BY <4>1, <4>2
    <3>6. buf' \in [Threads -> Line \cup {Closed}]
      BY <3>1, <3>3 DEF FileTypes
    <3>7. /\ current_file_handler' \in
                {Closed} \cup [file : 1 .. MaxPlays, n : 1 .. FileLength + 1]
          /\ current_file_handler'.file <= plays
      BY <3>1, <3>3 DEF FileTypes
    <3> QED
      BY <1>2, <3>4, <3>5, <3>6, <3>7 DEF Fgets, FileTypes, counts
  <2> QED
    BY <1>1, <1>2, <2>1 DEF Fgets
<1>3. ASSUME Test(t)
      PROVE  Types'
  BY <1>1, <1>3 DEF Test, At, Go, FileTypes
<1>4. ASSUME Room(t)
      PROVE  Types'
  BY <1>1, <1>4 DEF Room, At, Go, FileTypes, file
<1>5. ASSUME Send(t)
      PROVE  Types'
  <2>1. buf[t] \in Line
    BY <1>5 DEF Send, At, FileTypes
  <2>2. Queue(messages')
    BY <1>5, <2>1, Put, MessageKinds DEF Send
  <2> QED
    BY <1>1, <1>5, <2>2 DEF Send, Go, FileTypes, file
<1>6. ASSUME End(t)
      PROVE  Types'
  BY <1>1, <1>6 DEF End, Go, FileTypes
<1>7. ASSUME Close(t)
      PROVE  Types'
  BY <1>1, <1>7, Assumptions, LineFields DEF Close, Go, FileTypes
<1> QED
  BY <1>2, <1>3, <1>4, <1>5, <1>6, <1>7 DEF PlayThread

\* A suspend that is cancelled.
LEMMA CancelTypes ==
    ASSUME Types, CancelIfSuspended
    PROVE  /\ suspended' \in BOOLEAN /\ was_playing_file' \in BOOLEAN
           /\ suspend_loops' \in 0 .. 2 /\ state_stack' \in Seq(Owners)
           /\ hasty' \in BOOLEAN
<1>1. CASE suspended
  <2>1. /\ suspended' = FALSE /\ was_playing_file' = FALSE /\ suspend_loops' = 0
        /\ state_stack' = Popped
    BY <1>1 DEF CancelIfSuspended, Cancel
  <2>2. hasty' = (hasty \/ Incomplete)
    BY <1>1 DEF CancelIfSuspended, Cancel
  <2>3. state_stack' \in Seq(Owners)
    BY <2>1, PopType DEF Types, SuspendTypes
  <2>4. /\ suspended' \in BOOLEAN /\ was_playing_file' \in BOOLEAN
        /\ hasty' \in BOOLEAN
    BY <2>1, <2>2
  <2> QED
    BY <2>1, <2>3, <2>4
<1>2. CASE ~suspended
  BY <1>2 DEF CancelIfSuspended, suspension, Types, SuspendTypes, HistoryTypes
<1> QED
  BY <1>1, <1>2

\* A play that begins.
LEMMA StartTypes ==
    ASSUME Types, plays # MaxPlays, NEW p \in BOOLEAN, Started(p),
           UNCHANGED buf, abort_thread' \in BOOLEAN
    PROVE  /\ FileTypes' /\ second' \in BOOLEAN
           /\ late' = 0 /\ stopped' = "no"
<1> DEFINE t == CHOOSE u \in Threads : thread[u] = "none"
<1>1. /\ current_file_handler' = [file |-> plays + 1, n |-> 1]
      /\ plays' = plays + 1 /\ playing_file' = ~p
      /\ thread' = [thread EXCEPT ![t] = "fgets"]
      /\ second' = (second \/ \E u \in Threads : thread[u] # "none")
      /\ late' = 0 /\ stopped' = "no"
  BY DEF Started, Go, Going
<1> HIDE DEF t
<1>2. FileTypes
  BY DEF Types
<1>3. plays' \in 0 .. MaxPlays /\ plays' \in 1 .. MaxPlays
  BY <1>1, <1>2, Assumptions DEF FileTypes
<1>4. /\ current_file_handler' \in [file : 1 .. MaxPlays, n : 1 .. FileLength + 1]
      /\ current_file_handler'.file <= plays'
  BY <1>1, <1>3, Assumptions
<1>5. playing_file' \in BOOLEAN /\ second' \in BOOLEAN
  BY <1>1
<1>6. /\ thread' \in [Threads -> {"none", "fgets", "test", "room", "send",
                                  "end", "close", "fault"}]
      /\ \A u \in Threads :
            thread'[u] \in {"test", "room", "send"} => buf'[u] \in Line
  BY <1>1, <1>2 DEF FileTypes
<1> QED
  BY <1>1, <1>2, <1>3, <1>4, <1>5, <1>6 DEF FileTypes

\* Every command keeps the types.
LEMMA CommandTypes ==
    ASSUME Types, NEW c \in Commands,
           Play(c) \/ M24 \/ M25 \/ M26 \/ Abort \/ G28 \/ M600 \/ M601
    PROVE  Types'
<1>1. FileTypes /\ SuspendTypes /\ HistoryTypes /\ Queue(messages)
  BY DEF Types
<1>2. ASSUME NEW d, Receives(d)
      PROVE  /\ Queue(messages') /\ UNCHANGED <<plays, commands, halts>>
             /\ UNCHANGED <<blocks, halted>>
  BY <1>1, <1>2, Take DEF Receives, counts
<1>3. ASSUME NEW d, Received([cmd |-> d])
      PROVE  Queue(messages')
  BY <1>1, <1>3, Take
<1>4. CASE Play(c)
  <2>1. /\ Queue(messages')
        /\ UNCHANGED <<abort_thread, abort_flg, suspended, was_playing_file,
                       suspend_loops, state_stack, buf, command, asleep, blocks,
                       halted, commands, halts>>
    BY <1>3, <1>4 DEF Play, suspension, command_vars
  <2>2. SuspendTypes'
    BY <1>1, <2>1 DEF SuspendTypes
  <2>3. CASE UNCHANGED <<playing_file, current_file_handler, thread, plays,
                         history>>
    BY <1>1, <2>1, <2>2, <2>3 DEF Types, FileTypes, HistoryTypes, history
  <2>4. CASE /\ Started(c = "play -p") /\ plays # MaxPlays
             /\ UNCHANGED <<executed, aborted, hasty>>
    <3>1. abort_thread' \in BOOLEAN /\ (c = "play -p") \in BOOLEAN
      BY <1>1, <2>1 DEF FileTypes
    <3>2. /\ FileTypes' /\ second' \in BOOLEAN
          /\ late' = 0 /\ stopped' = "no"
      BY <2>1, <2>4, <3>1, StartTypes
    <3> QED
      BY <1>1, <2>1, <2>2, <2>4, <3>2 DEF Types, HistoryTypes
  <2> QED
    BY <1>4, <2>3, <2>4 DEF Play
<1>5. CASE M24
  <2>1. /\ Queue(messages') /\ UNCHANGED <<plays, commands, halts>>
        /\ UNCHANGED <<blocks, halted>>
    BY <1>2, <1>5 DEF M24
  <2>2. /\ playing_file' \in BOOLEAN /\ late' \in Nat
        /\ stopped' \in {"no", "soon", "yes"}
    <3>1. \/ playing_file' = TRUE /\ stopped' = "no" /\ late' = 0
          \/ UNCHANGED <<playing_file, stopped, late>>
      BY <1>5 DEF M24, Going
    <3>2. playing_file' \in BOOLEAN
      BY <1>1, <3>1 DEF FileTypes
    <3> QED
      BY <1>1, <3>1, <3>2 DEF HistoryTypes
  <2>3. UNCHANGED <<current_file_handler, abort_thread, abort_flg, suspended,
                    was_playing_file, suspend_loops, state_stack, thread, buf,
                    command, asleep, executed, aborted, second, hasty>>
    BY <1>5 DEF M24, suspension, command_vars
  <2> QED
    BY <1>1, <2>1, <2>2, <2>3 DEF Types, FileTypes, SuspendTypes, HistoryTypes
<1>6. CASE M25
  <2>1. /\ Queue(messages') /\ UNCHANGED <<plays, commands, halts>>
        /\ UNCHANGED <<blocks, halted>>
    BY <1>2, <1>6 DEF M25
  <2>2. playing_file' \in BOOLEAN
    BY <1>6 DEF M25
  <2>3. UNCHANGED <<current_file_handler, abort_thread, abort_flg, suspended,
                    was_playing_file, suspend_loops, state_stack, thread, buf,
                    command, asleep, executed, late, stopped, aborted, second,
                    hasty>>
    BY <1>6 DEF M25, suspension, command_vars, history
  <2> QED
    BY <1>1, <2>1, <2>2, <2>3 DEF Types, FileTypes, SuspendTypes, HistoryTypes
<1>7. CASE M26
  <2>1. /\ Queue(messages')
        /\ UNCHANGED <<buf, command, asleep, blocks, halted, commands, halts>>
    BY <1>3, <1>7 DEF M26, command_vars
  <2>2. CASE UNCHANGED <<file, abort_flg, suspension, thread, plays, history>>
    BY <1>1, <2>1, <2>2
    DEF Types, FileTypes, SuspendTypes, HistoryTypes, file, suspension, history
  <2>3. CASE current_file_handler # Closed
    <3>1. /\ CancelIfSuspended /\ abort_thread' = TRUE /\ abort_flg' = TRUE
          /\ aborted' = plays /\ UNCHANGED executed
      BY <1>7, <2>3 DEF M26
    <3>2. /\ suspended' \in BOOLEAN /\ was_playing_file' \in BOOLEAN
          /\ suspend_loops' \in 0 .. 2 /\ state_stack' \in Seq(Owners)
          /\ hasty' \in BOOLEAN
      BY <3>1, CancelTypes
    <3>3. abort_thread' \in BOOLEAN /\ abort_flg' \in BOOLEAN
      BY <3>1
    <3>4. SuspendTypes'
      BY <1>1, <2>1, <3>2, <3>3 DEF SuspendTypes
    <3>5. aborted' \in 0 .. MaxPlays
      BY <1>1, <3>1 DEF FileTypes
    <3>6. CASE /\ Stopping
               /\ UNCHANGED <<playing_file, current_file_handler, thread, plays,
                              second>>
      <4>1. late' \in Nat /\ stopped' \in {"no", "soon", "yes"}
        BY <3>6 DEF Stopping
      <4> QED
        BY <1>1, <2>1, <3>1, <3>2, <3>3, <3>4, <3>5, <3>6, <4>1
        DEF Types, FileTypes, HistoryTypes
    <3>7. CASE Started(FALSE) /\ plays # MaxPlays
      <4>1. /\ FileTypes' /\ second' \in BOOLEAN
            /\ late' = 0 /\ stopped' = "no"
        BY <2>1, <3>3, <3>7, StartTypes
      <4> QED
        BY <1>1, <2>1, <3>1, <3>2, <3>4, <3>5, <4>1 DEF Types, HistoryTypes
    <3> QED
      BY <1>7, <2>3, <3>6, <3>7 DEF M26
  <2> QED
    BY <1>7, <2>2, <2>3 DEF M26
<1>8. CASE Abort
  <2>1. /\ Queue(messages') /\ UNCHANGED <<plays, commands, halts>>
        /\ UNCHANGED <<blocks, halted>>
    BY <1>2, <1>8 DEF Abort
  <2>2. /\ CancelIfSuspended
        /\ UNCHANGED <<playing_file, current_file_handler, thread, buf, command,
                       asleep, executed, second>>
    BY <1>8 DEF Abort, command_vars
  <2>3. /\ suspended' \in BOOLEAN /\ was_playing_file' \in BOOLEAN
        /\ suspend_loops' \in 0 .. 2 /\ state_stack' \in Seq(Owners)
        /\ hasty' \in BOOLEAN
    BY <2>2, CancelTypes
  <2>4. \/ UNCHANGED <<abort_thread, abort_flg, late, stopped, aborted>>
        \/ /\ abort_thread' = TRUE /\ abort_flg' = TRUE /\ aborted' = plays
           /\ late' = 0 /\ stopped' = "soon"
    BY <1>8 DEF Abort, Stopping
  <2>5. abort_thread' \in BOOLEAN /\ abort_flg' \in BOOLEAN
    BY <1>1, <2>4 DEF FileTypes, SuspendTypes
  <2>6. /\ late' \in Nat /\ stopped' \in {"no", "soon", "yes"}
        /\ aborted' \in 0 .. MaxPlays
    BY <1>1, <2>4 DEF HistoryTypes, FileTypes
  <2> QED
    BY <1>1, <2>1, <2>2, <2>3, <2>5, <2>6
    DEF Types, FileTypes, SuspendTypes, HistoryTypes
<1>9. CASE G28
  <2>1. /\ Queue(messages') /\ UNCHANGED <<plays, commands, halts>>
        /\ UNCHANGED <<blocks, halted>>
    BY <1>2, <1>9 DEF G28
  <2>2. /\ CancelIfSuspended
        /\ UNCHANGED <<playing_file, current_file_handler, abort_thread,
                       abort_flg, thread, buf, command, asleep, executed, late,
                       stopped, aborted, second>>
    BY <1>9 DEF G28, command_vars, file
  <2>3. /\ suspended' \in BOOLEAN /\ was_playing_file' \in BOOLEAN
        /\ suspend_loops' \in 0 .. 2 /\ state_stack' \in Seq(Owners)
        /\ hasty' \in BOOLEAN
    BY <2>2, CancelTypes
  <2> QED
    BY <1>1, <2>1, <2>2, <2>3 DEF Types, FileTypes, SuspendTypes, HistoryTypes
<1>10. CASE M600
  <2>1. /\ Queue(messages') /\ UNCHANGED <<plays, commands, halts>>
        /\ UNCHANGED <<blocks, halted>>
    BY <1>2, <1>10 DEF M600
  <2>2. UNCHANGED <<current_file_handler, abort_thread, abort_flg, thread, buf,
                    command, asleep, executed, aborted, second, hasty,
                    state_stack>>
    BY <1>10 DEF M600, command_vars, suspension
  <2>3. \/ UNCHANGED <<playing_file, suspended, was_playing_file, suspend_loops,
                       late, stopped>>
        \/ /\ suspended' = TRUE /\ playing_file' = FALSE
           /\ was_playing_file' = playing_file /\ suspend_loops' = 2
           /\ late' = 0 /\ stopped' = "soon"
    BY <1>10 DEF M600, suspension, Stopping
  <2>4. /\ suspended' \in BOOLEAN /\ playing_file' \in BOOLEAN
        /\ was_playing_file' \in BOOLEAN
    BY <1>1, <2>3 DEF FileTypes, SuspendTypes
  <2>5. /\ suspend_loops' \in 0 .. 2 /\ late' \in Nat
        /\ stopped' \in {"no", "soon", "yes"}
    BY <1>1, <2>3 DEF SuspendTypes, HistoryTypes
  <2> QED
    BY <1>1, <2>1, <2>2, <2>4, <2>5
    DEF Types, FileTypes, SuspendTypes, HistoryTypes
<1>11. CASE M601
  <2>1. /\ Queue(messages') /\ UNCHANGED <<plays, commands, halts>>
        /\ UNCHANGED <<blocks, halted>>
    BY <1>2, <1>11 DEF M601
  <2>2. /\ command' \in {"heating", "ready"}
        /\ UNCHANGED <<playing_file, current_file_handler, abort_thread,
                       abort_flg, suspended, was_playing_file, suspend_loops,
                       state_stack, thread, buf, asleep, executed, late,
                       stopped, aborted, second>>
    BY <1>11 DEF M601, file, suspension
  <2>3. hasty' \in BOOLEAN
    BY <1>11 DEF M601
  <2> QED
    BY <1>1, <2>1, <2>2, <2>3 DEF Types, FileTypes, SuspendTypes, HistoryTypes
<1> QED
  BY <1>4, <1>5, <1>6, <1>7, <1>8, <1>9, <1>10, <1>11

\* What the command thread does with a line, when it is idle, or has waited.
LEMMA CourseTypes ==
    ASSUME Types,
           \/ ExecuteLine \/ AppendBlock \/ Sleep \/ Heated \/ Restored
           \/ Returned \/ Idle \/ Flushed \/ Suspended
    PROVE  Types'
<1>1. FileTypes /\ SuspendTypes /\ HistoryTypes /\ Queue(messages)
  BY DEF Types
<1>2. CASE ExecuteLine
  <2>1. PICK l \in Line :
          /\ Received([line |-> l])
          /\ \/ UNCHANGED <<command, asleep, blocks, executed, late>>
             \/ /\ executed' = l
                /\ late' \in {late, late + 1}
                /\ \/ /\ blocks < MaxBlocks /\ blocks' = blocks + 1
                      /\ UNCHANGED <<command, asleep>>
                   \/ /\ command' = "append" /\ asleep' = TRUE
                      /\ UNCHANGED blocks
    BY <1>2 DEF ExecuteLine, command_vars
  <2>2. UNCHANGED <<playing_file, current_file_handler, abort_thread, abort_flg,
                    suspended, was_playing_file, suspend_loops, state_stack,
                    thread, buf, halted, plays, commands, halts, stopped,
                    aborted, second, hasty>>
    BY <1>2 DEF ExecuteLine, file, suspension, counts
  <2>3. Queue(messages')
    BY <1>1, <2>1, Take
  <2>4. asleep' \in BOOLEAN
    BY <1>1, <2>1 DEF SuspendTypes
  <2>5. /\ blocks' \in 0 .. MaxBlocks /\ late' \in Nat
        /\ executed' \in Line \cup {Closed}
    BY <1>1, <2>1, Assumptions DEF SuspendTypes, HistoryTypes
  <2>6. command' \in {"ready", "append", "flush", "suspending", "heating",
                      "restoring", "returning"}
    BY <1>1, <2>1 DEF SuspendTypes
  <2> QED
    BY <1>1, <2>2, <2>3, <2>4, <2>5, <2>6
    DEF Types, FileTypes, SuspendTypes, HistoryTypes
<1>3. CASE AppendBlock
  <2>1. /\ command' = "ready" /\ asleep' = FALSE
        /\ blocks < MaxBlocks \/ halted
        /\ blocks' = IF halted THEN blocks ELSE blocks + 1
        /\ UNCHANGED <<playing_file, current_file_handler, abort_thread,
                       abort_flg, suspended, was_playing_file, suspend_loops,
                       state_stack, thread, buf, messages, halted, plays,
                       commands, halts, executed, late, stopped, aborted,
                       second, hasty>>
    BY <1>3 DEF AppendBlock, file, suspension, counts, history
  <2>2. asleep' \in BOOLEAN
    BY <2>1
  <2>3. blocks' \in 0 .. MaxBlocks
    BY <1>1, <2>1, Assumptions DEF SuspendTypes
  <2> QED
    BY <1>1, <2>1, <2>2, <2>3 DEF Types, FileTypes, SuspendTypes, HistoryTypes
<1>4. CASE Sleep
  <2>1. /\ asleep' = TRUE
        /\ UNCHANGED <<playing_file, current_file_handler, abort_thread,
                       abort_flg, suspended, was_playing_file, suspend_loops,
                       state_stack, thread, buf, messages, command, blocks,
                       halted, plays, commands, halts, executed, late, stopped,
                       aborted, second, hasty>>
    BY <1>4 DEF Sleep, file, suspension, counts, history
  <2>2. asleep' \in BOOLEAN
    BY <2>1
  <2> QED
    BY <1>1, <2>1, <2>2 DEF Types, FileTypes, SuspendTypes, HistoryTypes
<1>5. ASSUME NEW place, Waited(place)
      PROVE  /\ asleep' \in BOOLEAN
             /\ UNCHANGED <<abort_flg, thread, buf, messages, halted, plays,
                            commands, halts, executed, aborted, second>>
  <2>1. asleep' = FALSE
    BY <1>5 DEF Waited
  <2>2. asleep' \in BOOLEAN
    BY <2>1
  <2> QED
    BY <1>5, <2>2 DEF Waited, counts
<1>6. CASE Heated
  <2>1. /\ suspended' = FALSE /\ command' \in {"ready", "restoring"}
        /\ state_stack' \in {state_stack, Popped}
        /\ blocks' = blocks \/ blocks' \in blocks .. MaxBlocks
        /\ Waited("heating")
        /\ UNCHANGED <<playing_file, current_file_handler, abort_thread,
                       was_playing_file, suspend_loops, late, stopped, hasty>>
    BY <1>6 DEF Heated, file
  <2>2. suspended' \in BOOLEAN
    BY <2>1
  <2>3. state_stack' \in Seq(Owners) /\ blocks' \in 0 .. MaxBlocks
    BY <1>1, <2>1, PopType, Assumptions DEF SuspendTypes
  <2> QED
    BY <1>1, <1>5, <2>1, <2>2, <2>3
    DEF Types, FileTypes, SuspendTypes, HistoryTypes
<1>7. CASE Restored
  <2>1. /\ state_stack' = Popped /\ command' = "returning"
        /\ blocks' \in 0 .. 1 /\ Waited("restoring")
        /\ UNCHANGED <<playing_file, current_file_handler, abort_thread,
                       suspended, was_playing_file, suspend_loops, late,
                       stopped, hasty>>
    BY <1>7 DEF Restored, file
  <2>2. state_stack' \in Seq(Owners) /\ blocks' \in 0 .. MaxBlocks
    BY <1>1, <2>1, PopType, Assumptions DEF SuspendTypes
  <2> QED
    BY <1>1, <1>5, <2>1, <2>2 DEF Types, FileTypes, SuspendTypes, HistoryTypes
<1>8. CASE Returned
  <2>1. /\ command' = "ready" /\ Waited("returning")
        /\ UNCHANGED <<current_file_handler, abort_thread, suspend_loops,
                       blocks, state_stack, hasty>>
    BY <1>8 DEF Returned
  <2>2. \/ /\ suspended' = FALSE
           /\ UNCHANGED <<playing_file, was_playing_file, late, stopped>>
        \/ /\ playing_file' = (playing_file \/ was_playing_file)
           /\ was_playing_file' = FALSE
           /\ UNCHANGED suspended
           /\ \/ stopped' = "no" /\ late' = 0
              \/ UNCHANGED <<late, stopped>>
    BY <1>8 DEF Returned, Going
  <2>3. /\ playing_file' \in BOOLEAN /\ was_playing_file' \in BOOLEAN
        /\ suspended' \in BOOLEAN
    BY <1>1, <2>2 DEF FileTypes, SuspendTypes
  <2>4. late' \in Nat /\ stopped' \in {"no", "soon", "yes"}
    BY <1>1, <2>2 DEF HistoryTypes
  <2> QED
    BY <1>1, <1>5, <2>1, <2>3, <2>4
    DEF Types, FileTypes, SuspendTypes, HistoryTypes
<1>9. CASE Idle
  <2>1. /\ UNCHANGED <<playing_file, current_file_handler, abort_thread,
                       suspended, was_playing_file, state_stack, asleep,
                       thread, buf, messages, blocks, halted, plays, commands,
                       halts, executed, late, stopped, aborted, second, hasty>>
        /\ \/ /\ abort_flg' = FALSE /\ command' = "flush"
              /\ UNCHANGED suspend_loops
           \/ /\ suspend_loops > 0 /\ suspend_loops' = suspend_loops - 1
              /\ command' \in {"suspending", "ready"}
              /\ UNCHANGED abort_flg
    BY <1>9 DEF Idle, Turns, file, counts, history
  <2>2. abort_flg' \in BOOLEAN
    BY <1>1, <2>1 DEF SuspendTypes
  <2>3. suspend_loops' \in 0 .. 2
    BY <1>1, <2>1 DEF SuspendTypes
  <2> QED
    BY <1>1, <2>1, <2>2, <2>3 DEF Types, FileTypes, SuspendTypes, HistoryTypes
<1>10. CASE Flushed
  <2>1. /\ Waited("flush") /\ command' = "ready"
        /\ UNCHANGED <<playing_file, current_file_handler, abort_thread,
                       suspended, was_playing_file, suspend_loops, state_stack,
                       blocks, late, hasty>>
        /\ stopped' \in {"yes", stopped}
    BY <1>10 DEF Flushed, Complete, file, suspension
  <2> QED
    BY <1>1, <1>5, <2>1 DEF Types, FileTypes, SuspendTypes, HistoryTypes
<1>11. CASE Suspended
  <2>1. /\ Waited("suspending") /\ command' = "ready"
        /\ UNCHANGED <<playing_file, current_file_handler, abort_thread,
                       was_playing_file, suspend_loops, blocks, late, hasty>>
        /\ stopped' \in {"yes", stopped}
        /\ suspended' = FALSE \/ UNCHANGED suspended
        /\ state_stack' \in {state_stack, Append(state_stack, "suspend")}
    BY <1>11 DEF Suspended, Complete, file
  <2>2. suspended' \in BOOLEAN
    BY <1>1, <2>1 DEF SuspendTypes
  <2>3. state_stack' \in Seq(Owners)
    BY <1>1, <2>1, AppendProperties DEF SuspendTypes, Owners
  <2> QED
    BY <1>1, <1>5, <2>1, <2>2, <2>3
    DEF Types, FileTypes, SuspendTypes, HistoryTypes
<1> QED
  BY <1>2, <1>3, <1>4, <1>6, <1>7, <1>8, <1>9, <1>10, <1>11

\* What happens around them.
LEMMA AroundTypes ==
    ASSUME Types,
           \/ \E c \in Commands : Host(c)
           \/ BlockDone \/ Halt \/ Release \/ UNCHANGED vars
    PROVE  Types'
<1>1. FileTypes /\ SuspendTypes /\ HistoryTypes /\ Queue(messages)
  BY DEF Types
<1>2. ASSUME NEW c \in Commands, Host(c)
      PROVE  Types'
  <2>1. /\ UNCHANGED <<playing_file, current_file_handler, abort_thread,
                       abort_flg, suspended, was_playing_file, suspend_loops,
                       state_stack, thread, buf, command, asleep, blocks,
                       halted, plays, halts, executed, late, stopped, aborted,
                       second, hasty>>
        /\ commands < MaxCommands /\ commands' = commands + 1
        /\ Len(messages) < QueueSize
        /\ messages' = Append(messages, [cmd |-> c])
    BY <1>2 DEF Host, file, suspension, command_vars, history
  <2>2. Queue(messages')
    BY <1>1, <2>1, Put, MessageKinds
  <2>3. commands' \in 0 .. MaxCommands
    BY <1>1, <2>1, Assumptions DEF HistoryTypes
  <2> QED
    BY <1>1, <2>1, <2>2, <2>3 DEF Types, FileTypes, SuspendTypes, HistoryTypes
<1>3. CASE BlockDone
  <2>1. /\ UNCHANGED <<playing_file, current_file_handler, abort_thread,
                       abort_flg, suspended, was_playing_file, suspend_loops,
                       state_stack, thread, buf, messages, command, asleep,
                       halted, plays, commands, halts, executed, late, stopped,
                       aborted, second, hasty>>
        /\ blocks > 0 /\ blocks' = blocks - 1
    BY <1>3 DEF BlockDone, file, suspension, command_vars, counts, history
  <2>2. blocks' \in 0 .. MaxBlocks
    BY <1>1, <2>1, Assumptions DEF SuspendTypes
  <2> QED
    BY <1>1, <2>1, <2>2 DEF Types, FileTypes, SuspendTypes, HistoryTypes
<1>4. CASE Halt
  <2>1. /\ UNCHANGED <<playing_file, current_file_handler, abort_thread,
                       abort_flg, thread, buf, messages, command, asleep, plays,
                       commands, executed, late, stopped, aborted, second>>
        /\ halted' = TRUE /\ halts < MaxHalts /\ halts' = halts + 1
        /\ blocks' = 0
    BY <1>4 DEF Halt, file, command_vars
  <2>2. CASE suspended
    <3>1. CancelIfSuspended
      BY <1>4, <2>2 DEF Halt, CancelIfSuspended
    <3>2. /\ suspended' \in BOOLEAN /\ was_playing_file' \in BOOLEAN
          /\ suspend_loops' \in 0 .. 2 /\ state_stack' \in Seq(Owners)
          /\ hasty' \in BOOLEAN
      BY <3>1, CancelTypes
    <3>3. halted' \in BOOLEAN
      BY <2>1
    <3>4. blocks' \in 0 .. MaxBlocks /\ halts' \in 0 .. MaxHalts
      BY <1>1, <2>1, Assumptions DEF HistoryTypes
    <3> QED
      BY <1>1, <2>1, <3>2, <3>3, <3>4
      DEF Types, FileTypes, SuspendTypes, HistoryTypes
  <2>3. CASE ~suspended
    <3>1. /\ hasty' = (hasty \/ command # "ready")
          /\ UNCHANGED <<suspended, was_playing_file, suspend_loops, state_stack>>
      BY <1>4, <2>3 DEF Halt, suspension
    <3>2. hasty' \in BOOLEAN /\ halted' \in BOOLEAN
      BY <2>1, <3>1
    <3>3. blocks' \in 0 .. MaxBlocks /\ halts' \in 0 .. MaxHalts
      BY <1>1, <2>1, Assumptions DEF HistoryTypes
    <3> QED
      BY <1>1, <2>1, <3>1, <3>2, <3>3
      DEF Types, FileTypes, SuspendTypes, HistoryTypes
  <2> QED
    BY <2>2, <2>3
<1>5. CASE Release
  <2>1. /\ UNCHANGED <<playing_file, current_file_handler, abort_thread,
                       abort_flg, suspended, was_playing_file, suspend_loops,
                       state_stack, thread, buf, messages, command, asleep,
                       blocks, plays, commands, halts, executed, late, stopped,
                       aborted, second, hasty>>
        /\ halted' = FALSE
    BY <1>5 DEF Release, file, suspension, command_vars, counts, history
  <2>2. halted' \in BOOLEAN
    BY <2>1
  <2> QED
    BY <1>1, <2>1, <2>2 DEF Types, FileTypes, SuspendTypes, HistoryTypes
<1>6. CASE UNCHANGED vars
  BY <1>1, <1>6
  DEF Types, FileTypes, SuspendTypes, HistoryTypes, vars, file, suspension,
      command_vars, counts, history
<1> QED
  BY <1>2, <1>3, <1>4, <1>5, <1>6

LEMMA StepTypes ==
    ASSUME Types, [Next]_vars
    PROVE  Types'
<1>1. "G28" \in Commands
  BY DEF Commands
<1>2. CASE CommandThread
  BY <1>1, <1>2, CommandTypes, CourseTypes DEF CommandThread
<1> QED
  BY <1>2, PlayTypes, AroundTypes DEF Next

-----------------------------------------------------------------------------
(***************************************************************************)
(* The stack of states.                                                    *)
(***************************************************************************)

LEMMA Stacks ==
    /\ state_stack = Full => Popped = Bare
    /\ state_stack = Bare => Append(state_stack, "suspend") = Full
<1>1. /\ Bare \in Seq(Owners) /\ Len(Bare) = 1 /\ Bare[1] = "host"
      /\ Full \in Seq(Owners) /\ Len(Full) = 2
      /\ Full[1] = "host" /\ Full[2] = "suspend" /\ "suspend" \in Owners
  BY DEF Bare, Full, Owners
<1>2. SubSeq(Full, 1, 1) = Bare
  <2>1. 1 \in 1 .. Len(Full) + 1 /\ 1 \in 1 - 1 .. Len(Full)
    BY <1>1
  <2>2. /\ SubSeq(Full, 1, 1) \in Seq(Owners)
        /\ Len(SubSeq(Full, 1, 1)) = 1 /\ SubSeq(Full, 1, 1)[1] = "host"
    BY <1>1, <2>1, SubSeqProperties
  <2>3. \A i \in 1 .. 1 : SubSeq(Full, 1, 1)[i] = Bare[i]
    BY <1>1, <2>2
  <2> QED
    BY <1>1, <2>2, <2>3, SeqEqual
<1>3. Append(Bare, "suspend") = Full
  <2>1. /\ Append(Bare, "suspend") \in Seq(Owners)
        /\ Len(Append(Bare, "suspend")) = 2
        /\ Append(Bare, "suspend")[1] = "host"
        /\ Append(Bare, "suspend")[2] = "suspend"
    <3> DEFINE a == Append(Bare, "suspend")
    <3>1. /\ a \in Seq(Owners) /\ Len(a) = Len(Bare) + 1
          /\ \A i \in 1 .. Len(Bare) : a[i] = Bare[i]
          /\ a[Len(Bare) + 1] = "suspend"
      <4>1. ASSUME NEW s \in Seq(Owners), NEW o \in Owners
            PROVE  /\ Append(s, o) \in Seq(Owners)
                   /\ Len(Append(s, o)) = Len(s) + 1
                   /\ \A i \in 1 .. Len(s) : Append(s, o)[i] = s[i]
                   /\ Append(s, o)[Len(s) + 1] = o
        BY AppendProperties
      <4> QED
        BY ONLY <1>1, <4>1 DEF a
    <3> HIDE DEF a
    <3>2. Len(a) = 2 /\ a[1] = "host" /\ a[2] = "suspend"
      BY <1>1, <3>1
    <3> QED
      BY <3>1, <3>2 DEF a
  <2>2. \A i \in 1 .. 2 : Append(Bare, "suspend")[i] = Full[i]
    BY <1>1, <2>1
  <2> QED
    BY <1>1, <2>1, <2>2, SeqEqual
<1>4. state_stack = Full => Popped = SubSeq(Full, 1, 1)
  BY <1>1 DEF Popped
<1> QED
  BY <1>2, <1>3, <1>4

\* A suspend that is cancelled when it is complete leaves the host's state.
LEMMA CancelStack ==
    ASSUME Types, StackInv, Cancel, suspended, UNCHANGED command, ~hasty'
    PROVE  ~hasty /\ command = "ready" /\ state_stack' = Bare /\ ~suspended'
<1>1. /\ suspended' = FALSE /\ state_stack' = Popped
      /\ hasty' = (hasty \/ Incomplete)
  BY DEF Cancel
<1>2. ~hasty /\ ~(suspend_loops > 0) /\ command = "ready"
  BY <1>1 DEF Incomplete
<1>3. suspend_loops = 0
  BY <1>2 DEF Types, SuspendTypes
<1>4. state_stack = Full
  BY <1>2, <1>3 DEF StackInv, Saved
<1> QED
  BY <1>1, <1>2, <1>4, Stacks

\* Every step keeps the stack.
LEMMA StepStack ==
    ASSUME Types, StackInv, [Next]_vars
    PROVE  StackInv'
<1> SUFFICES ASSUME ~hasty'
             PROVE  StackInv'
  BY DEF StackInv
<1>1. suspend_loops \in 0 .. 2 /\ suspended \in BOOLEAN
  BY DEF Types, SuspendTypes
<1>2. ASSUME UNCHANGED <<state_stack, command, suspended, suspend_loops, hasty>>
      PROVE  StackInv'
  BY <1>2 DEF StackInv, Saved
<1>3. ASSUME CancelIfSuspended, command = "ready", UNCHANGED command
      PROVE  StackInv'
  <2>1. CASE suspended
    <3>1. ~hasty /\ state_stack' = Bare /\ ~suspended' /\ command' = "ready"
      BY <1>3, <2>1, CancelStack DEF CancelIfSuspended
    <3> QED
      BY <3>1 DEF StackInv, Saved
  <2>2. CASE ~suspended
    BY <1>2, <1>3, <2>2 DEF CancelIfSuspended, suspension
  <2> QED
    BY <2>1, <2>2
<1>4. ASSUME NEW t \in Threads, PlayThread(t)
      PROVE  StackInv'
  BY <1>2, <1>4
  DEF PlayThread, Fgets, Test, Room, Send, End, Close, suspension,
      command_vars, history
<1>5. ASSUME NEW c \in Commands, Host(c)
      PROVE  StackInv'
  BY <1>2, <1>5 DEF Host, suspension, command_vars, history
<1>6. CASE BlockDone \/ Release \/ UNCHANGED vars
  BY <1>2, <1>6
  DEF BlockDone, Release, vars, suspension, command_vars, history
<1>7. CASE Halt
  <2>1. UNCHANGED command
    BY <1>7 DEF Halt, command_vars
  <2>2. CASE suspended
    <3>1. Cancel
      BY <1>7, <2>2 DEF Halt
    <3>2. ~hasty /\ command' = "ready" /\ state_stack' = Bare /\ ~suspended'
      BY <2>1, <2>2, <3>1, CancelStack
    <3> QED
      BY <3>2 DEF StackInv, Saved
  <2>3. CASE ~suspended
    <3>1. /\ hasty' = (hasty \/ command # "ready")
          /\ UNCHANGED <<state_stack, suspended, suspend_loops>>
      BY <1>7, <2>3 DEF Halt, suspension
    <3>2. ~hasty
      BY <3>1
    <3> QED
      BY <2>1, <3>1, <3>2 DEF StackInv, Saved
  <2> QED
    BY <2>2, <2>3
<1>8. ASSUME NEW c, Play(c)
      PROVE  StackInv'
  BY <1>2, <1>8 DEF Play, suspension, command_vars, history
<1>9. CASE M24 \/ M25 \/ Sleep
  BY <1>2, <1>9 DEF M24, M25, Sleep, suspension, command_vars, history
<1>10. CASE M26
  <2>1. command = "ready" /\ UNCHANGED command
    BY <1>10 DEF M26, Received, command_vars
  <2>2. CASE current_file_handler = Closed
    BY <1>2, <1>10, <2>1, <2>2 DEF M26, suspension, history
  <2>3. CASE current_file_handler # Closed
    BY <1>3, <1>10, <2>1, <2>3 DEF M26
  <2> QED
    BY <2>2, <2>3
<1>11. CASE Abort \/ G28
  BY <1>3, <1>11 DEF Abort, G28, Receives, Received, command_vars
<1>12. CASE M600
  <2>1. /\ command = "ready" /\ UNCHANGED <<command, state_stack, hasty>>
        /\ IF suspended THEN UNCHANGED <<suspended, suspend_loops>>
           ELSE suspended' = TRUE /\ suspend_loops' = 2
    BY <1>12 DEF M600, Receives, Received, command_vars, suspension
  <2> QED
    BY <2>1 DEF StackInv, Saved
<1>13. CASE M601
  <2>1. /\ command = "ready"
        /\ command' = IF suspended THEN "heating" ELSE "ready"
        /\ hasty' = (hasty \/ (suspended /\ Incomplete))
        /\ UNCHANGED <<state_stack, suspended, suspend_loops>>
    BY <1>13 DEF M601, Receives, Received, suspension
  <2>2. ~hasty /\ (suspended => suspend_loops = 0)
    <3>1. ~hasty /\ (suspended => ~(suspend_loops > 0))
      BY <2>1 DEF Incomplete
    <3> QED
      BY <1>1, <3>1
  <2> QED
    BY <2>1, <2>2 DEF StackInv, Saved
<1>14. CASE ExecuteLine
  <2>1. /\ command = "ready" /\ command' \in {"ready", "append"}
        /\ UNCHANGED <<state_stack, suspended, suspend_loops, hasty>>
    BY <1>14 DEF ExecuteLine, Received, command_vars, suspension
  <2> QED
    BY <2>1 DEF StackInv, Saved
<1>15. CASE AppendBlock
  <2>1. /\ command = "append" /\ command' = "ready"
        /\ UNCHANGED <<state_stack, suspended, suspend_loops, hasty>>
    BY <1>15 DEF AppendBlock, suspension, history
  <2> QED
    BY <2>1 DEF StackInv, Saved
<1>16. CASE Heated
  <2>1. /\ command = "heating" /\ suspended' = FALSE
        /\ IF halted THEN /\ state_stack' = IF suspended THEN Popped
                                                         ELSE state_stack
                          /\ command' = "ready"
                     ELSE command' = "restoring" /\ UNCHANGED state_stack
        /\ UNCHANGED hasty
    BY <1>16 DEF Heated, Waited
  <2>2. suspended /\ state_stack = Full
    BY <2>1 DEF StackInv, Saved
  <2> QED
    BY <2>1, <2>2, Stacks DEF StackInv, Saved
<1>17. CASE Restored
  <2>1. /\ command = "restoring" /\ command' = "returning"
        /\ state_stack' = Popped /\ UNCHANGED <<suspended, hasty>>
    BY <1>17 DEF Restored, Waited
  <2>2. ~suspended /\ state_stack = Full
    BY <2>1 DEF StackInv, Saved
  <2> QED
    BY <2>1, <2>2, Stacks DEF StackInv, Saved
<1>18. CASE Returned
  <2>1. /\ command = "returning" /\ command' = "ready"
        /\ suspended' = FALSE \/ UNCHANGED suspended
        /\ UNCHANGED <<state_stack, hasty>>
    BY <1>18 DEF Returned, Waited
  <2>2. ~suspended /\ state_stack = Bare
    BY <2>1 DEF StackInv, Saved
  <2> QED
    BY <2>1, <2>2 DEF StackInv, Saved
<1>19. CASE Idle
  <2>1. /\ command = "ready" /\ UNCHANGED <<state_stack, suspended, hasty>>
        /\ \/ command' = "flush" /\ UNCHANGED suspend_loops
           \/ /\ suspended /\ suspend_loops > 0
              /\ suspend_loops' = suspend_loops - 1
              /\ command' = IF suspend_loops' = 0 THEN "suspending"
                                                  ELSE "ready"
    BY <1>19 DEF Idle, TimedOut, Turns, history
  <2>2. CASE command' = "flush" /\ UNCHANGED suspend_loops
    BY <2>1, <2>2 DEF StackInv, Saved
  <2>3. CASE /\ suspended /\ suspend_loops > 0
             /\ command' = IF suspend_loops' = 0 THEN "suspending" ELSE "ready"
    <3>1. suspend_loops # 0 /\ state_stack = Bare
      BY <2>1, <2>3 DEF StackInv, Saved
    <3> QED
      BY <2>1, <2>3, <3>1 DEF StackInv, Saved
  <2> QED
    BY <2>1, <2>2, <2>3
<1>20. CASE Flushed
  <2>1. /\ command = "flush" /\ command' = "ready"
        /\ UNCHANGED <<state_stack, suspended, suspend_loops, hasty>>
    BY <1>20 DEF Flushed, Waited, suspension
  <2> QED
    BY <2>1 DEF StackInv, Saved
<1>21. CASE Suspended
  <2>1. /\ command = "suspending" /\ command' = "ready"
        /\ IF halted THEN suspended' = FALSE /\ UNCHANGED state_stack
           ELSE /\ state_stack' = Append(state_stack, "suspend")
                /\ UNCHANGED suspended
        /\ UNCHANGED <<suspend_loops, hasty>>
    BY <1>21 DEF Suspended, Waited
  <2>2. suspended /\ suspend_loops = 0 /\ state_stack = Bare
    BY <2>1 DEF StackInv, Saved
  <2> QED
    BY <2>1, <2>2, Stacks DEF StackInv, Saved
<1> QED
  BY <1>4, <1>5, <1>6, <1>7, <1>8, <1>9, <1>10, <1>11, <1>12, <1>13, <1>14,
     <1>15, <1>16, <1>17, <1>18, <1>19, <1>20, <1>21
  DEF Next, CommandThread

-----------------------------------------------------------------------------
(***************************************************************************)
(* The lines under way.                                                    *)
(***************************************************************************)

\* Taking a message leaves no more lines in the queue ...
LEMMA TakeLines ==
    ASSUME Queue(messages), NEW m, Received(m)
    PROVE  /\ NoLine(messages) => NoLine(messages')
           /\ AtMostOneLine(messages) => AtMostOneLine(messages')
           /\ IsLine(m) => ~NoLine(messages)
           /\ IsLine(m) /\ AtMostOneLine(messages) => NoLine(messages')
<1>1. /\ 1 \in DOMAIN messages /\ messages[1] = m
      /\ \A i \in DOMAIN messages' :
            /\ i \in Nat \ {0} /\ i + 1 \in DOMAIN messages
            /\ messages'[i] = messages[i + 1]
  BY Take
<1>2. NoLine(messages) => NoLine(messages')
  BY <1>1 DEF NoLine
<1>3. IsLine(m) => ~NoLine(messages)
  BY <1>1 DEF NoLine
<1>4. ASSUME AtMostOneLine(messages),
             NEW i \in DOMAIN messages', NEW j \in DOMAIN messages',
             IsLine(messages'[i]), IsLine(messages'[j])
      PROVE  i = j /\ ~IsLine(m)
  <2>1. /\ i \in Nat \ {0} /\ j \in Nat \ {0}
        /\ i + 1 \in DOMAIN messages /\ j + 1 \in DOMAIN messages
        /\ IsLine(messages[i + 1]) /\ IsLine(messages[j + 1])
    BY <1>1, <1>4
  <2>2. i + 1 = j + 1
    BY <1>4, <2>1 DEF AtMostOneLine
  <2>3. IsLine(m) => 1 = i + 1
    BY <1>1, <1>4, <2>1 DEF AtMostOneLine
  <2> QED
    BY <2>1, <2>2, <2>3
<1> QED
  BY <1>2, <1>3, <1>4 DEF AtMostOneLine, NoLine

\* ... and a message that is put there adds itself.
LEMMA PutLines ==
    ASSUME Queue(messages), NEW m \in Message, Len(messages) < QueueSize,
           messages' = Append(messages, m)
    PROVE  /\ ~IsLine(m) /\ NoLine(messages) => NoLine(messages')
           /\ ~IsLine(m) /\ AtMostOneLine(messages) => AtMostOneLine(messages')
           /\ NoLine(messages) => AtMostOneLine(messages')
<1>1. /\ messages \in Seq(Message) /\ messages' \in Seq(Message)
      /\ Len(messages') = Len(messages) + 1 /\ Len(messages) \in Nat
      /\ \A i \in 1 .. Len(messages) : messages'[i] = messages[i]
      /\ messages'[Len(messages) + 1] = m
  BY AppendProperties DEF Queue
<1>2. /\ DOMAIN messages = 1 .. Len(messages)
      /\ \A i \in DOMAIN messages' :
            i \in DOMAIN messages \/ i = Len(messages) + 1
  BY <1>1
<1>3. ~IsLine(m) => \A i \in DOMAIN messages' : IsLine(messages'[i]) =>
                       i \in DOMAIN messages /\ IsLine(messages[i])
  BY <1>1, <1>2
<1>4. ~IsLine(m) /\ NoLine(messages) => NoLine(messages')
  BY <1>3 DEF NoLine
<1>5. ~IsLine(m) /\ AtMostOneLine(messages) => AtMostOneLine(messages')
  BY <1>3 DEF AtMostOneLine
<1>6. ASSUME NoLine(messages)
      PROVE  AtMostOneLine(messages')
  <2>1. \A i \in DOMAIN messages' :
           IsLine(messages'[i]) => i = Len(messages) + 1
    BY <1>1, <1>2, <1>6 DEF NoLine
  <2> QED
    BY <2>1 DEF AtMostOneLine
<1> QED
  BY <1>4, <1>5, <1>6

\* A step that moves no play task, and lets none pass its test.
LEMMA Quiet ==
    ASSUME StopInv,
           UNCHANGED <<thread, current_file_handler, stopped, late, second>>,
           playing_file' => playing_file, abort_thread => abort_thread',
           NoLine(messages) => NoLine(messages'),
           AtMostOneLine(messages) => AtMostOneLine(messages'),
           stopped = "soon" /\ command' \in {"flush", "suspending"} =>
              command' = command \/ OneUnderWay
    PROVE  StopInv'
<1> SUFFICES ASSUME ~second'
             PROVE  Alone' /\ Guarded' /\ LateInv' /\ EndInv'
  BY DEF StopInv
<1>1. Alone /\ Guarded /\ LateInv /\ EndInv
  BY DEF StopInv
<1>2. /\ OneUnderWay => OneUnderWay'
      /\ NoneUnderWay => NoneUnderWay'
  BY DEF OneUnderWay, NoneUnderWay, Tested
<1>3. Alone'
  BY <1>1 DEF Alone
<1>4. Guarded'
  BY <1>1 DEF Guarded
<1>5. LateInv'
  BY <1>1, <1>2 DEF LateInv
<1>6. EndInv'
  BY <1>1, <1>2 DEF EndInv
<1> QED
  BY <1>3, <1>4, <1>5, <1>6

\* The play goes on, or is to stop.
LEMMA Told ==
    ASSUME StopInv, UNCHANGED <<thread, current_file_handler, second>>,
           late' = 0,
           \/ stopped' = "no"
           \/ /\ stopped' = "soon" /\ (~playing_file' \/ abort_thread')
              /\ command' \notin {"flush", "suspending"}
    PROVE  StopInv'
<1> SUFFICES ASSUME ~second'
             PROVE  Alone' /\ Guarded' /\ LateInv' /\ EndInv'
  BY DEF StopInv
<1>1. Alone /\ Guarded
  BY DEF StopInv
<1>2. Alone'
  BY <1>1 DEF Alone
<1>3. Guarded'
  BY <1>1 DEF Guarded
<1>4. LateInv' /\ EndInv'
  BY DEF LateInv, EndInv
<1> QED
  BY <1>2, <1>3, <1>4

\* Another play begins.
LEMMA Begun ==
    ASSUME Types, StopInv, NEW p \in BOOLEAN, Started(p)
    PROVE  StopInv'
<1> DEFINE t == CHOOSE u \in Threads : thread[u] = "none"
<1>1. /\ current_file_handler' = [file |-> plays + 1, n |-> 1]
      /\ thread' = [thread EXCEPT ![t] = "fgets"]
      /\ second' = (second \/ \E u \in Threads : thread[u] # "none")
      /\ late' = 0 /\ stopped' = "no"
  BY DEF Started, Go, Going
<1> HIDE DEF t
<1> SUFFICES ASSUME ~second'
             PROVE  Alone' /\ Guarded' /\ LateInv' /\ EndInv'
  BY DEF StopInv
<1>2. \A u \in Threads : thread[u] = "none"
  BY <1>1
<1>3. \A u \in Threads :
         /\ thread'[u] \in {"none", "fgets"}
         /\ thread'[u] = "fgets" => u = t
  BY <1>1, <1>2 DEF Types, FileTypes
<1>4. Alone'
  BY <1>3 DEF Alone
<1>5. current_file_handler' # Closed
  <2>1. current_file_handler'.n = 1
    BY <1>1
  <2> QED
    BY <2>1, LineFields
<1>6. Guarded'
  BY <1>1, <1>3, <1>5 DEF Guarded
<1>7. LateInv' /\ EndInv'
  BY <1>1 DEF LateInv, EndInv
<1> QED
  BY <1>4, <1>6, <1>7

\* A play task takes a step.
LEMMA PlayStop ==
    ASSUME Types, StopInv, NEW t \in Threads, PlayThread(t)
    PROVE  StopInv'
<1>1. /\ UNCHANGED <<stopped, late, second, command>> /\ Queue(messages)
      /\ thread[t] # "none"
      /\ \E place : thread' = [thread EXCEPT ![t] = place]
  BY DEF PlayThread, Fgets, Test, Room, Send, End, Close, history, command_vars,
         At, Go, Types
<1> SUFFICES ASSUME ~second'
             PROVE  Alone' /\ Guarded' /\ LateInv' /\ EndInv'
  BY DEF StopInv
<1>2. Alone /\ Guarded /\ LateInv /\ EndInv
  BY <1>1 DEF StopInv
<1>3. /\ \A u \in Threads : u # t => thread[u] = "none" /\ thread'[u] = "none"
      /\ thread \in [Threads -> {"none", "fgets", "test", "room", "send",
                                 "end", "close", "fault"}]
  BY <1>1, <1>2 DEF Alone, Types, FileTypes
<1>4. Alone'
  BY <1>3 DEF Alone
<1>5. ASSUME thread'[t] # "fault",
             thread'[t] # "none" => current_file_handler' # Closed,
             stopped # "no" /\ playing_file' /\ ~abort_thread' =>
                thread'[t] \in {"none", "end", "close"}
      PROVE  Guarded'
  BY <1>1, <1>3, <1>5 DEF Guarded
<1>6. ASSUME UNCHANGED messages, Tested(t)' => Tested(t)
      PROVE  LateInv' /\ EndInv'
  <2>1. /\ OneUnderWay => OneUnderWay'
        /\ NoneUnderWay => NoneUnderWay'
    BY <1>3, <1>6 DEF OneUnderWay, NoneUnderWay, Tested
  <2> QED
    BY <1>1, <1>2, <2>1 DEF LateInv, EndInv
<1>7. /\ current_file_handler # Closed
      /\ stopped # "no" /\ playing_file /\ ~abort_thread =>
            thread[t] \in {"none", "end", "close"}
  BY <1>1, <1>2 DEF Guarded
<1>8. current_file_handler # Closed =>
         [current_file_handler EXCEPT !.n = @ + 1] # Closed
  <2>1. ASSUME current_file_handler # Closed
        PROVE  [current_file_handler EXCEPT !.n = @ + 1].file # 0
    <3>1. /\ current_file_handler \in
                [file : 1 .. MaxPlays, n : 1 .. FileLength + 1]
      BY <2>1 DEF Types, FileTypes
    <3> QED
      BY <3>1, Assumptions
  <2> QED
    BY <2>1, LineFields
<1>9. CASE Fgets(t)
  <2>1. /\ thread[t] = "fgets" /\ UNCHANGED <<playing_file, abort_thread, messages>>
        /\ \/ thread'[t] = "end" /\ UNCHANGED current_file_handler
           \/ /\ thread'[t] = "test"
              /\ current_file_handler' =
                    [current_file_handler EXCEPT !.n = @ + 1]
    BY <1>3, <1>7, <1>9 DEF Fgets, At, Go
  <2>2. Guarded'
    BY <1>5, <1>7, <1>8, <2>1
  <2>3. ~Tested(t)'
    BY <2>1 DEF Tested
  <2> QED
    BY <1>4, <1>6, <2>1, <2>2, <2>3
<1>10. CASE Test(t)
  <2>1. thread[t] = "test" /\ UNCHANGED <<current_file_handler, messages>>
    BY <1>10 DEF Test, At
  <2>2. CASE thread'[t] = "end"
    <3>1. Guarded'
      BY <1>5, <1>7, <2>1, <2>2
    <3>2. ~Tested(t)'
      BY <2>2 DEF Tested
    <3> QED
      BY <1>4, <1>6, <2>1, <3>1, <3>2
  <2>3. CASE /\ thread'[t] = "room" /\ UNCHANGED <<playing_file, abort_thread>>
             /\ ~abort_thread /\ ~halted /\ ~Paused
    <3>1. playing_file
      BY <2>3 DEF Paused
    <3>2. stopped = "no"
      BY <1>7, <2>1, <2>3, <3>1
    <3>3. Guarded'
      BY <1>5, <1>7, <2>1, <2>3, <3>2
    <3>4. LateInv' /\ EndInv'
      BY <1>1, <1>2, <3>2 DEF LateInv, EndInv
    <3> QED
      BY <1>4, <3>3, <3>4
  <2> QED
    BY <1>3, <1>10, <2>2, <2>3 DEF Test, Go
<1>11. CASE Room(t)
  <2>1. /\ thread[t] = "room" /\ thread'[t] = "send"
        /\ UNCHANGED <<current_file_handler, playing_file, abort_thread, messages>>
    BY <1>3, <1>11 DEF Room, At, Go, file
  <2>2. Guarded'
    BY <1>5, <1>7, <2>1
  <2>3. Tested(t)
    BY <2>1 DEF Tested
  <2> QED
    BY <1>4, <1>6, <2>1, <2>2, <2>3
<1>12. CASE Send(t)
  <2>1. /\ thread[t] = "send" /\ thread'[t] = "fgets"
        /\ UNCHANGED <<current_file_handler, playing_file, abort_thread>>
        /\ Len(messages) < QueueSize
        /\ messages' = Append(messages, [line |-> buf[t]])
    BY <1>3, <1>12 DEF Send, At, Go, file
  <2>2. Guarded'
    BY <1>5, <1>7, <2>1
  <2>3. Tested(t) /\ \A u \in Threads : ~Tested(u)'
    BY <1>3, <2>1 DEF Tested
  <2>4. [line |-> buf[t]] \in Message
    BY <2>1, MessageKinds DEF Types, FileTypes
  <2>5. OneUnderWay => OneUnderWay'
    <3>1. ASSUME NoLine(messages)
          PROVE  AtMostOneLine(messages')
      BY <1>1, <2>1, <2>4, <3>1, PutLines
    <3> QED
      BY <2>3, <3>1 DEF OneUnderWay
  <2>6. ~NoneUnderWay
    BY <2>3 DEF NoneUnderWay
  <2>7. LateInv' /\ EndInv'
    BY <1>1, <1>2, <2>5, <2>6 DEF LateInv, EndInv
  <2> QED
    BY <1>4, <2>2, <2>7
<1>13. CASE End(t)
  <2>1. /\ thread[t] = "end" /\ thread'[t] = "close" /\ playing_file' = FALSE
        /\ UNCHANGED <<current_file_handler, messages>>
    BY <1>3, <1>13 DEF End, At, Go
  <2>2. Guarded'
    BY <1>5, <1>7, <2>1
  <2>3. ~Tested(t)'
    BY <2>1 DEF Tested
  <2> QED
    BY <1>4, <1>6, <2>1, <2>2, <2>3
<1>14. CASE Close(t)
  <2>1. thread'[t] = "none" /\ UNCHANGED messages
    BY <1>3, <1>14 DEF Close, Go
  <2>2. Guarded'
    BY <1>5, <2>1
  <2>3. ~Tested(t)'
    BY <2>1 DEF Tested
  <2> QED
    BY <1>4, <1>6, <2>1, <2>2, <2>3
<1> QED
  BY <1>9, <1>10, <1>11, <1>12, <1>13, <1>14 DEF PlayThread

\* Every step keeps what a stop needs.
LEMMA StepStop ==
    ASSUME Types, StopInv, [Next]_vars
    PROVE  StopInv'
<1>1. Queue(messages) /\ playing_file \in BOOLEAN
  BY DEF Types, FileTypes
<1>2. ASSUME UNCHANGED <<playing_file, current_file_handler, abort_thread,
                         thread, messages, stopped, late, second>>,
             command' \in {"flush", "suspending"} => command' = command
      PROVE  StopInv'
  BY <1>2, Quiet
<1>3. ASSUME NEW d, Received([cmd |-> d]),
             UNCHANGED <<thread, current_file_handler, stopped, late, second>>,
             playing_file' => playing_file, abort_thread => abort_thread',
             command' \notin {"flush", "suspending"}
      PROVE  StopInv'
  BY <1>1, <1>3, Quiet, TakeLines
<1>4. ASSUME NEW c, Play(c)
      PROVE  StopInv'
  <2>1. /\ Received([cmd |-> c]) /\ command = "ready" /\ command' = command
        /\ UNCHANGED abort_thread
    BY <1>4 DEF Play, Received, command_vars
  <2>2. CASE UNCHANGED <<playing_file, current_file_handler, thread, plays,
                         history>>
    BY <1>3, <2>1, <2>2 DEF history
  <2>3. CASE Started(c = "play -p")
    <3>1. (c = "play -p") \in BOOLEAN
      OBVIOUS
    <3> QED
      BY <2>3, <3>1, Begun
  <2> QED
    BY <1>4, <2>2, <2>3 DEF Play
<1>5. ASSUME NEW d, Receives(d)
      PROVE  Received([cmd |-> d]) /\ command = "ready"
  BY <1>5 DEF Receives, Received
<1>6. CASE M24
  <2>1. /\ Received([cmd |-> "M24"]) /\ command = "ready" /\ command' = command
        /\ UNCHANGED <<current_file_handler, abort_thread, thread, second>>
    BY <1>5, <1>6 DEF M24, command_vars
  <2>2. CASE UNCHANGED <<playing_file, stopped, late>>
    BY <1>3, <2>1, <2>2
  <2>3. CASE Going
    BY <2>1, <2>3, Told DEF Going
  <2> QED
    BY <1>6, <2>2, <2>3 DEF M24
<1>7. CASE M25
  <2>1. /\ Received([cmd |-> "M25"]) /\ command = "ready" /\ command' = command
        /\ UNCHANGED <<current_file_handler, abort_thread, thread, stopped,
                       late, second>>
        /\ playing_file' = FALSE
    BY <1>5, <1>7 DEF M25, command_vars, history
  <2> QED
    BY <1>3, <2>1
<1>8. CASE M26
  <2>1. /\ Received([cmd |-> "M26"]) /\ command = "ready" /\ command' = command
    BY <1>8 DEF M26, Received, command_vars
  <2>2. CASE UNCHANGED <<file, abort_flg, suspension, thread, plays, history>>
    BY <1>3, <2>1, <2>2 DEF file, history
  <2>3. CASE /\ abort_thread' = TRUE /\ Stopping
             /\ UNCHANGED <<playing_file, current_file_handler, thread, plays,
                            second>>
    BY <2>1, <2>3, Told DEF Stopping
  <2>4. CASE Started(FALSE)
    BY <2>4, Begun
  <2> QED
    BY <1>8, <2>2, <2>3, <2>4 DEF M26
<1>9. CASE Abort
  <2>1. /\ Received([cmd |-> "abort"]) /\ command = "ready" /\ command' = command
        /\ UNCHANGED <<playing_file, current_file_handler, thread, second>>
    BY <1>5, <1>9 DEF Abort, command_vars
  <2>2. CASE UNCHANGED <<abort_thread, abort_flg, late, stopped, aborted>>
    BY <1>3, <2>1, <2>2
  <2>3. CASE abort_thread' = TRUE /\ Stopping
    BY <2>1, <2>3, Told DEF Stopping
  <2> QED
    BY <1>9, <2>2, <2>3 DEF Abort
<1>10. CASE G28
  <2>1. /\ Received([cmd |-> "G28"]) /\ command = "ready" /\ command' = command
        /\ UNCHANGED <<playing_file, current_file_handler, abort_thread, thread,
                       stopped, late, second>>
    BY <1>5, <1>10 DEF G28, command_vars, file
  <2> QED
    BY <1>3, <2>1
<1>11. CASE M600
  <2>1. /\ Received([cmd |-> "M600"]) /\ command = "ready" /\ command' = command
        /\ UNCHANGED <<current_file_handler, abort_thread, thread, second>>
    BY <1>5, <1>11 DEF M600, command_vars
  <2>2. CASE UNCHANGED <<playing_file, late, stopped>>
    BY <1>3, <2>1, <2>2
  <2>3. CASE playing_file' = FALSE /\ Stopping
    BY <2>1, <2>3, Told DEF Stopping
  <2> QED
    BY <1>11, <2>2, <2>3 DEF M600
<1>12. CASE M601
  <2>1. /\ Received([cmd |-> "M601"]) /\ command' \in {"heating", "ready"}
        /\ UNCHANGED <<playing_file, current_file_handler, abort_thread, thread,
                       stopped, late, second>>
    BY <1>5, <1>12 DEF M601, file
  <2> QED
    BY <1>3, <2>1
<1>13. CASE ExecuteLine
  <2>1. PICK l \in Line :
          /\ Received([line |-> l])
          /\ \/ UNCHANGED <<command, late>>
             \/ /\ late' = IF stopped = "yes" THEN late + 1 ELSE late
                /\ UNCHANGED command \/ command' = "append"
    BY <1>13 DEF ExecuteLine, command_vars
  <2>2. /\ UNCHANGED <<playing_file, current_file_handler, abort_thread, thread,
                       stopped, second>>
        /\ command = "ready" /\ IsLine([line |-> l])
    BY <1>13, <2>1, MessageKinds DEF ExecuteLine, file, Received
  <2>3. CASE UNCHANGED late
    BY <1>1, <2>1, <2>2, <2>3, Quiet, TakeLines
  <2>4. CASE late' # late
    <3> SUFFICES ASSUME ~second'
                 PROVE  Alone' /\ Guarded' /\ LateInv' /\ EndInv'
      BY DEF StopInv
    <3>1. /\ Alone /\ Guarded /\ LateInv
          /\ stopped = "yes" /\ late' = late + 1
      BY <2>1, <2>2, <2>4 DEF StopInv
    <3>2. ~NoneUnderWay
      BY <1>1, <2>1, <2>2, TakeLines DEF NoneUnderWay
    <3>3. late = 0 /\ OneUnderWay
      BY <3>1, <3>2 DEF LateInv
    <3>4. ~NoLine(messages) /\ NoLine(messages')
      BY <1>1, <2>1, <2>2, <3>3, TakeLines DEF OneUnderWay
    <3>5. NoneUnderWay'
      BY <2>2, <3>3, <3>4 DEF NoneUnderWay, OneUnderWay, Tested
    <3>6. LateInv' /\ EndInv'
      BY <2>2, <3>1, <3>3, <3>5 DEF LateInv, EndInv
    <3>7. Alone' /\ Guarded'
      BY <2>2, <3>1 DEF Alone, Guarded
    <3> QED
      BY <3>6, <3>7
  <2> QED
    BY <2>3, <2>4
<1>14. CASE AppendBlock \/ Sleep
  BY <1>2, <1>14 DEF AppendBlock, Sleep, file, history
<1>15. ASSUME NEW place, Waited(place)
       PROVE  UNCHANGED <<thread, messages, second>> /\ command = place
  BY <1>15 DEF Waited
<1>16. CASE Heated
  <2>1. /\ command' \in {"ready", "restoring"}
        /\ UNCHANGED <<playing_file, current_file_handler, abort_thread, late,
                       stopped, thread, messages, second>>
    BY <1>15, <1>16 DEF Heated, file
  <2> QED
    BY <1>2, <2>1
<1>17. CASE Restored
  <2>1. /\ command' = "returning"
        /\ UNCHANGED <<playing_file, current_file_handler, abort_thread, late,
                       stopped, thread, messages, second>>
    BY <1>15, <1>17 DEF Restored, file
  <2> QED
    BY <1>2, <2>1
<1>18. CASE Returned
  <2>1. /\ command' = "ready"
        /\ UNCHANGED <<current_file_handler, abort_thread, thread, messages,
                       second>>
    BY <1>15, <1>18 DEF Returned
  <2>2. CASE Going
    BY <2>1, <2>2, Told DEF Going
  <2>3. CASE UNCHANGED <<late, stopped>> /\ (playing_file' => playing_file)
    BY <2>1, <2>3, Quiet
  <2>4. Going \/ (UNCHANGED <<late, stopped>> /\ (playing_file' => playing_file))
    BY <1>1, <1>18 DEF Returned
  <2> QED
    BY <2>2, <2>3, <2>4
<1>19. CASE Idle
  <2>1. /\ TimedOut
        /\ UNCHANGED <<playing_file, current_file_handler, abort_thread, late,
                       stopped, thread, messages, second>>
    BY <1>19 DEF Idle, file, history
  <2>2. OneUnderWay
    <3>1. DOMAIN messages = {}
      BY <2>1 DEF TimedOut
    <3> QED
      BY <3>1 DEF OneUnderWay, NoLine, AtMostOneLine
  <2> QED
    BY <2>1, <2>2, Quiet
<1>20. CASE Flushed \/ Suspended
  <2>1. /\ command \in {"flush", "suspending"} /\ command' = "ready"
        /\ UNCHANGED <<playing_file, current_file_handler, abort_thread, late,
                       thread, messages, second>>
        /\ UNCHANGED stopped \/ Complete
    BY <1>15, <1>20 DEF Flushed, Suspended, file
  <2>2. CASE UNCHANGED stopped
    BY <1>2, <2>1, <2>2
  <2>3. CASE stopped = "soon" /\ stopped' = "yes"
    <3> SUFFICES ASSUME ~second'
                 PROVE  Alone' /\ Guarded' /\ LateInv' /\ EndInv'
      BY DEF StopInv
    <3>1. Alone /\ Guarded /\ LateInv /\ EndInv
      BY <2>1 DEF StopInv
    <3>2. late = 0 /\ OneUnderWay
      BY <2>1, <2>3, <3>1 DEF LateInv, EndInv
    <3>3. OneUnderWay'
      BY <2>1, <3>2 DEF OneUnderWay, Tested
    <3>4. LateInv' /\ EndInv'
      BY <2>1, <2>3, <3>2, <3>3 DEF LateInv, EndInv
    <3>5. Alone' /\ Guarded'
      BY <2>1, <2>3, <3>1 DEF Alone, Guarded
    <3> QED
      BY <3>4, <3>5
  <2> QED
    BY <2>1, <2>2, <2>3 DEF Complete
<1>21. ASSUME NEW c \in Commands, Host(c)
       PROVE  StopInv'
  <2>1. /\ Len(messages) < QueueSize
        /\ messages' = Append(messages, [cmd |-> c])
        /\ UNCHANGED <<playing_file, current_file_handler, abort_thread, late,
                       stopped, thread, second, command>>
    BY <1>21 DEF Host, file, history, command_vars
  <2>2. [cmd |-> c] \in Message /\ ~IsLine([cmd |-> c])
    BY MessageKinds
  <2>3. /\ NoLine(messages) => NoLine(messages')
        /\ AtMostOneLine(messages) => AtMostOneLine(messages')
    BY <1>1, <2>1, <2>2, PutLines
  <2> QED
    BY <2>1, <2>3, Quiet
<1>22. CASE BlockDone \/ Halt \/ Release \/ UNCHANGED vars
  BY <1>2, <1>22
  DEF BlockDone, Halt, Release, vars, file, history, command_vars
<1>23. ASSUME NEW t \in Threads, PlayThread(t)
       PROVE  StopInv'
  BY <1>23, PlayStop
<1> QED
  BY <1>4, <1>6, <1>7, <1>8, <1>9, <1>10, <1>11, <1>12, <1>13, <1>14, <1>16,
     <1>17, <1>18, <1>19, <1>20, <1>21, <1>22, <1>23
  DEF Next, CommandThread

-----------------------------------------------------------------------------
(***************************************************************************)
(* The order of the lines.                                                 *)
(***************************************************************************)

LEMMA PastFields ==
    ASSUME Types
    PROVE  /\ \A l \in Past : l.file \in Nat /\ l.n \in Nat
           /\ current_file_handler.file \in Nat /\ current_file_handler.n \in Nat
           /\ Queued \subseteq Line /\ Queued \subseteq Past /\ executed \in Past
           /\ executed \in Line \cup {Closed}
           /\ plays \in Nat /\ current_file_handler.file <= plays
           /\ Queue(messages)
<1>1. executed \in Line \cup {Closed} /\ Queued \subseteq Line
  BY DEF Types, HistoryTypes, Queued
<1>2. \A l \in Past : l.file \in Nat /\ l.n \in Nat
  BY <1>1, LineFields DEF Past
<1>3. /\ plays \in Nat /\ current_file_handler.file <= plays
      /\ current_file_handler.file \in Nat /\ current_file_handler.n \in Nat
  BY Assumptions, LineFields DEF Types, FileTypes
<1> QED
  BY <1>1, <1>2, <1>3 DEF Past, Types

LEMMA Queueing ==
    \A i \in DOMAIN messages :
       IsLine(messages[i]) => messages[i].line \in Queued
BY MessageKinds DEF Queued

\* Nothing fits between a line and the one before it.
LEMMA NoBetween ==
    ASSUME NEW k, NEW l, NEW m,
           k.file \in Nat, k.n \in Nat, l.file \in Nat, l.n \in Nat,
           m.file \in Nat, m.n \in Nat,
           Before(k, l), Before(l, m)
    PROVE  Before(k, m) /\ ~JustBefore(k, m)
BY DEF Before, JustBefore

\* What is left of a sorted queue is sorted, and comes after what was taken.
LEMMA TakeOrder ==
    ASSUME Queue(messages), NEW m, Received(m), Sorted
    PROVE  /\ Sorted' /\ Queued' \subseteq Queued
           /\ ~IsLine(m) => Queued' = Queued
           /\ IsLine(m) => /\ Queued = Queued' \cup {m.line}
                           /\ \A k \in Queued' : Before(m.line, k)
<1>1. /\ 1 \in DOMAIN messages /\ messages[1] = m
      /\ \A i \in DOMAIN messages' :
            /\ i \in Nat \ {0} /\ i + 1 \in DOMAIN messages
            /\ messages'[i] = messages[i + 1]
      /\ \A i \in DOMAIN messages :
            \/ i = 1
            \/ /\ i \in Nat /\ i - 1 \in DOMAIN messages'
               /\ messages'[i - 1] = messages[i]
  BY Take
<1>2. Sorted'
  <2> SUFFICES ASSUME NEW i \in DOMAIN messages', NEW j \in DOMAIN messages',
                      i < j, IsLine(messages'[i]), IsLine(messages'[j])
               PROVE  Before(messages'[i].line, messages'[j].line)
    BY DEF Sorted
  <2>1. /\ i + 1 \in DOMAIN messages /\ j + 1 \in DOMAIN messages
        /\ messages'[i] = messages[i + 1] /\ messages'[j] = messages[j + 1]
        /\ i + 1 < j + 1
    BY <1>1
  <2> QED
    BY <2>1 DEF Sorted
<1>3. Queued' \subseteq Queued
  BY <1>1 DEF Queued
<1>4. \A k \in Queued : k \in Queued' \/ m = [line |-> k]
  BY <1>1 DEF Queued
<1>5. ASSUME ~IsLine(m)
      PROVE  Queued' = Queued
  <2>1. \A k \in Queued : m # [line |-> k]
    BY <1>5, MessageKinds DEF Queued
  <2> QED
    BY <1>3, <1>4, <2>1
<1>6. ASSUME IsLine(m)
      PROVE  /\ Queued = Queued' \cup {m.line}
             /\ \A k \in Queued' : Before(m.line, k)
  <2>1. m.line \in Queued
    BY <1>1, <1>6, Queueing
  <2>2. \A k \in Queued : m = [line |-> k] => m.line = k
    OBVIOUS
  <2>3. ASSUME NEW k \in Queued'
        PROVE  Before(m.line, k)
    <3>1. PICK i \in DOMAIN messages' : messages'[i] = [line |-> k]
      BY <2>3 DEF Queued
    <3>2. /\ i + 1 \in DOMAIN messages /\ 1 < i + 1
          /\ messages[i + 1] = [line |-> k]
      BY <1>1, <3>1
    <3>3. k \in Line
      BY <2>3 DEF Queued
    <3>4. IsLine(messages[i + 1]) /\ messages[i + 1].line = k
      BY <3>2, <3>3, MessageKinds
    <3> QED
      BY <1>1, <1>6, <3>2, <3>4 DEF Sorted
  <2> QED
    BY <1>3, <1>4, <2>1, <2>2, <2>3
<1> QED
  BY <1>2, <1>3, <1>5, <1>6

\* A line that comes after those in the queue goes to its end.
LEMMA PutOrder ==
    ASSUME Queue(messages), NEW m \in Message, Len(messages) < QueueSize,
           messages' = Append(messages, m), Sorted,
           IsLine(m) => \A k \in Queued : Before(k, m.line)
    PROVE  /\ Sorted'
           /\ Queued' = IF IsLine(m) THEN Queued \cup {m.line} ELSE Queued
<1>1. /\ messages \in Seq(Message) /\ messages' \in Seq(Message)
      /\ Len(messages') = Len(messages) + 1 /\ Len(messages) \in Nat
      /\ \A i \in 1 .. Len(messages) : messages'[i] = messages[i]
      /\ messages'[Len(messages) + 1] = m
  BY AppendProperties DEF Queue
<1>2. /\ DOMAIN messages = 1 .. Len(messages)
      /\ DOMAIN messages' = 1 .. Len(messages) + 1
  BY <1>1
<1>3. /\ \A i \in DOMAIN messages :
            /\ messages'[i] = messages[i] /\ i \in DOMAIN messages'
            /\ i < Len(messages) + 1
      /\ \A i \in DOMAIN messages' :
            i \in DOMAIN messages \/ i = Len(messages) + 1
      /\ \A i \in DOMAIN messages' : ~(Len(messages) + 1 < i)
      /\ Len(messages) + 1 \in DOMAIN messages'
  BY <1>1, <1>2
<1>4. Sorted'
  <2> SUFFICES ASSUME NEW i \in DOMAIN messages', NEW j \in DOMAIN messages',
                      i < j, IsLine(messages'[i]), IsLine(messages'[j])
               PROVE  Before(messages'[i].line, messages'[j].line)
    BY DEF Sorted
  <2>1. i \in DOMAIN messages /\ messages'[i] = messages[i]
    BY <1>3
  <2>2. CASE j \in DOMAIN messages
    BY <1>3, <2>1, <2>2 DEF Sorted
  <2>3. CASE j = Len(messages) + 1
    BY <1>1, <2>1, <2>3, Queueing
  <2> QED
    BY <1>3, <2>2, <2>3
<1>5. \A k \in Line : k \in Queued' <=> (k \in Queued \/ m = [line |-> k])
  BY <1>1, <1>3 DEF Queued
<1>6. Queued \subseteq Line /\ Queued' \subseteq Line
  BY DEF Queued
<1>7. CASE IsLine(m)
  <2>1. m.line \in Line /\ m = [line |-> m.line]
    BY <1>7, MessageKinds
  <2>2. \A k \in Line : m = [line |-> k] <=> k = m.line
    BY <2>1
  <2>3. Queued' = Queued \cup {m.line}
    BY <1>5, <1>6, <2>1, <2>2
  <2> QED
    BY <1>4, <1>7, <2>3
<1>8. CASE ~IsLine(m)
  <2>1. \A k \in Line : m # [line |-> k]
    BY <1>8, MessageKinds
  <2>2. Queued' = Queued
    BY <1>5, <1>6, <2>1
  <2> QED
    BY <1>4, <1>8, <2>2
<1> QED
  BY <1>7, <1>8

\* Lines and play tasks stay where they are, or a play task ends.
LEMMA Unmoved ==
    ASSUME OrderInv, UNCHANGED <<executed, buf, plays, halts, second>>,
           halted' => halted,
           Sorted => Sorted' /\ Queued' = Queued,
           \A t \in Threads :
              thread'[t] \in {"fgets", "test", "room", "send"} =>
                 /\ UNCHANGED current_file_handler
                 /\ IF thread'[t] = "fgets" THEN thread[t] = "fgets"
                    ELSE thread[t] \in {"test", "room", "send"}
    PROVE  OrderInv'
<1> SUFFICES ASSUME halts' = 0, ~second'
             PROVE  ~halted' /\ Numbered' /\ Sorted' /\ NoGap' /\ Feeding'
  BY DEF OrderInv
<1>1. ~halted /\ Numbered /\ Sorted /\ NoGap /\ Feeding
  BY DEF OrderInv
<1>2. Sorted' /\ Queued' = Queued /\ Past' = Past
  BY <1>1 DEF Past
<1>3. Numbered' /\ NoGap'
  BY <1>1, <1>2 DEF Numbered, NoGap
<1>4. Feeding'
  BY <1>1, <1>2 DEF Feeding, Follows
<1> QED
  BY <1>1, <1>2, <1>3, <1>4

\* A new file comes after the old ones.
LEMMA BegunOrder ==
    ASSUME Types, OrderInv, NEW p \in BOOLEAN, Started(p),
           UNCHANGED <<executed, buf, halts, halted>>,
           Sorted => Sorted' /\ Queued' = Queued
    PROVE  OrderInv'
<1> DEFINE t == CHOOSE u \in Threads : thread[u] = "none"
           new == [file |-> plays + 1, n |-> 1]
<1>1. /\ current_file_handler' = new /\ plays' = plays + 1
      /\ thread' = [thread EXCEPT ![t] = "fgets"]
      /\ second' = (second \/ \E u \in Threads : thread[u] # "none")
  BY DEF Started, Go
<1> HIDE DEF t
<1> SUFFICES ASSUME halts' = 0, ~second'
             PROVE  ~halted' /\ Numbered' /\ Sorted' /\ NoGap' /\ Feeding'
  BY DEF OrderInv
<1>2. ~second /\ \A u \in Threads : thread[u] = "none"
  BY <1>1
<1>3. ~halted /\ Numbered /\ Sorted /\ NoGap
  BY <1>2 DEF OrderInv
<1>4. Sorted' /\ Queued' = Queued /\ Past' = Past
  BY <1>3 DEF Past
<1>5. new.file = plays + 1 /\ new.n = 1
  OBVIOUS
<1> HIDE DEF new
<1>6. Numbered'
  <2> SUFFICES ASSUME NEW l \in Past
               PROVE  l.file <= plays'
    BY <1>4 DEF Numbered
  <2>1. l.file <= plays /\ l.file \in Nat /\ plays \in Nat
    BY <1>3, PastFields DEF Numbered
  <2> QED
    BY <1>1, <2>1
<1>7. NoGap'
  BY <1>3, <1>4 DEF NoGap
<1>8. Follows(new, Past)
  <2>1. ASSUME NEW k \in Past
        PROVE  Before(k, new)
    <3>1. k.file <= plays /\ k.file \in Nat /\ plays \in Nat
      BY <1>3, PastFields DEF Numbered
    <3> QED
      BY <1>5, <3>1 DEF Before
  <2> QED
    BY <1>5, <2>1 DEF Follows
<1>9. \A u \in Threads : thread'[u] \in {"none", "fgets"}
  BY <1>1, <1>2 DEF Types, FileTypes
<1>10. Feeding'
  BY <1>1, <1>4, <1>8, <1>9 DEF Feeding, Follows
<1> QED
  BY <1>3, <1>4, <1>6, <1>7, <1>10

\* A play task reads lines in the order of the file, and sends them so.
LEMMA PlayOrder ==
    ASSUME Types, StopInv, OrderInv, NEW t \in Threads, PlayThread(t)
    PROVE  OrderInv'
<1>1. /\ UNCHANGED <<executed, plays, halts, second, halted>>
      /\ thread[t] # "none"
      /\ \E place : thread' = [thread EXCEPT ![t] = place]
  BY DEF PlayThread, Fgets, Test, Room, Send, End, Close, history, counts,
         At, Go
<1> SUFFICES ASSUME halts = 0, ~second
             PROVE  OrderInv'
  BY <1>1 DEF OrderInv
<1>2. /\ ~halted /\ Numbered /\ Sorted /\ NoGap /\ Feeding
      /\ Alone /\ Guarded
  BY DEF OrderInv, StopInv
<1>3. /\ \A u \in Threads : u # t => thread[u] = "none" /\ thread'[u] = "none"
      /\ thread \in [Threads -> {"none", "fgets", "test", "room", "send",
                                 "end", "close", "fault"}]
  BY <1>1, <1>2 DEF Alone, Types, FileTypes
<1>4. ASSUME UNCHANGED <<buf, messages>>,
             thread'[t] \in {"fgets", "test", "room", "send"} =>
                 /\ UNCHANGED current_file_handler
                 /\ IF thread'[t] = "fgets" THEN thread[t] = "fgets"
                    ELSE thread[t] \in {"test", "room", "send"}
      PROVE  OrderInv'
  <2>1. Sorted => Sorted' /\ Queued' = Queued
    BY <1>4 DEF Sorted, Queued
  <2> QED
    BY <1>1, <1>3, <1>4, <2>1, Unmoved
<1>5. CASE Fgets(t)
  <2>1. thread[t] = "fgets" /\ current_file_handler # Closed /\ UNCHANGED messages
    BY <1>2, <1>5 DEF Fgets, At, Guarded
  <2>2. CASE thread'[t] = "end" /\ UNCHANGED buf
    BY <1>4, <2>1, <2>2
  <2>3. CASE /\ buf' = [buf EXCEPT ![t] = current_file_handler]
             /\ current_file_handler' = [current_file_handler EXCEPT !.n = @ + 1]
             /\ thread'[t] = "test"
    <3>1. buf'[t] = current_file_handler
      BY <2>3 DEF Types, FileTypes
    <3>2. current_file_handler \in [file : 1 .. MaxPlays, n : 1 .. FileLength + 1]
      BY <2>1 DEF Types, FileTypes
    <3>3. /\ current_file_handler'.file = current_file_handler.file
          /\ current_file_handler'.n = current_file_handler.n + 1
      BY <2>3, <3>2
    <3>4. JustBefore(buf'[t], current_file_handler')
      BY <3>1, <3>3 DEF JustBefore
    <3>5. Follows(current_file_handler, Past)
      BY <1>2, <2>1 DEF Feeding
    <3>6. Queued' = Queued /\ Past' = Past /\ Sorted'
      BY <1>1, <1>2, <2>1 DEF Queued, Past, Sorted
    <3>7. Feeding'
      BY <1>3, <2>3, <3>1, <3>4, <3>5, <3>6 DEF Feeding, Follows
    <3>8. Numbered' /\ NoGap'
      BY <1>1, <1>2, <3>6 DEF Numbered, NoGap
    <3> QED
      BY <1>1, <1>2, <3>6, <3>7, <3>8 DEF OrderInv
  <2> QED
    BY <1>3, <1>5, <2>1, <2>2, <2>3 DEF Fgets, Go
<1>6. CASE Test(t)
  <2>1. /\ thread[t] = "test" /\ thread'[t] \in {"end", "room"}
        /\ UNCHANGED <<current_file_handler, buf, messages>>
    BY <1>3, <1>6 DEF Test, At, Go
  <2> QED
    BY <1>4, <2>1
<1>7. CASE Room(t)
  <2>1. /\ thread[t] = "room" /\ thread'[t] = "send"
        /\ UNCHANGED <<current_file_handler, buf, messages>>
    BY <1>3, <1>7 DEF Room, At, Go, file
  <2> QED
    BY <1>4, <2>1
<1>8. CASE Send(t)
  <2> DEFINE b == buf[t]
  <2>1. /\ thread[t] = "send" /\ thread'[t] = "fgets"
        /\ UNCHANGED <<current_file_handler, buf>>
        /\ Len(messages) < QueueSize
        /\ messages' = Append(messages, [line |-> b])
    BY <1>3, <1>8 DEF Send, At, Go, file
  <2>2. /\ b \in Line /\ b.file \in Nat /\ b.n \in Nat
        /\ [line |-> b] \in Message /\ IsLine([line |-> b])
        /\ [line |-> b].line = b
    BY <2>1, MessageKinds, LineFields DEF Types, FileTypes
  <2>3. Follows(b, Past) /\ JustBefore(b, current_file_handler)
    BY <1>2, <2>1 DEF Feeding
  <2> HIDE DEF b
  <2>4. Sorted' /\ Queued' = Queued \cup {b}
    <3>1. \A k \in Queued : Before(k, b)
      BY <2>3, PastFields DEF Follows
    <3> QED
      BY <1>2, <2>1, <2>2, <3>1, PastFields, PutOrder
  <2>5. Past' = Past \cup {b}
    BY <1>1, <2>4 DEF Past
  <2>6. b.file <= plays
    BY <2>3, PastFields DEF JustBefore
  <2>7. Numbered'
    BY <1>1, <1>2, <2>5, <2>6 DEF Numbered
  <2>8. NoGap'
    <3>1. Before(executed, b) /\ (b.n = 1 \/ \E p \in Past : JustBefore(p, b))
      BY <2>3, PastFields DEF Follows
    <3> QED
      BY <1>1, <1>2, <2>4, <2>5, <3>1 DEF NoGap
  <2>9. Follows(current_file_handler, Past \cup {b})
    <3>1. Before(b, current_file_handler)
      BY <2>2, <2>3, PastFields DEF Before, JustBefore
    <3>2. ASSUME NEW k \in Past
          PROVE  Before(k, current_file_handler)
      <4>1. Before(k, b)
        BY <2>3 DEF Follows
      <4> QED
        BY <2>2, <3>1, <4>1, PastFields, NoBetween
    <3> QED
      BY <2>3, <3>1, <3>2 DEF Follows
  <2>10. Feeding'
    BY <1>3, <2>1, <2>5, <2>9 DEF Feeding, Follows
  <2> QED
    BY <1>1, <1>2, <2>4, <2>7, <2>8, <2>10 DEF OrderInv
<1>9. CASE End(t) \/ Close(t)
  <2>1. thread'[t] \in {"close", "none"} /\ UNCHANGED <<buf, messages>>
    BY <1>3, <1>9 DEF End, Close, Go
  <2> QED
    BY <1>4, <2>1
<1> QED
  BY <1>5, <1>6, <1>7, <1>8, <1>9 DEF PlayThread

\* The line that is executed is the next one.
LEMMA NextLine ==
    ASSUME Types, OrderInv, halts = 0, ~second, NEW l \in Line,
           Received([line |-> l])
    PROVE  /\ l \in Queued /\ Before(executed, l)
           /\ l.n = 1 \/ JustBefore(executed, l)
<1>1. /\ Queue(messages) /\ Sorted /\ NoGap
      /\ \A k \in Past : k.file \in Nat /\ k.n \in Nat
  BY PastFields DEF OrderInv
<1>2. IsLine([line |-> l]) /\ [line |-> l].line = l
  BY MessageKinds
<1>3. Queued = Queued' \cup {l} /\ \A k \in Queued' : Before(l, k)
  BY <1>1, <1>2, TakeOrder
<1>4. l \in Queued /\ l \in Past
  BY <1>3, PastFields
<1>5. /\ Before(executed, l)
      /\ l.n = 1 \/ \E p \in Past : JustBefore(p, l)
  BY <1>1, <1>4 DEF NoGap
<1>6. ASSUME NEW p \in Past, JustBefore(p, l), p # executed
      PROVE  FALSE
  <2>1. p \in Queued
    BY <1>6 DEF Past
  <2>2. p = l \/ Before(l, p)
    BY <1>3, <2>1
  <2> QED
    BY <1>1, <1>4, <1>6, <2>2 DEF Before, JustBefore
<1> QED
  BY <1>4, <1>5, <1>6

LEMMA ExecuteOrder ==
    ASSUME Types, OrderInv, ExecuteLine
    PROVE  OrderInv'
<1>1. PICK l \in Line :
         /\ Received([line |-> l])
         /\ ~halted => executed' = l
  BY DEF ExecuteLine
<1>2. UNCHANGED <<current_file_handler, thread, buf, halted, plays, halts, second>>
  BY DEF ExecuteLine, file, counts
<1> SUFFICES ASSUME halts = 0, ~second
             PROVE  OrderInv'
  BY <1>2 DEF OrderInv
<1>3. /\ ~halted /\ Numbered /\ Sorted /\ NoGap /\ Feeding
      /\ executed' = l
  BY <1>1 DEF OrderInv
<1>4. IsLine([line |-> l]) /\ [line |-> l].line = l
  BY MessageKinds
<1>5. /\ Queued = Queued' \cup {l} /\ \A k \in Queued' : Before(l, k)
      /\ Sorted'
  BY <1>1, <1>3, <1>4, PastFields, TakeOrder
<1>6. Past' = Queued /\ Past = Queued \cup {executed} /\ l \in Past
  BY <1>3, <1>5 DEF Past
<1>7. /\ Before(executed, l)
      /\ \A k \in Past : k.file \in Nat /\ k.n \in Nat
  BY <1>1, NextLine, PastFields
<1>8. ASSUME NEW k, k.file \in Nat, k.n \in Nat, Before(l, k),
             NEW p \in Past, JustBefore(p, k)
      PROVE  p \in Past'
  <2>1. ~JustBefore(executed, k)
    BY <1>6, <1>7, <1>8, NoBetween DEF Past
  <2> QED
    BY <1>6, <1>8, <2>1
<1>9. ASSUME NEW k, k.file \in Nat, k.n \in Nat, Follows(k, Past)
      PROVE  Follows(k, Past')
  <2>1. Before(l, k)
    BY <1>6, <1>9 DEF Follows
  <2> QED
    BY <1>6, <1>8, <1>9, <2>1 DEF Follows
<1>10. Numbered'
  BY <1>2, <1>3, <1>6 DEF Numbered
<1>11. NoGap'
  <2> SUFFICES ASSUME NEW k \in Queued'
               PROVE  /\ Before(l, k)
                      /\ k.n = 1 \/ \E p \in Past' : JustBefore(p, k)
    BY <1>3 DEF NoGap
  <2>1. /\ Before(l, k) /\ k \in Queued /\ k \in Past
        /\ k.n = 1 \/ \E p \in Past : JustBefore(p, k)
    BY <1>3, <1>5, <1>6 DEF NoGap
  <2> QED
    BY <1>7, <1>8, <2>1
<1>12. Feeding'
  <2> SUFFICES ASSUME NEW t \in Threads
               PROVE  /\ thread[t] \in {"test", "room", "send"} =>
                            /\ Follows(buf[t], Past')
                            /\ JustBefore(buf[t], current_file_handler)
                      /\ thread[t] = "fgets" =>
                            Follows(current_file_handler, Past')
    BY <1>2 DEF Feeding, Follows
  <2>1. thread[t] \in {"test", "room", "send"} =>
           buf[t].file \in Nat /\ buf[t].n \in Nat
    BY LineFields DEF Types, FileTypes
  <2> QED
    BY <1>3, <1>9, <2>1, PastFields DEF Feeding
<1> QED
  BY <1>2, <1>3, <1>5, <1>10, <1>11, <1>12 DEF OrderInv

\* Every step keeps the order.
LEMMA StepOrder ==
    ASSUME Types, StopInv, OrderInv, [Next]_vars
    PROVE  OrderInv'
<1>1. Queue(messages)
  BY DEF Types
<1>2. ASSUME UNCHANGED <<executed, buf, plays, halts, second, thread,
                         current_file_handler>>,
             halted' => halted, Sorted => Sorted' /\ Queued' = Queued
      PROVE  OrderInv'
  BY <1>2, Unmoved
<1>3. ASSUME UNCHANGED messages
      PROVE  Sorted => Sorted' /\ Queued' = Queued
  BY <1>3 DEF Sorted, Queued
<1>4. ASSUME NEW c \in Commands, Received([cmd |-> c])
      PROVE  Sorted => Sorted' /\ Queued' = Queued
  BY <1>1, <1>4, TakeOrder, MessageKinds
<1>5. ASSUME NEW c \in Commands, Play(c)
      PROVE  OrderInv'
  <2>1. /\ Received([cmd |-> c]) /\ UNCHANGED <<buf, halts, halted>>
        /\ UNCHANGED executed
    BY <1>5 DEF Play, history
  <2>2. CASE UNCHANGED <<playing_file, current_file_handler, thread, plays,
                         history>>
    BY <1>2, <1>4, <2>1, <2>2 DEF history
  <2>3. CASE Started(c = "play -p")
    <3>1. (c = "play -p") \in BOOLEAN
      OBVIOUS
    <3> QED
      BY <1>4, <2>1, <2>3, <3>1, BegunOrder
  <2> QED
    BY <1>5, <2>2, <2>3 DEF Play
<1>6. CASE M26
  <2>1. /\ Received([cmd |-> "M26"]) /\ UNCHANGED <<buf, halts, halted>>
        /\ UNCHANGED executed /\ "M26" \in Commands
    BY <1>6 DEF M26, history, Commands
  <2>2. CASE UNCHANGED <<current_file_handler, thread, plays, second>>
    BY <1>2, <1>4, <2>1, <2>2
  <2>3. CASE Started(FALSE)
    BY <1>4, <2>1, <2>3, BegunOrder
  <2>4. UNCHANGED <<current_file_handler, thread, plays, second>> \/ Started(FALSE)
    BY <1>6 DEF M26, file, history
  <2> QED
    BY <2>2, <2>3, <2>4
<1>7. ASSUME NEW c \in Commands, Receives(c), UNCHANGED
                <<executed, buf, second, thread, current_file_handler>>
      PROVE  OrderInv'
  BY <1>2, <1>4, <1>7 DEF Receives, counts
<1>8. CASE M24 \/ M25 \/ Abort \/ G28 \/ M600 \/ M601
  <2>1. PICK c \in Commands : Receives(c)
    BY <1>8 DEF M24, M25, Abort, G28, M600, M601, Commands
  <2>2. UNCHANGED <<executed, buf, second, thread, current_file_handler>>
    BY <1>8 DEF M24, M25, Abort, G28, M600, M601, file, history
  <2> QED
    BY <1>7, <2>1, <2>2
<1>9. ASSUME UNCHANGED <<executed, buf, plays, halts, second, thread,
                         current_file_handler, messages>>, halted' => halted
      PROVE  OrderInv'
  BY <1>2, <1>3, <1>9
<1>10. CASE AppendBlock \/ Sleep \/ Idle
  BY <1>9, <1>10 DEF AppendBlock, Sleep, Idle, file, history, counts
<1>11. CASE Heated \/ Restored \/ Returned \/ Flushed \/ Suspended
  BY <1>9, <1>11
  DEF Heated, Restored, Returned, Flushed, Suspended, Waited, file, counts
<1>12. ASSUME NEW c \in Commands, Host(c)
       PROVE  OrderInv'
  <2>1. /\ Len(messages) < QueueSize
        /\ messages' = Append(messages, [cmd |-> c])
        /\ UNCHANGED <<executed, buf, plays, halts, second, thread,
                       current_file_handler, halted>>
    BY <1>12 DEF Host, file, history
  <2>2. Sorted => Sorted' /\ Queued' = Queued
    BY <1>1, <2>1, PutOrder, MessageKinds
  <2> QED
    BY <1>2, <2>1, <2>2
<1>13. CASE Halt
  <2>1. halts' = halts + 1 /\ halts \in Nat
    BY <1>13, Assumptions DEF Halt, Types, HistoryTypes
  <2> QED
    BY <2>1 DEF OrderInv
<1>14. CASE BlockDone \/ Release \/ UNCHANGED vars
  BY <1>9, <1>14 DEF BlockDone, Release, vars, file, history, counts
<1>15. ASSUME NEW t \in Threads, PlayThread(t)
       PROVE  OrderInv'
  BY <1>15, PlayOrder
<1>16. CASE ExecuteLine
  BY <1>16, ExecuteOrder
<1> QED
  BY <1>5, <1>6, <1>8, <1>10, <1>11, <1>12, <1>13, <1>14, <1>15, <1>16
  DEF Next, CommandThread

-----------------------------------------------------------------------------
(***************************************************************************)
(* The theorems.                                                           *)
(***************************************************************************)

\* Nothing is played at first.
LEMMA InitInv == Init => IInv
<1> SUFFICES ASSUME Init PROVE IInv
  OBVIOUS
<1>1. Types
  BY InitTypes
<1>2. /\ messages = <<>> /\ DOMAIN messages = {} /\ executed = Closed
      /\ thread = [t \in Threads |-> "none"] /\ late = 0 /\ stopped = "no"
      /\ command = "ready" /\ plays = 0 /\ state_stack = Bare
  BY DEF Init, Bare
<1>3. ~suspended /\ ~halted
  BY DEF Init
<1>4. StopInv
  BY <1>2 DEF StopInv, Alone, Guarded, LateInv, EndInv
<1>5. StackInv
  BY <1>2, <1>3 DEF StackInv, Saved
<1>6. OrderInv
  <2>1. Queued = {} /\ Past = {Closed}
    BY <1>2 DEF Queued, Past
  <2>2. Numbered
    BY <1>2, <2>1, LineFields DEF Numbered
  <2> QED
    BY <1>2, <1>3, <2>1, <2>2 DEF OrderInv, Sorted, NoGap, Feeding
<1> QED
  BY <1>1, <1>4, <1>5, <1>6 DEF IInv

LEMMA StepInv ==
    ASSUME IInv, [Next]_vars
    PROVE  IInv'
BY StepTypes, StepStop, StepStack, StepOrder DEF IInv

LEMMA Invariance == Spec => []IInv
BY InitInv, StepInv, PTL DEF Spec

\* Every variable stays in its range: Player, its play tasks, the message queue
\* and the stack of states.
THEOREM PlayerTypes == Spec => []TypeOK
<1>1. IInv => TypeOK
  BY TypeParts DEF IInv
<1> QED
  BY <1>1, Invariance, PTL

\* At most one line of the file is executed after an abort or a suspend has been
\* completed: the one its play task was waiting with for room.
THEOREM AtMostOneLineLate == Spec => []OneLineLate
<1>1. ASSUME IInv
      PROVE  OneLineLate
  <2>1. ~second => late = 0 \/ late = 1
    BY <1>1 DEF IInv, StopInv, LateInv
  <2> QED
    BY <2>1 DEF OneLineLate
<1> QED
  BY <1>1, Invariance, PTL

\* The state a suspend has pushed is popped once, by the resume or by whatever
\* cancels the suspend, and the state of the host stays.
THEOREM StateIsKept == Spec => []StateKept
<1>1. IInv => StateKept
  BY DEF IInv, StackInv, Saved, StateKept, Bare, Full
<1> QED
  BY <1>1, Invariance, PTL

\* The lines of a file are executed one after the other, none left out and none
\* twice, and file after file.
THEOREM LinesComeInOrder == Spec => LinesInOrder
<1>1. ASSUME IInv, [Next]_vars, halts = 0, ~second, executed' # executed
      PROVE  \/ executed' = [executed EXCEPT !.n = @ + 1]
             \/ executed'.file > executed.file /\ executed'.n = 1
  <2>1. ExecuteLine
    BY <1>1
    DEF Next, CommandThread, PlayThread, Fgets, Test, Room, Send, End, Close,
        AppendBlock, Play, Started, M24, M25, M26, Abort, G28, M600, M601,
        Sleep, Heated, Restored, Returned, Idle, Flushed, Suspended, Waited,
        Host, BlockDone, Halt, Release, vars, history
  <2>2. PICK l \in Line : Received([line |-> l]) /\ executed' = l
    BY <1>1, <2>1 DEF ExecuteLine
  <2>3. /\ Before(executed, l) /\ (l.n = 1 \/ JustBefore(executed, l))
        /\ executed \in Line \cup {Closed}
        /\ l.file \in Nat \ {0} /\ l.n \in Nat
    BY <1>1, <2>2, NextLine, PastFields, LineFields, Assumptions DEF IInv
  <2>4. CASE executed \in Line
    <3>1. executed.file \in Nat /\ executed.n \in Nat \ {0}
      BY <2>4, LineFields, Assumptions
    <3>2. CASE l.n = 1
      BY <2>2, <2>3, <3>1, <3>2 DEF Before
    <3>3. CASE JustBefore(executed, l)
      <4>1. l = [executed EXCEPT !.n = @ + 1]
        BY <2>2, <2>4, <3>3 DEF JustBefore, Line
      <4> QED
        BY <2>2, <4>1
    <3> QED
      BY <2>3, <3>2, <3>3
  <2>5. CASE executed = Closed
    <3>1. executed.file = 0
      BY <2>5, LineFields
    <3>2. ~JustBefore(executed, l) /\ l.file > executed.file
      BY <2>3, <3>1 DEF JustBefore
    <3> QED
      BY <2>2, <2>3, <3>2
  <2> QED
    BY <2>3, <2>4, <2>5
<1>2. IInv /\ [Next]_vars =>
         [halts = 0 /\ ~second /\ executed' # executed =>
             \/ executed' = [executed EXCEPT !.n = @ + 1]
             \/ executed'.file > executed.file /\ executed'.n = 1]_vars
  BY <1>1
<1> QED
  BY <1>2, Invariance, PTL DEF Spec, LinesInOrder
=============================================================================
