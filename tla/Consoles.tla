------------------------------ MODULE Consoles ------------------------------
(***************************************************************************)
(* The comms tasks and the command thread of Consoles.cpp: the message     *)
(* queue the lines go through, and the ring of instant queries (?, $I, $S).*)
(*                                                                         *)
(* A comms task preempts the command thread and shares the processor with  *)
(* the other comms tasks, which may run between any two steps of its push   *)
(* into the ring.  What a line or a query does is left out, but for the     *)
(* output stream it writes to and the definition of a subroutine.           *)
(***************************************************************************)
EXTENDS Integers, Sequences

LOCAL INSTANCE Functions

CONSTANTS
    Comms,        \* the comms tasks
    Streams,      \* the output streams there can be
    Consoles,     \* the streams of the tasks that serve just one
    Texts,        \* the streams that send $I and $S, not only ?
    Definers,     \* the streams that define subroutines
    QueueSize,    \* places in the message queue
    RingSize,     \* slots of the ring
    MaxLines, MaxQueries,  \* bounds: how many lines and queries of each,
    MaxSent                \*   and of all streams together

ASSUME ConsolesAssumption ==
    /\ Consoles \subseteq Streams /\ Consoles \subseteq Comms
    /\ "none" \notin Streams
    /\ Texts \subseteq Streams /\ Definers \subseteq Streams
    /\ QueueSize \in Nat \ {0} /\ RingSize \in Nat \ {0}
    /\ MaxLines \in [Streams -> Nat] /\ MaxQueries \in [Streams -> Nat]
    /\ MaxSent \in Nat

VARIABLES
    messages,             \* the message queue: lines [os, n], n-th of os
    slots, head, tail,    \* queries: entries [os, n, text]; text: $I or $S
    pushing, place,       \* each comms task's query, how far its push is,
    index,                \*   and the head it has read
    phase, need_done,     \* the command thread's place, handle_query's local
    line, query,          \* the line, the query it executes
    defining,             \* the streams in the middle of a subroutine
    done,                 \* OutputStream::done
    lines, asked,         \* lines and queries each stream has sent
    unanswered,           \* history: queries stored and not yet popped
    skipped,              \* history: slots that a push moves the head past
                          \*   though it has stored its query in another
    silent                \* history: streams whose last line has been made a
                          \*   part of a subroutine

ring == <<slots, head, tail, pushing, place, index, unanswered, skipped>>
command == <<phase, need_done, line, query, defining, silent>>
consoleVars == <<messages, ring, command, done, lines, asked>>

None == [os |-> "none", n |-> 0]
NoQuery == [os |-> "none", n |-> 0, text |-> FALSE]
Entry == [os : Streams, n : Nat \ {0}]
QueryEntry == [os : Streams, n : Nat \ {0}, text : BOOLEAN]

ConsolesTypeOK ==
    /\ messages \in Seq(Entry) /\ Len(messages) <= QueueSize
    /\ slots \in [0 .. RingSize - 1 -> QueryEntry \cup {NoQuery}]
    /\ head \in 0 .. RingSize - 1 /\ tail \in 0 .. RingSize - 1
    /\ pushing \in [Comms -> QueryEntry \cup {NoQuery}]
    /\ place \in [Comms -> {"idle", "tested", "read", "stored", "again"}]
    /\ index \in [Comms -> 0 .. RingSize - 1]
    /\ phase \in {"receive", "dispatch", "queries", "answer", "finish"}
    /\ need_done \in BOOLEAN
    /\ line \in Entry \cup {None}
    /\ query \in QueryEntry \cup {NoQuery}
    /\ defining \subseteq Streams /\ silent \subseteq Streams
    /\ done \in [Streams -> BOOLEAN]
    /\ lines \in [Streams -> Nat] /\ asked \in [Streams -> Nat]
    /\ unanswered \subseteq QueryEntry /\ skipped \subseteq 0 .. RingSize - 1

ConsolesInit ==
    /\ messages = <<>>
    /\ slots = [i \in 0 .. RingSize - 1 |-> NoQuery] /\ head = 0 /\ tail = 0
    /\ pushing = [t \in Comms |-> NoQuery]
    /\ place = [t \in Comms |-> "idle"] /\ index = [t \in Comms |-> 0]
    /\ phase = "receive" /\ need_done = FALSE
    /\ line = None /\ query = NoQuery /\ defining = {}
    /\ done = [s \in Streams |-> FALSE]
    /\ lines = [s \in Streams |-> 0] /\ asked = [s \in Streams |-> 0]
    /\ unanswered = {} /\ skipped = {} /\ silent = {}

-----------------------------------------------------------------------------
(***************************************************************************)
(* The comms tasks.                                                        *)
(***************************************************************************)

Pushing(t) == place[t] # "idle"
next(i) == (i + 1) % RingSize
full == next(head) = tail
empty == tail = head

Sent == SumFunction(lines) + SumFunction(asked)

\* os->clear_flags() at a newline.
ClearDone(s) == [done EXCEPT ![s] = FALSE]

\* A query of stream s, a ? or a line $I or $S, is pushed if the ring is not
\* full, which is not tested again.
Ask(t, s) ==
    \E text \in BOOLEAN :
        /\ text => s \in Texts
        /\ ~Pushing(t)
        /\ asked[s] < MaxQueries[s] /\ Sent < MaxSent
        /\ asked' = [asked EXCEPT ![s] = @ + 1]
        /\ done' = IF text THEN ClearDone(s) ELSE done
        /\ IF full THEN UNCHANGED <<pushing, place>>
           ELSE /\ pushing' = [pushing EXCEPT
                      ![t] = [os |-> s, n |-> asked'[s], text |-> text]]
                /\ place' = [place EXCEPT ![t] = "tested"]
        /\ UNCHANGED <<messages, slots, head, tail, index, unanswered, skipped,
                       command, lines>>

\* push_back reads head for buffer[head] ...
ReadHead(t) ==
    /\ place[t] = "tested"
    /\ index' = [index EXCEPT ![t] = head]
    /\ place' = [place EXCEPT ![t] = "read"]
    /\ UNCHANGED <<messages, slots, head, tail, pushing, unanswered, skipped,
                   command, done, lines, asked>>

\* ... stores the query there ...
Store(t) ==
    /\ place[t] = "read"
    /\ slots' = [slots EXCEPT ![index[t]] = pushing[t]]
    /\ unanswered' = unanswered \cup {pushing[t]}
    /\ skipped' = skipped \ {index[t]}
    /\ place' = [place EXCEPT ![t] = "stored"]
    /\ UNCHANGED <<messages, head, tail, pushing, index, command, done, lines,
                   asked>>

\* ... and reads head once more for next(head), unless the compiler has kept the
\* first reading.  Another task may have moved it meanwhile.
ReadAgain(t) ==
    /\ place[t] = "stored"
    /\ index' = [index EXCEPT ![t] = head]
    /\ skipped' = skipped \cup
           ({head} \ {index[u] : u \in {v \in Comms :
                                          place[v] \in {"stored", "again"}}})
    /\ place' = [place EXCEPT ![t] = "again"]
    /\ UNCHANGED <<messages, slots, head, tail, pushing, unanswered, command,
                   done, lines, asked>>

\* head = next(head)
Advance(t) ==
    /\ place[t] \in {"stored", "again"}
    /\ head' = next(index[t])
    /\ pushing' = [pushing EXCEPT ![t] = NoQuery]
    /\ place' = [place EXCEPT ![t] = "idle"]
    /\ index' = [index EXCEPT ![t] = 0]
    /\ UNCHANGED <<messages, slots, tail, unanswered, skipped, command, done,
                   lines, asked>>

push_back(t) == ReadHead(t) \/ Store(t) \/ ReadAgain(t) \/ Advance(t)

Room == Len(messages) < QueueSize

\* A line of a console; its task waits for room in the queue.
ConsoleLine(s) ==
    /\ s \in Consoles /\ ~Pushing(s)
    /\ lines[s] < MaxLines[s] /\ Sent < MaxSent
    /\ Room
    /\ lines' = [lines EXCEPT ![s] = @ + 1]
    /\ done' = ClearDone(s)
    /\ messages' = Append(messages, [os |-> s, n |-> lines'[s]])
    /\ UNCHANGED <<ring, command, asked>>

-----------------------------------------------------------------------------
(***************************************************************************)
(* command_handler.                                                        *)
(***************************************************************************)

\* A mistake the checks must notice: a command thread of equal priority.
CommandAlways == TRUE

\* It runs only while every comms task is waiting.
CommandRuns == \A t \in Comms : ~Pushing(t)

\* receive_message_queue; when it times out the queries are handled at once.
Receive ==
    /\ CommandRuns /\ phase = "receive"
    /\ \/ /\ messages # <<>>
          /\ line' = Head(messages) /\ messages' = Tail(messages)
          /\ phase' = "dispatch" /\ need_done' = FALSE
       \/ /\ messages = <<>> /\ ~empty
          /\ phase' = "queries" /\ need_done' = TRUE
          /\ UNCHANGED <<line, messages>>
    /\ UNCHANGED <<ring, query, defining, silent, done, lines, asked>>

\* dispatch_line returns, all its output written to the line's stream, whose
\* flags Dispatcher::dispatch has cleared; not every line gets that far.
\* An "o x sub" begins a subroutine.
Dispatched ==
    /\ CommandRuns /\ phase = "dispatch" /\ line.os \notin defining
    /\ phase' = "queries"
    /\ done' \in {done, ClearDone(line.os)}
    /\ defining' \in {defining, defining \cup ({line.os} \cap Definers)}
    /\ UNCHANGED <<messages, ring, need_done, line, query, silent, lines, asked>>

\* A line of a subroutine, or the "o x endsub" that ends it: no query is
\* answered after it, and no done flag set.
Defined ==
    /\ CommandRuns /\ phase = "dispatch" /\ line.os \in defining
    /\ phase' = "receive" /\ line' = None
    /\ done' \in {done, ClearDone(line.os)}
    /\ defining' \in {defining, defining \ {line.os}}
    /\ silent' = silent \cup {line.os}
    /\ UNCHANGED <<messages, ring, need_done, query, lines, asked>>

\* handle_query: the next query, if any ...
PopQuery ==
    /\ CommandRuns /\ phase = "queries" /\ ~empty
    /\ query' = slots[tail] /\ tail' = next(tail)
    /\ unanswered' = unanswered \ {query'}
    /\ skipped' = skipped \ {tail}
    /\ phase' = "answer"
    /\ UNCHANGED <<messages, slots, head, pushing, place, index, need_done, line,
                   defining, silent, done, lines, asked>>

\* ... is answered; $I and $S are dispatched, which clears the flags.
Answered ==
    /\ CommandRuns /\ phase = "answer"
    /\ done' = [s \in Streams |->
                  IF s = query.os THEN \/ done[s] /\ ~query.text
                                       \/ need_done /\ empty
                  ELSE done[s]]
    /\ query' = NoQuery
    /\ phase' = "queries"
    /\ UNCHANGED <<messages, ring, need_done, line, defining, silent, lines,
                   asked>>

QueriesDone ==
    /\ CommandRuns /\ phase = "queries" /\ empty
    /\ phase' = IF need_done THEN "receive" ELSE "finish"
    /\ UNCHANGED <<messages, ring, need_done, line, query, defining, silent,
                   done, lines, asked>>

\* A mistake the checks must notice: the done flag is not set.
FinishSilent ==
    /\ CommandRuns /\ phase = "finish"
    /\ line' = None
    /\ phase' = "receive"
    /\ UNCHANGED <<messages, ring, need_done, query, defining, silent, done,
                   lines, asked>>

\* os->set_done(), "set after all possible output".
Finish ==
    /\ CommandRuns /\ phase = "finish"
    /\ done' = [done EXCEPT ![line.os] = TRUE]
    /\ line' = None
    /\ phase' = "receive"
    /\ silent' = silent \ {line.os}
    /\ UNCHANGED <<messages, ring, need_done, query, defining, lines, asked>>

CommandThread == \/ Receive \/ Dispatched \/ Defined
                 \/ PopQuery \/ Answered \/ QueriesDone \/ Finish

ConsolesNext ==
    \/ \E s \in Consoles : Ask(s, s) \/ ConsoleLine(s)
    \/ \E t \in Comms : push_back(t)
    \/ CommandThread

-----------------------------------------------------------------------------
\* Tasks in the middle of a push lose queries, all of them when two that found
\* the last place free close the ring on its tail; but what the command thread
\* pops is a query that was pushed and not answered yet, never what an earlier
\* query left in its slot, whose line has been freed and whose stream may have
\* gone.  The exception is real: a task overtaken between its two readings of
\* head moves it past a slot nobody has stored in.
QueriesGenuine ==
    [][phase = "queries" /\ phase' = "answer"
          => query' \in unanswered \/ tail \in skipped]_consoleVars

\* The streams the command thread writes to, now.
InUse ==
    {s \in Streams : \/ phase # "receive" /\ s = line.os
                     \/ phase = "answer" /\ s = query.os}
=============================================================================
