---------------------------- MODULE Shell_proofs ----------------------------
(***************************************************************************)
(* Lines are executed in order, the ring hands out a query that was asked  *)
(* and not answered yet but for a slot that a push has skipped, and a      *)
(* patient client's stream outlives its command: for any number of tasks,  *)
(* connections, lines and queries, and queues of any length.               *)
(***************************************************************************)
EXTENDS Shell, SequenceTheorems, TLAPS

Indices == 0 .. RingSize - 1

\* How far slot i is from the tail.
Offset(i) == IF i < tail THEN i - tail + RingSize ELSE i - tail

\* The slots before the head, and before any head a task in the middle of a
\* push has read, with the one it has stored in: the head moves to where the
\* task that is last puts it.
Covered(i) ==
    \/ Offset(i) < Offset(head)
    \/ \E t \in Comms : /\ place[t] \in {"read", "stored", "again"}
                        /\ Offset(i) < Offset(index[t])
    \/ \E t \in Comms : /\ place[t] \in {"stored", "again"}
                        /\ Offset(i) <= Offset(index[t])

\* A console's task asks for its console only, the shell thread for others.
Asks(t, s) == IF t = shell_thread THEN s \notin Consoles
                                  ELSE s = t /\ t \in Consoles

\* A query that has been asked, and one that has not been stored yet.
Known(e) == e.n <= asked[e.os]
New(e) == e \notin unanswered /\ \A i \in Indices : slots[i] # e

\* What a task pushes is new until it is stored; no two slots ever hold the
\* same query, and those covered hold one still to be answered.
RingInv ==
    /\ \A t \in Comms : Pushing(t) =>
          /\ pushing[t] \in QueryEntry /\ Known(pushing[t])
          /\ Asks(t, pushing[t].os)
          /\ place[t] \in {"tested", "read"} => New(pushing[t])
    /\ \A i \in Indices : Covered(i) => slots[i] \in unanswered \/ i \in skipped
    /\ \A i, j \in Indices : slots[i] = slots[j] => i = j \/ slots[i] = NoQuery
    /\ \A e \in unanswered : Known(e)
    /\ \A i \in Indices : slots[i] = NoQuery \/ Known(slots[i])

\* With messages m in the queue, line l being executed and w waiting for room:
\* they are in order and numbered up to the last one sent.
Ordered(m, l, w, count) ==
    /\ \A i, j \in DOMAIN m : i < j /\ m[i].os = m[j].os => m[i].n < m[j].n
    /\ \A i \in DOMAIN m : /\ l.os = m[i].os => l.n < m[i].n
                           /\ w.os = m[i].os => m[i].n < w.n
                           /\ m[i].n <= count[m[i].os]
    /\ l # None => l.n <= count[l.os]
    /\ w # None => w.n <= count[w.os] /\ (l.os = w.os => l.n < w.n)

OrderInv == Ordered(messages, line, waiting, lines)

\* Streams come and go once.
StreamInv ==
    /\ \A c \in deleted : c \notin shells \cup unused
    /\ \A i \in DOMAIN gc : gc[i] \notin shells \cup unused
    /\ waiting # None => waiting.os \in shells
    /\ phase = "receive" \/ need_done => line = None

\* Stream c has lines under way; it has at most one.
Under(m, l, w, c) ==
    l.os = c \/ w.os = c \/ \E i \in DOMAIN m : m[i].os = c

AtMostOne(m, l, w, c) ==
    /\ l.os = c => w.os # c /\ \A i \in DOMAIN m : m[i].os # c
    /\ w.os = c => \A i \in DOMAIN m : m[i].os # c
    /\ \A i, j \in DOMAIN m : m[i].os = c /\ m[j].os = c => i = j

Curious == hasty \cup Consoles \cup {"none"}

\* With done flags d and deleted streams del: c has at most one line under way,
\* and none once its stream is done or deleted.
Patient(m, l, w, d, del, c) ==
    /\ AtMostOne(m, l, w, c)
    /\ d[c] \/ c \in del => ~Under(m, l, w, c)

\* So it is with a connection that asks nothing and sends a line only when the
\* one before is done; and the queries are those of others.
PatientInv ==
    /\ \A c \in Conns \ hasty :
          Patient(messages, line, waiting, done, deleted, c)
    /\ \A i \in Indices : slots[i].os \in Curious
    /\ \A t \in Comms : pushing[t].os \in Curious
    /\ query.os \in Curious

IInv ==
    /\ TypeOK
    /\ RingInv
    /\ OrderInv
    /\ StreamInv
    /\ PatientInv

-----------------------------------------------------------------------------
(***************************************************************************)
(* Types.                                                                  *)
(***************************************************************************)

LEMMA Assumptions ==
    /\ Consoles \subseteq Streams /\ Consoles \subseteq Comms
    /\ "none" \notin Streams
    /\ Texts \subseteq Streams /\ Definers \subseteq Streams
    /\ QueueSize \in Nat \ {0} /\ RingSize \in Nat \ {0}
    /\ shell_thread \in Comms \ Consoles /\ GcSize \in Nat \ {0}
    /\ Conns \subseteq Streams /\ Conns \cap Consoles = {}
    /\ MaxLines \in [Streams -> Nat] /\ MaxQueries \in [Streams -> Nat]
BY ConsolesAssumption, ShellAssumption DEF Conns

LEMMA NextSlot ==
    ASSUME NEW i \in Indices
    PROVE  /\ next(i) = IF i = RingSize - 1 THEN 0 ELSE i + 1
           /\ next(i) \in Indices
BY Assumptions DEF next, Indices

\* An entry is a stream and a number.
LEMMA EntryFields ==
    /\ \A e \in Entry : e.os \in Streams /\ e.n \in Nat \ {0}
    /\ \A e \in QueryEntry : e.os \in Streams /\ e.n \in Nat \ {0}
    /\ None.os = "none" /\ None.n = 0 /\ None \notin Entry
    /\ NoQuery.os = "none" /\ NoQuery \notin QueryEntry
BY Assumptions DEF Entry, QueryEntry, None, NoQuery

LEMMA InitTypes == Init => TypeOK
<1> SUFFICES ASSUME Init PROVE TypeOK
  OBVIOUS
<1>1. ConsolesTypeOK
  <2>1. messages \in Seq(Entry) /\ Len(messages) <= QueueSize
    <3>1. messages = <<>> /\ Len(messages) = 0
      BY DEF Init, ConsolesInit
    <3> QED
      BY <3>1, Assumptions
  <2>2. /\ slots \in [Indices -> QueryEntry \cup {NoQuery}]
        /\ head \in Indices /\ tail \in Indices
        /\ pushing \in [Comms -> QueryEntry \cup {NoQuery}]
    BY Assumptions DEF Init, ConsolesInit, Indices
  <2>3. /\ place \in [Comms -> {"idle", "tested", "read", "stored", "again"}]
        /\ index \in [Comms -> Indices]
    BY Assumptions DEF Init, ConsolesInit, Indices
  <2>4. /\ done \in [Streams -> BOOLEAN] /\ lines \in [Streams -> Nat]
        /\ asked \in [Streams -> Nat]
    BY DEF Init, ConsolesInit
  <2>5. /\ phase = "receive" /\ need_done = FALSE /\ line = None
        /\ query = NoQuery /\ unanswered = {} /\ skipped = {}
        /\ defining = {} /\ silent = {}
    BY DEF Init, ConsolesInit
  <2> QED
    BY <2>1, <2>2, <2>3, <2>4, <2>5 DEF ConsolesTypeOK, Indices
<1>2. gc \in Seq(Conns) /\ Len(gc) < GcSize
  BY Assumptions DEF Init
<1> QED
  BY <1>1, <1>2 DEF Init, TypeOK

\* A query keeps the types.
LEMMA AskTypes ==
    ASSUME TypeOK, NEW t \in Comms, NEW s \in Streams, Ask(t, s)
    PROVE  ConsolesTypeOK'
<1>1. /\ ConsolesTypeOK /\ asked[s] + 1 \in Nat \ {0}
      /\ UNCHANGED <<messages, slots, head, tail, index, unanswered, skipped,
                     phase, need_done, line, query, defining, silent, lines>>
  BY DEF TypeOK, ConsolesTypeOK, Ask, command
<1>2. PICK text \in BOOLEAN :
         /\ asked' = [asked EXCEPT ![s] = @ + 1]
         /\ done' = IF text THEN ClearDone(s) ELSE done
         /\ IF full THEN UNCHANGED <<pushing, place>>
            ELSE /\ pushing' = [pushing EXCEPT
                       ![t] = [os |-> s, n |-> asked'[s], text |-> text]]
                 /\ place' = [place EXCEPT ![t] = "tested"]
  BY DEF Ask
<1>3. asked' \in [Streams -> Nat] /\ asked'[s] = asked[s] + 1
  BY <1>1, <1>2 DEF ConsolesTypeOK
<1>4. done' \in [Streams -> BOOLEAN]
  BY <1>1, <1>2 DEF ConsolesTypeOK, ClearDone
<1>5. pushing' \in [Comms -> QueryEntry \cup {NoQuery}]
  <2>1. [os |-> s, n |-> asked'[s], text |-> text] \in QueryEntry
    BY <1>1, <1>3 DEF QueryEntry
  <2> QED
    BY <1>1, <1>2, <2>1 DEF ConsolesTypeOK
<1>6. place' \in [Comms -> {"idle", "tested", "read", "stored", "again"}]
  BY <1>1, <1>2 DEF ConsolesTypeOK
<1> QED
  BY <1>1, <1>3, <1>4, <1>5, <1>6 DEF ConsolesTypeOK

\* A line put at the end of the queue.
LEMMA AppendTypes ==
    ASSUME messages \in Seq(Entry), Room, NEW e \in Entry,
           messages' = Append(messages, e)
    PROVE  messages' \in Seq(Entry) /\ Len(messages') <= QueueSize
BY Assumptions DEF Room

\* The i-th line of a buffer that arrives from connection c.
Arriving(c, i) == [os |-> c, n |-> lines[c] + i]

\* What the shell thread puts in the queue: the lines it has room for.
LEMMA DataEffect ==
    ASSUME TypeOK, NEW c \in Conns, NEW k \in 1 .. 2, Data(c, k)
    PROVE  LET e(i) == Arriving(c, i)
           IN  \/ /\ messages' = messages /\ waiting' = e(1)
               \/ /\ k = 1 /\ messages' = Append(messages, e(1))
                  /\ waiting' = None /\ Room
               \/ /\ k = 2 /\ messages' = Append(messages, e(1))
                  /\ waiting' = e(2) /\ Room
               \/ /\ k = 2 /\ Len(messages) + 2 <= QueueSize
                  /\ messages' = Append(Append(messages, e(1)), e(2))
                  /\ waiting' = None
<1> DEFINE e(i) == Arriving(c, i)
           After(m, i) == IF Len(m) = QueueSize THEN m ELSE Append(m, e(i))
           q1 == After(messages, 1)
           q2 == After(q1, 2)
           Body(q) == [i \in 0 .. k |-> IF i = 0 THEN messages
                                        ELSE After(q[i - 1], i)]
           queue == CHOOSE q : q = Body(q)
           placed == Len(queue[k]) - Len(messages)
<1>1. /\ messages' = queue[k]
      /\ waiting' = IF placed = k THEN None
                    ELSE [os |-> c, n |-> lines[c] + placed + 1]
  BY DEF Data, Arriving
<1>2. queue = Body(queue)
  <2> DEFINE w == [i \in 0 .. k |-> IF i = 0 THEN messages
                                    ELSE IF i = 1 THEN q1 ELSE q2]
  <2> HIDE DEF After
  <2>1. w = Body(w)
    <3>1. \A i \in 0 .. k : w[i] = Body(w)[i]
      OBVIOUS
    <3> HIDE DEF w
    <3> QED
      BY <3>1 DEF w
  <2> HIDE DEF w, Body
  <2> QED
    BY <2>1
<1>3. /\ queue[1] = q1
      /\ k = 2 => queue[2] = q2
  <2> HIDE DEF queue, After
  <2>1. queue[0] = messages
    BY <1>2
  <2>2. queue[1] = q1
    BY <1>2, <2>1
  <2> QED
    BY <1>2, <2>2
<1> HIDE DEF queue
<1>4. /\ messages \in Seq(Entry) /\ Len(messages) <= QueueSize
      /\ QueueSize \in Nat /\ lines[c] \in Nat /\ Len(messages) \in Nat
  BY Assumptions DEF TypeOK, ConsolesTypeOK
<1>5. e(1) \in Entry /\ e(2) \in Entry
  BY <1>4, Assumptions DEF Entry, Arriving
<1>6. CASE Len(messages) = QueueSize
  <2>1. q1 = messages /\ q2 = messages
    BY <1>6
  <2>2. queue[k] = messages /\ placed = 0
    BY <1>3, <1>4, <2>1
  <2> QED
    BY <1>1, <1>4, <2>2 DEF Arriving
<1>7. CASE Len(messages) # QueueSize
  <2>1. /\ q1 = Append(messages, e(1)) /\ Len(q1) = Len(messages) + 1 /\ Room
        /\ q1 \in Seq(Entry)
    BY <1>4, <1>5, <1>7, AppendProperties DEF Room
  <2> HIDE DEF q1
  <2>2. CASE k = 1
    <3>1. queue[k] = q1 /\ placed = 1
      BY <1>3, <1>4, <2>1, <2>2
    <3> QED
      BY <1>1, <2>1, <2>2, <3>1
  <2>3. CASE k = 2 /\ Len(q1) = QueueSize
    <3>1. queue[k] = q1 /\ placed = 1
      BY <1>3, <1>4, <2>1, <2>3
    <3> QED
      BY <1>1, <1>4, <2>1, <2>3, <3>1 DEF Arriving
  <2>4. CASE k = 2 /\ Len(q1) # QueueSize
    <3>1. queue[k] = Append(q1, e(2)) /\ placed = 2
      BY <1>3, <1>4, <1>5, <2>1, <2>4, AppendProperties
    <3>2. Len(messages) + 2 <= QueueSize
      BY <1>4, <1>7, <2>1, <2>4
    <3> QED
      BY <1>1, <2>1, <2>4, <3>1, <3>2
  <2> QED
    BY <2>2, <2>3, <2>4
<1> QED
  BY <1>6, <1>7

\* The types of what the shell thread keeps.
ShellTypes ==
    /\ unused \subseteq Conns /\ shells \subseteq Conns \ unused
    /\ waiting \in Entry \cup {None}
    /\ gc \in Seq(Conns) /\ Len(gc) < GcSize
    /\ deleted \subseteq Conns \ shells
    /\ hasty \subseteq Conns /\ orphans \subseteq Conns

LEMMA TypeParts == TypeOK <=> ConsolesTypeOK /\ ShellTypes
BY DEF TypeOK, ShellTypes

LEMMA CloseTypes ==
    ASSUME ShellTypes, NEW c \in shells, close_shell(c)
    PROVE  /\ shells' = shells \ {c} /\ gc' \in Seq(Conns) /\ Len(gc') < GcSize
           /\ deleted' \subseteq deleted \cup {c}
           /\ orphans' \subseteq Conns
<1>1. c \in Conns /\ gc \in Seq(Conns) /\ Len(gc) < GcSize
  BY DEF ShellTypes
<1>2. Collected(c) \in Seq(Conns) /\ Len(Collected(c)) < GcSize
  <2>1. CASE Len(gc) = GcSize - 1
    <3>1. Collected(c) = <<>> /\ Len(<<>>) = 0 /\ <<>> \in Seq(Conns)
      BY <2>1 DEF Collected
    <3> QED
      BY <3>1, Assumptions
  <2>2. CASE Len(gc) # GcSize - 1
    <3>1. Collected(c) = Append(gc, c)
      BY <2>2 DEF Collected
    <3> QED
      BY <1>1, <2>2, <3>1, Assumptions, AppendProperties
  <2> QED
    BY <2>1, <2>2
<1> QED
  BY <1>1, <1>2 DEF close_shell, ShellTypes

\* Every step keeps the types.
LEMMA StepTypes ==
    ASSUME IInv, [Next]_vars
    PROVE  TypeOK'
<1>1. /\ ConsolesTypeOK /\ ShellTypes /\ TypeOK
      /\ messages \in Seq(Entry) /\ Len(messages) \in Nat
  BY TypeParts DEF IInv, ConsolesTypeOK
<1> SUFFICES ConsolesTypeOK' /\ ShellTypes'
  BY DEF TypeOK, ShellTypes
<1>2. ASSUME NEW s \in Consoles, Ask(s, s), UNCHANGED shellVars
      PROVE  ConsolesTypeOK' /\ ShellTypes'
  BY <1>1, <1>2, AskTypes, Assumptions DEF shellVars, ShellTypes
<1>3. ASSUME NEW s \in Consoles, ConsoleLine(s), UNCHANGED shellVars
      PROVE  ConsolesTypeOK' /\ ShellTypes'
  <2>1. lines' \in [Streams -> Nat] /\ done' \in [Streams -> BOOLEAN]
    BY <1>1, <1>3, Assumptions DEF ConsolesTypeOK, ConsoleLine, ClearDone
  <2>2. [os |-> s, n |-> lines'[s]] \in Entry
    BY <1>1, <1>3, Assumptions DEF ConsolesTypeOK, ConsoleLine, Entry
  <2>3. messages' \in Seq(Entry) /\ Len(messages') <= QueueSize
    BY <1>1, <1>3, <2>2, AppendTypes DEF ConsoleLine
  <2>4. UNCHANGED <<ring, command, asked>>
    BY <1>3 DEF ConsoleLine
  <2> QED
    BY <1>1, <1>3, <2>1, <2>3, <2>4
    DEF shellVars, ShellTypes, ConsolesTypeOK, ring, command
<1>4. ASSUME NEW t \in Comms, push_back(t), UNCHANGED shellVars
      PROVE  ConsolesTypeOK' /\ ShellTypes'
  <2>1. /\ index[t] \in Indices /\ head \in Indices
        /\ Pushing(t) => pushing[t] \in QueryEntry
    BY <1>1 DEF IInv, RingInv, ConsolesTypeOK, Indices
  <2>2. /\ pushing' \in [Comms -> QueryEntry \cup {NoQuery}]
        /\ place' \in [Comms -> {"idle", "tested", "read", "stored", "again"}]
        /\ index' \in [Comms -> Indices] /\ head' \in Indices
        /\ skipped' \subseteq Indices
    <3>1. 0 \in Indices
      BY Assumptions DEF Indices
    <3> QED
      BY <1>1, <1>4, <2>1, <3>1, NextSlot
      DEF push_back, ReadHead, Store, ReadAgain, Advance, ConsolesTypeOK,
          Indices
  <2>3. /\ slots' \in [Indices -> QueryEntry \cup {NoQuery}]
        /\ unanswered' \subseteq QueryEntry
    <3>1. CASE Store(t)
      BY <1>1, <2>1, <3>1 DEF Store, Pushing, ConsolesTypeOK, Indices
    <3>2. CASE ~Store(t)
      BY <1>1, <1>4, <3>2
      DEF push_back, ReadHead, ReadAgain, Advance, ConsolesTypeOK, Indices
    <3> QED
      BY <3>1, <3>2
  <2>4. UNCHANGED <<messages, tail, command, done, lines, asked>>
    BY <1>4 DEF push_back, ReadHead, Store, ReadAgain, Advance
  <2> QED
    BY <1>1, <1>4, <2>2, <2>3, <2>4
    DEF shellVars, ShellTypes, ConsolesTypeOK, Indices, command
<1>5. CASE Receive /\ UNCHANGED shellVars
  <2>1. /\ phase' \in {"dispatch", "queries"} /\ need_done' \in BOOLEAN
        /\ UNCHANGED <<ring, query, defining, silent, done, lines, asked>>
    BY <1>5 DEF Receive
  <2>2. /\ line' \in Entry \cup {None}
        /\ messages' \in Seq(Entry) /\ Len(messages') <= QueueSize
    <3>1. CASE messages # <<>> /\ line' = Head(messages)
               /\ messages' = Tail(messages)
      <4>1. /\ Head(messages) \in Entry /\ Tail(messages) \in Seq(Entry)
            /\ Len(Tail(messages)) = Len(messages) - 1
        BY <1>1, <3>1, HeadTailProperties
      <4> QED
        BY <1>1, <3>1, <4>1, Assumptions DEF ConsolesTypeOK
    <3>2. CASE UNCHANGED <<line, messages>>
      BY <1>1, <3>2 DEF ConsolesTypeOK
    <3> QED
      BY <1>5, <3>1, <3>2 DEF Receive
  <2> QED
    BY <1>1, <1>5, <2>1, <2>2 DEF shellVars, ShellTypes, ConsolesTypeOK, ring
<1>6. CASE (Dispatched \/ Defined) /\ UNCHANGED shellVars
  <2>1. done' \in [Streams -> BOOLEAN]
    BY <1>1, <1>6 DEF Dispatched, Defined, ClearDone, ConsolesTypeOK
  <2>2. /\ defining' \subseteq Streams /\ silent' \subseteq Streams
        /\ line' \in Entry \cup {None} /\ phase' \in {"receive", "queries"}
        /\ UNCHANGED <<messages, ring, need_done, query, lines, asked>>
    BY <1>1, <1>6, Assumptions DEF Dispatched, Defined, ConsolesTypeOK
  <2> QED
    BY <1>1, <1>6, <2>1, <2>2 DEF shellVars, ShellTypes, ConsolesTypeOK, ring
<1>7. CASE PopQuery /\ UNCHANGED shellVars
  <2>1. tail' \in Indices
    BY <1>1, <1>7, NextSlot DEF PopQuery, ConsolesTypeOK, Indices
  <2>2. /\ query' \in QueryEntry \cup {NoQuery}
        /\ unanswered' \subseteq QueryEntry /\ skipped' \subseteq Indices
    BY <1>1, <1>7 DEF PopQuery, ConsolesTypeOK, Indices
  <2> QED
    BY <1>1, <1>7, <2>1, <2>2
    DEF PopQuery, shellVars, ShellTypes, ConsolesTypeOK, Indices
<1>8. CASE Answered /\ UNCHANGED shellVars
  <2>1. done' \in [Streams -> BOOLEAN]
    BY <1>1, <1>8 DEF Answered, ConsolesTypeOK
  <2> QED
    BY <1>1, <1>8, <2>1
    DEF Answered, shellVars, ShellTypes, ConsolesTypeOK, ring
<1>9. CASE QueriesDone /\ UNCHANGED shellVars
  BY <1>1, <1>9 DEF QueriesDone, shellVars, ShellTypes, ConsolesTypeOK, ring
<1>10. CASE Finish /\ UNCHANGED shellVars
  <2>1. done' \in [Streams -> BOOLEAN] /\ silent' \subseteq Streams
    BY <1>1, <1>10 DEF Finish, ConsolesTypeOK
  <2> QED
    BY <1>1, <1>10, <2>1
    DEF Finish, shellVars, ShellTypes, ConsolesTypeOK, ring
<1>11. ASSUME NEW c \in Conns, Accept(c)
       PROVE  ConsolesTypeOK' /\ ShellTypes'
  <2>1. ConsolesTypeOK'
    BY <1>1, <1>11
    DEF Accept, ConsolesTypeOK, consoleVars, ring, command
  <2>2. c \notin deleted
    BY <1>11 DEF IInv, StreamInv, Accept
  <2> QED
    BY <1>1, <1>11, <2>1, <2>2 DEF Accept, ShellTypes
<1>12. ASSUME NEW c \in Conns, NEW k \in 1 .. 2, Data(c, k)
       PROVE  ConsolesTypeOK' /\ ShellTypes'
  <2>1. lines[c] \in Nat /\ c \in Streams /\ k \in Nat
    BY <1>1, Assumptions DEF ConsolesTypeOK
  <2>2. lines' \in [Streams -> Nat] /\ done' \in [Streams -> BOOLEAN]
    BY <1>1, <1>12, <2>1 DEF ConsolesTypeOK, Data, ClearDone
  <2>3. Arriving(c, 1) \in Entry /\ Arriving(c, 2) \in Entry
    BY <2>1 DEF Arriving, Entry
  <2>4. /\ messages' \in Seq(Entry) /\ Len(messages') <= QueueSize
        /\ waiting' \in Entry \cup {None}
    <3>1. Len(Append(messages, Arriving(c, 1))) = Len(messages) + 1
          /\ Append(messages, Arriving(c, 1)) \in Seq(Entry)
      BY <1>1, <2>3, AppendProperties
    <3>2. /\ Append(Append(messages, Arriving(c, 1)), Arriving(c, 2))
                \in Seq(Entry)
          /\ Len(Append(Append(messages, Arriving(c, 1)), Arriving(c, 2)))
                = Len(messages) + 2
      BY <1>1, <2>3, <3>1, AppendProperties
    <3>3. \/ UNCHANGED messages /\ waiting' = Arriving(c, 1)
          \/ /\ messages' = Append(messages, Arriving(c, 1)) /\ Room
             /\ waiting' \in {None, Arriving(c, 2)}
          \/ /\ messages' =
                   Append(Append(messages, Arriving(c, 1)), Arriving(c, 2))
             /\ Len(messages) + 2 <= QueueSize /\ waiting' = None
      BY <1>1, <1>12, DataEffect
    <3>4. Len(messages) <= QueueSize /\ QueueSize \in Nat
      BY <1>1, Assumptions DEF ConsolesTypeOK
    <3>5. messages' \in Seq(Entry)
      BY <1>1, <3>1, <3>2, <3>3
    <3>6. Len(messages') <= QueueSize
      BY <1>1, <3>1, <3>2, <3>3, <3>4 DEF Room
    <3>7. waiting' \in Entry \cup {None}
      BY <2>3, <3>3
    <3> QED
      BY <3>5, <3>6, <3>7
  <2>5. hasty' \subseteq Conns
    BY <1>1, <1>12 DEF Data, ShellTypes
  <2>6. UNCHANGED <<ring, command, asked, unused, shells, gc, deleted, orphans>>
    BY <1>12 DEF Data
  <2> QED
    BY <1>1, <2>2, <2>4, <2>5, <2>6
    DEF ConsolesTypeOK, ShellTypes, ring, command
<1>13. ASSUME NEW c \in Conns, Query(c)
       PROVE  ConsolesTypeOK' /\ ShellTypes'
  <2>1. ConsolesTypeOK'
    BY <1>1, <1>13, AskTypes, Assumptions DEF Query
  <2> QED
    BY <1>1, <1>13, <2>1 DEF Query, ShellTypes
<1>14. ASSUME NEW c \in Conns, Gone(c)
       PROVE  ConsolesTypeOK' /\ ShellTypes'
  <2>1. ConsolesTypeOK'
    BY <1>1, <1>14 DEF Gone, ConsolesTypeOK, consoleVars, ring, command
  <2>2. c \in shells /\ close_shell(c)
    BY <1>14 DEF Gone
  <2> QED
    BY <1>1, <1>14, <2>1, <2>2, CloseTypes DEF Gone, ShellTypes
<1>15. CASE Resubmit
  <2>1. waiting \in Entry /\ messages' = Append(messages, waiting) /\ Room
    BY <1>1, <1>15 DEF Resubmit, ShellTypes
  <2>2. messages' \in Seq(Entry) /\ Len(messages') <= QueueSize
    BY <1>1, <2>1, AppendTypes
  <2> QED
    BY <1>1, <1>15, <2>2
    DEF Resubmit, ConsolesTypeOK, ShellTypes, ring, command
<1>16. CASE GiveUp
  <2>1. ConsolesTypeOK'
    BY <1>1, <1>16 DEF GiveUp, ConsolesTypeOK, consoleVars, ring, command
  <2>2. waiting.os \in shells /\ close_shell(waiting.os)
    BY <1>16 DEF GiveUp, IInv, StreamInv
  <2> QED
    BY <1>1, <1>16, <2>1, <2>2, CloseTypes DEF GiveUp, ShellTypes
<1>17. CASE Collect
  <2>1. ConsolesTypeOK'
    BY <1>1, <1>17 DEF Collect, ConsolesTypeOK, consoleVars, ring, command
  <2>2. gc \in Seq(Conns) /\ gc # <<>> /\ gc' = Tail(gc)
    BY <1>1, <1>17 DEF Collect, ShellTypes
  <2>3. /\ Head(gc) \in Conns /\ gc' \in Seq(Conns)
        /\ Len(gc') = Len(gc) - 1 /\ Len(gc) \in Nat /\ Head(gc) = gc[1]
        /\ 1 \in DOMAIN gc
    BY <2>2, HeadTailProperties
  <2>4. Head(gc) \notin shells
    BY <2>3 DEF IInv, StreamInv
  <2>5. Len(gc') < GcSize
    BY <1>1, <2>3, Assumptions DEF ShellTypes
  <2> QED
    BY <1>1, <1>17, <2>1, <2>3, <2>4, <2>5 DEF Collect, ShellTypes
<1>18. CASE UNCHANGED vars
  BY <1>1, <1>18
  DEF vars, consoleVars, shellVars, ConsolesTypeOK, ShellTypes, ring, command
<1> QED
  BY <1>2, <1>3, <1>4, <1>5, <1>6, <1>7, <1>8, <1>9, <1>10, <1>11, <1>12,
     <1>13, <1>14, <1>15, <1>16, <1>17, <1>18
  DEF Next, ConsolesNext, CommandThread, ShellThread

-----------------------------------------------------------------------------
(***************************************************************************)
(* The ring of queries.                                                    *)
(***************************************************************************)

LEMMA Offsets ==
    ASSUME tail \in Indices
    PROVE  /\ \A i \in Indices : Offset(i) \in Indices
           /\ \A i, j \in Indices : Offset(i) = Offset(j) => i = j
           /\ \A i \in Indices : Offset(i) = 0 <=> i = tail
           /\ \A i \in Indices : next(i) # tail =>
                 next(i) \in Indices /\ Offset(next(i)) = Offset(i) + 1
BY Assumptions, NextSlot DEF Offset, Indices

\* What the proofs below read of the types.
LEMMA RingTypes ==
    ASSUME TypeOK
    PROVE  /\ head \in Indices /\ tail \in Indices
           /\ slots \in [Indices -> QueryEntry \cup {NoQuery}]
           /\ pushing \in [Comms -> QueryEntry \cup {NoQuery}]
           /\ place \in [Comms -> {"idle", "tested", "read", "stored", "again"}]
           /\ index \in [Comms -> Indices]
           /\ asked \in [Streams -> Nat] /\ unanswered \subseteq QueryEntry
           /\ Indices \subseteq Nat
BY Assumptions DEF TypeOK, ConsolesTypeOK, Indices

\* A query that finds room in the ring is a new one.
LEMMA AskRing ==
    ASSUME TypeOK, RingInv, NEW t \in Comms, NEW s \in Streams, Ask(t, s),
           Asks(t, s)
    PROVE  RingInv'
<1>1. /\ UNCHANGED <<slots, head, tail, index, unanswered, skipped>>
      /\ ~Pushing(t) /\ asked' = [asked EXCEPT ![s] = @ + 1]
  BY DEF Ask
<1>2. /\ asked[s] \in Nat /\ asked \in [Streams -> Nat]
      /\ asked'[s] = asked[s] + 1
      /\ \A o \in Streams : asked[o] \in Nat /\ asked[o] <= asked'[o]
  BY <1>1, RingTypes
<1>3. ASSUME NEW e \in QueryEntry, Known(e)
      PROVE  Known(e)'
  <2>1. e.os \in Streams /\ e.n \in Nat
    BY EntryFields
  <2>2. /\ asked[e.os] \in Nat /\ asked'[e.os] \in Nat
        /\ asked[e.os] <= asked'[e.os]
    BY <1>1, <1>2, <2>1
  <2> QED
    BY <1>3, <2>1, <2>2 DEF Known
<1>4. /\ \A e \in unanswered' : Known(e)'
      /\ \A i \in Indices : slots'[i] = NoQuery \/ Known(slots[i])'
  BY <1>1, <1>3, RingTypes DEF RingInv
<1>5. \A e : New(e)' <=> New(e)
  BY <1>1 DEF New
<1>6. \A i \in Indices : Covered(i)' => Covered(i)
  <2>1. /\ place[t] = "idle"
        /\ \A u \in Comms :
              place'[u] \in {"read", "stored", "again"} => place'[u] = place[u]
    BY <1>1, RingTypes DEF Ask, Pushing
  <2> QED
    BY <1>1, <2>1 DEF Covered, Offset
<1>7. ASSUME NEW u \in Comms, Pushing(u), UNCHANGED <<pushing[u], place[u]>>
      PROVE  /\ pushing'[u] \in QueryEntry /\ Known(pushing[u])'
             /\ Asks(u, pushing'[u].os)
             /\ place'[u] \in {"tested", "read"} => New(pushing[u])'
  <2>1. /\ pushing[u] \in QueryEntry /\ Known(pushing[u])
        /\ Asks(u, pushing[u].os)
        /\ place[u] \in {"tested", "read"} => New(pushing[u])
    BY <1>7 DEF RingInv
  <2>2. Known(pushing[u])'
    <3>1. pushing[u].n <= asked'[pushing[u].os]
      BY <1>3, <2>1 DEF Known
    <3> QED
      BY <1>7, <3>1 DEF Known
  <2>3. New(pushing[u]) => New(pushing[u])'
    BY <1>1, <1>7 DEF New
  <2> QED
    BY <1>7, <2>1, <2>2, <2>3
<1>8. \A u \in Comms : Pushing(u)' =>
         /\ pushing'[u] \in QueryEntry /\ Known(pushing[u])'
         /\ Asks(u, pushing'[u].os)
         /\ place'[u] \in {"tested", "read"} => New(pushing[u])'
  <2>1. CASE UNCHANGED <<pushing, place>>
    BY <1>7, <2>1 DEF Pushing
  <2>2. CASE ~UNCHANGED <<pushing, place>>
    <3>1. PICK text \in BOOLEAN :
             /\ pushing' = [pushing EXCEPT
                              ![t] = [os |-> s, n |-> asked'[s], text |-> text]]
             /\ place' = [place EXCEPT ![t] = "tested"]
      BY <2>2 DEF Ask
    <3> DEFINE q == [os |-> s, n |-> asked'[s], text |-> text]
    <3>2. q \in QueryEntry /\ q.os = s /\ q.n = asked'[s] /\ q # NoQuery
      BY <1>2, EntryFields DEF QueryEntry
    <3> HIDE DEF q
    <3>3. /\ pushing'[t] = q
          /\ \A u \in Comms : u # t => UNCHANGED <<pushing[u], place[u]>>
      BY <3>1, RingTypes DEF q
    <3>4. ~Known(q) /\ Known(pushing[t])'
      BY <1>2, <3>2, <3>3 DEF Known
    <3>5. New(pushing[t])'
      BY <1>1, <3>2, <3>3, <3>4 DEF RingInv, New
    <3>6. \A u \in Comms : u # t => (Pushing(u)' <=> Pushing(u))
      BY <3>3 DEF Pushing
    <3> QED
      BY <1>7, <3>2, <3>3, <3>4, <3>5, <3>6
  <2> QED
    BY <2>1, <2>2
<1>9. \A i, j \in Indices : slots'[i] = slots'[j] => i = j \/ slots'[i] = NoQuery
  BY <1>1 DEF RingInv
<1>10. \A i \in Indices : Covered(i)' => slots'[i] \in unanswered'
                                          \/ i \in skipped'
  BY <1>1, <1>6 DEF RingInv
<1> QED
  BY <1>4, <1>8, <1>9, <1>10 DEF RingInv

\* A step that changes neither the slots nor the queries keeps the invariant if
\* it covers no slot but those covered before and those skipped.
LEMMA PlaceRing ==
    ASSUME TypeOK, RingInv, UNCHANGED <<slots, unanswered, asked>>,
           skipped \subseteq skipped',
           \A i \in Indices : Covered(i)' => Covered(i) \/ i \in skipped',
           \A t \in Comms : Pushing(t)' =>
              /\ pushing'[t] = pushing[t] /\ Pushing(t)
              /\ place'[t] \in {"tested", "read"}
                    => place[t] \in {"tested", "read"}
    PROVE  RingInv'
<1>1. ASSUME NEW t \in Comms, Pushing(t)'
      PROVE  /\ pushing'[t] \in QueryEntry /\ Known(pushing[t])'
             /\ Asks(t, pushing'[t].os)
             /\ place'[t] \in {"tested", "read"} => New(pushing[t])'
  <2>1. /\ pushing'[t] = pushing[t] /\ Pushing(t)
        /\ place'[t] \in {"tested", "read"} => place[t] \in {"tested", "read"}
    BY <1>1
  <2>2. /\ pushing[t] \in QueryEntry /\ Known(pushing[t])
        /\ Asks(t, pushing[t].os)
        /\ place[t] \in {"tested", "read"} => New(pushing[t])
    BY <2>1 DEF RingInv
  <2> QED
    BY <2>1, <2>2 DEF Known, New
<1>2. \A i \in Indices : Covered(i)' => slots'[i] \in unanswered'
                                         \/ i \in skipped'
  BY DEF RingInv
<1>3. /\ \A e \in unanswered' : Known(e)'
      /\ \A i \in Indices : slots'[i] = NoQuery \/ Known(slots[i])'
  BY DEF RingInv, Known
<1>4. \A i, j \in Indices : slots'[i] = slots'[j] => i = j \/ slots'[i] = NoQuery
  BY DEF RingInv
<1> QED
  BY <1>1, <1>2, <1>3, <1>4 DEF RingInv

\* The head read is no further than the head.
LEMMA ReadHeadRing ==
    ASSUME TypeOK, RingInv, NEW t \in Comms, ReadHead(t)
    PROVE  RingInv'
<1>1. /\ place[t] = "tested"
      /\ UNCHANGED <<slots, head, tail, pushing, unanswered, skipped, asked>>
      /\ place'[t] = "read" /\ index'[t] = head
      /\ \A u \in Comms : u # t => UNCHANGED <<place[u], index[u]>>
  BY RingTypes DEF ReadHead
<1>2. \A i : Covered(i)' => Covered(i)
  BY <1>1 DEF Covered, Offset
<1>3. \A u \in Comms : Pushing(u)' =>
         /\ pushing'[u] = pushing[u] /\ Pushing(u)
         /\ place'[u] \in {"tested", "read"} => place[u] \in {"tested", "read"}
  BY <1>1 DEF Pushing
<1> QED
  BY <1>1, <1>2, <1>3, PlaceRing

\* What is stored is a new query, still to be answered.
LEMMA StoreRing ==
    ASSUME TypeOK, RingInv, NEW t \in Comms, Store(t)
    PROVE  RingInv'
<1> DEFINE L == index[t]
           q == pushing[t]
<1>1. /\ place[t] = "read" /\ UNCHANGED <<head, tail, pushing, index, asked>>
      /\ slots' = [slots EXCEPT ![L] = q] /\ unanswered' = unanswered \cup {q}
      /\ skipped' = skipped \ {L}
      /\ place' = [place EXCEPT ![t] = "stored"]
  BY DEF Store
<1>2. /\ L \in Indices /\ q \in QueryEntry /\ Known(q) /\ New(q)
      /\ Asks(t, q.os) /\ Pushing(t)
  BY <1>1, RingTypes DEF RingInv, Pushing
<1> HIDE DEF L, q
<1>3. /\ slots'[L] = q /\ \A i \in Indices : i # L => slots'[i] = slots[i]
      /\ place'[t] = "stored"
      /\ \A u \in Comms : u # t => place'[u] = place[u]
  BY <1>1, <1>2, RingTypes
<1>4. ASSUME NEW u \in Comms, Pushing(u)'
      PROVE  /\ pushing'[u] \in QueryEntry /\ Known(pushing[u])'
             /\ Asks(u, pushing'[u].os)
             /\ place'[u] \in {"tested", "read"} => New(pushing[u])'
  <2>1. Pushing(u) /\ pushing'[u] = pushing[u]
    BY <1>1, <1>2, <1>3, <1>4 DEF Pushing
  <2>2. /\ pushing[u] \in QueryEntry /\ Known(pushing[u])
        /\ Asks(u, pushing[u].os)
        /\ place[u] \in {"tested", "read"} => New(pushing[u])
    BY <2>1 DEF RingInv
  <2>3. Known(pushing[u])'
    BY <1>1, <2>1, <2>2 DEF Known
  <2>4. ASSUME place'[u] \in {"tested", "read"}
        PROVE  New(pushing[u])'
    <3>1. u # t /\ New(pushing[u])
      BY <1>3, <2>2, <2>4
    <3>2. pushing[u] # q
      BY <1>2, <2>2, <3>1 DEF Asks
    <3> QED
      BY <1>1, <1>3, <2>1, <3>1, <3>2 DEF New
  <2> QED
    BY <2>1, <2>2, <2>3, <2>4
<1>5. ASSUME NEW i \in Indices, Covered(i)', i # L
      PROVE  Covered(i)
  <2>1. Offset(i) # Offset(L) /\ Offset(i) \in Nat /\ Offset(L) \in Nat
    BY <1>2, <1>5, Offsets, RingTypes
  <2>2. /\ Offset(i)' = Offset(i) /\ Offset(head)' = Offset(head)
        /\ \A u \in Comms : Offset(index[u])' = Offset(index[u])
    BY <1>1 DEF Offset
  <2>3. CASE \E u \in Comms :
               /\ u # t
               /\ \/ /\ place[u] \in {"read", "stored", "again"}
                     /\ Offset(i) < Offset(index[u])
                  \/ /\ place[u] \in {"stored", "again"}
                     /\ Offset(i) <= Offset(index[u])
    BY <2>3 DEF Covered
  <2>4. CASE Offset(i) < Offset(head)
    BY <2>4 DEF Covered
  <2>5. CASE Offset(i) <= Offset(L)
    <3>1. Offset(i) < Offset(index[t])
      BY <2>1, <2>5 DEF L
    <3> QED
      BY <1>1, <3>1 DEF Covered
  <2>6. Offset(i) < Offset(L) => Offset(i) <= Offset(L)
    BY <2>1
  <2> QED
    BY <1>3, <1>5, <2>2, <2>3, <2>4, <2>5, <2>6 DEF Covered, L
<1>6. \A i \in Indices : Covered(i)' => slots'[i] \in unanswered'
                                         \/ i \in skipped'
  BY <1>1, <1>3, <1>5 DEF RingInv
<1>7. /\ \A e \in unanswered' : Known(e)'
      /\ \A i \in Indices : slots'[i] = NoQuery \/ Known(slots[i])'
  <2>1. \A e : Known(e) => e.n <= asked'[e.os]
    BY <1>1 DEF Known
  <2> QED
    BY <1>1, <1>2, <1>3, <2>1 DEF RingInv, Known
<1>8. \A i, j \in Indices : slots'[i] = slots'[j] => i = j \/ slots'[i] = NoQuery
  BY <1>2, <1>3 DEF RingInv, New
<1> QED
  BY <1>4, <1>6, <1>7, <1>8 DEF RingInv

\* A head that has moved meanwhile is one that is covered, or it is skipped.
LEMMA ReadAgainRing ==
    ASSUME TypeOK, RingInv, NEW t \in Comms, ReadAgain(t)
    PROVE  RingInv'
<1>1. /\ place[t] = "stored"
      /\ UNCHANGED <<slots, head, tail, pushing, unanswered, asked>>
      /\ place'[t] = "again" /\ index'[t] = head
      /\ \A u \in Comms : u # t => UNCHANGED <<place[u], index[u]>>
  BY RingTypes DEF ReadAgain
<1>2. /\ skipped \subseteq skipped'
      /\ \/ head \in skipped'
         \/ \E u \in Comms : place[u] \in {"stored", "again"} /\ index[u] = head
  BY DEF ReadAgain
<1>3. /\ head \in Indices /\ \A i \in Indices : Offset(i) \in Nat
      /\ \A i, j \in Indices : Offset(i) = Offset(j) => i = j
  BY Offsets, RingTypes
<1>4. ASSUME NEW i \in Indices, Covered(i)'
      PROVE  Covered(i) \/ i \in skipped'
  <2>1. CASE Offset(i) <= Offset(head)
    <3>1. i = head \/ Offset(i) < Offset(head)
      BY <1>3, <2>1
    <3>2. (\E u \in Comms : place[u] \in {"stored", "again"} /\ index[u] = head)
             => Covered(head)
      BY <1>3 DEF Covered
    <3> QED
      BY <1>2, <3>1, <3>2 DEF Covered
  <2>2. CASE ~(Offset(i) <= Offset(head))
    <3>1. ~(Offset(i) < Offset(head))
      BY <1>3, <2>2
    <3>2. \E u \in Comms \ {t} :
             \/ /\ place[u] \in {"read", "stored", "again"}
                /\ Offset(i) < Offset(index[u])
             \/ /\ place[u] \in {"stored", "again"}
                /\ Offset(i) <= Offset(index[u])
      BY <1>1, <1>4, <2>2, <3>1 DEF Covered, Offset
    <3> QED
      BY <3>2 DEF Covered
  <2> QED
    BY <2>1, <2>2
<1>5. \A u \in Comms : Pushing(u)' =>
         /\ pushing'[u] = pushing[u] /\ Pushing(u)
         /\ place'[u] \in {"tested", "read"} => place[u] \in {"tested", "read"}
  BY <1>1 DEF Pushing
<1> QED
  BY <1>1, <1>2, <1>4, <1>5, PlaceRing

\* The head moves to the slot behind the one read, perhaps backwards, or onto
\* the tail.
LEMMA AdvanceRing ==
    ASSUME TypeOK, RingInv, NEW t \in Comms, Advance(t)
    PROVE  RingInv'
<1>1. /\ place[t] \in {"stored", "again"} /\ head' = next(index[t])
      /\ UNCHANGED <<slots, tail, unanswered, skipped, asked>>
      /\ place'[t] = "idle"
      /\ \A u \in Comms : u # t => UNCHANGED <<place[u], index[u], pushing[u]>>
  BY RingTypes DEF Advance
<1>2. /\ index[t] \in Indices /\ tail \in Indices
      /\ \A i \in Indices : Offset(i) \in Nat
  BY RingTypes, Offsets
<1>3. ASSUME NEW i \in Indices, Covered(i)'
      PROVE  Covered(i)
  <2>1. CASE Offset(i)' < Offset(head)'
    <3>1. Offset(i) < Offset(next(index[t]))
      BY <1>1, <2>1 DEF Offset
    <3>2. Offset(i) <= Offset(index[t])
      <4>1. CASE next(index[t]) = tail
        <5>1. Offset(next(index[t])) = 0
          BY <1>2, <4>1, Offsets
        <5> QED
          BY <1>2, <3>1, <5>1
      <4>2. CASE next(index[t]) # tail
        <5>1. Offset(next(index[t])) = Offset(index[t]) + 1
          BY <1>2, <4>2, Offsets
        <5> QED
          BY <1>2, <3>1, <5>1
      <4> QED
        BY <4>1, <4>2
    <3> QED
      BY <1>1, <3>2 DEF Covered
  <2>2. CASE ~(Offset(i)' < Offset(head)')
    BY <1>1, <1>3, <2>2 DEF Covered, Offset
  <2> QED
    BY <2>1, <2>2
<1>4. \A u \in Comms : Pushing(u)' =>
         /\ pushing'[u] = pushing[u] /\ Pushing(u)
         /\ place'[u] \in {"tested", "read"} => place[u] \in {"tested", "read"}
  BY <1>1 DEF Pushing
<1> QED
  BY <1>1, <1>3, <1>4, PlaceRing

\* The query at the tail is still to be answered, unless the slot has been
\* skipped, and no other slot holds it.
LEMMA PopRing ==
    ASSUME TypeOK, RingInv, PopQuery
    PROVE  RingInv' /\ (query' \in unanswered \/ tail \in skipped)
<1>1. /\ tail # head /\ query' = slots[tail] /\ tail' = next(tail)
      /\ unanswered' = unanswered \ {query'} /\ skipped' = skipped \ {tail}
      /\ UNCHANGED <<slots, head, pushing, place, index, asked>>
      /\ \A t \in Comms : ~Pushing(t)
  BY DEF PopQuery, CommandRuns, empty
<1>2. /\ head \in Indices /\ tail \in Indices
      /\ \A i \in Indices : Offset(i) \in Nat
  BY RingTypes, Offsets
<1>3. Covered(tail)
  <2>1. Offset(tail) = 0 /\ Offset(head) # 0
    BY <1>1, <1>2, Offsets
  <2> QED
    BY <1>2, <2>1 DEF Covered
<1>4. query' \in unanswered \/ tail \in skipped
  BY <1>1, <1>2, <1>3 DEF RingInv
<1>5. ASSUME NEW i \in Indices, Covered(i)'
      PROVE  i # tail /\ Covered(i)
  <2>1. Offset(i)' < Offset(head)'
    BY <1>1, <1>5 DEF Covered, Pushing
  <2>2. ASSUME NEW k \in Indices
        PROVE  Offset(k)' = IF k = tail THEN RingSize - 1 ELSE Offset(k) - 1
    BY <1>1, <1>2, NextSlot, Assumptions DEF Offset, Indices
  <2>3. /\ Offset(head)' = Offset(head) - 1
        /\ Offset(head) \in Indices /\ Offset(i) \in Indices
    BY <1>1, <1>2, <2>2, Offsets
  <2>4. i # tail
    BY <2>1, <2>2, <2>3, Assumptions DEF Indices
  <2>5. Offset(i) < Offset(head)
    BY <2>1, <2>2, <2>3, <2>4, Assumptions DEF Indices
  <2> QED
    BY <2>4, <2>5 DEF Covered
<1>6. \A i \in Indices : Covered(i)' => slots'[i] \in unanswered'
                                         \/ i \in skipped'
  <2>1. \A e \in unanswered : e # NoQuery
    BY RingTypes, EntryFields
  <2> QED
    BY <1>1, <1>2, <1>5, <2>1 DEF RingInv
<1>7. \A t \in Comms : ~Pushing(t)'
  BY <1>1 DEF Pushing
<1>8. /\ \A e \in unanswered' : Known(e)'
      /\ \A i \in Indices : slots'[i] = NoQuery \/ Known(slots[i])'
      /\ \A i, j \in Indices :
            slots'[i] = slots'[j] => i = j \/ slots'[i] = NoQuery
  BY <1>1 DEF RingInv, Known
<1> QED
  BY <1>4, <1>6, <1>7, <1>8 DEF RingInv

\* Nothing else touches the ring.
LEMMA SameRing ==
    ASSUME RingInv,
           UNCHANGED <<slots, head, tail, pushing, place, index, unanswered,
                       skipped, asked>>
    PROVE  RingInv'
<1>1. \A i : Covered(i)' <=> Covered(i)
  BY DEF Covered, Offset
<1>2. \A e : (Known(e)' <=> Known(e)) /\ (New(e)' <=> New(e))
  BY DEF Known, New
<1>3. \A t \in Comms : Pushing(t)' <=> Pushing(t)
  BY DEF Pushing
<1> QED
  BY <1>1, <1>2, <1>3 DEF RingInv, Known, New

LEMMA StepRing ==
    ASSUME IInv, [Next]_vars
    PROVE  RingInv'
<1>1. TypeOK /\ RingInv
  BY DEF IInv
<1>2. ASSUME NEW s \in Consoles, Ask(s, s)
      PROVE  RingInv'
  BY <1>1, <1>2, AskRing, Assumptions DEF Asks
<1>3. ASSUME NEW c \in Conns, Query(c)
      PROVE  RingInv'
  BY <1>1, <1>3, AskRing, Assumptions DEF Asks, Query
<1>4. ASSUME NEW t \in Comms, push_back(t)
      PROVE  RingInv'
  BY <1>1, <1>4, ReadHeadRing, StoreRing, ReadAgainRing, AdvanceRing
  DEF push_back
<1>5. CASE PopQuery
  BY <1>1, <1>5, PopRing
<1>6. ASSUME NEW s \in Consoles, ConsoleLine(s)
      PROVE  RingInv'
  BY <1>1, <1>6, SameRing DEF ConsoleLine, ring
<1>7. CASE \/ Receive \/ Dispatched \/ Defined
           \/ Answered \/ QueriesDone \/ Finish
  BY <1>1, <1>7, SameRing
  DEF Receive, Dispatched, Defined, Answered, QueriesDone, Finish, ring
<1>8. ASSUME NEW c \in Conns, NEW k \in 1 .. 2,
             Accept(c) \/ Data(c, k) \/ Gone(c)
      PROVE  RingInv'
  BY <1>1, <1>8, SameRing DEF Accept, Data, Gone, consoleVars, ring
<1>9. CASE Resubmit \/ GiveUp \/ Collect \/ UNCHANGED vars
  BY <1>1, <1>9, SameRing
  DEF Resubmit, GiveUp, Collect, vars, consoleVars, ring
<1>10. 1 \in 1 .. 2
  OBVIOUS
<1> QED
  BY <1>2, <1>3, <1>4, <1>5, <1>6, <1>7, <1>8, <1>9, <1>10
  DEF Next, ConsolesNext, CommandThread, ShellThread

-----------------------------------------------------------------------------
(***************************************************************************)
(* The lines under way.                                                    *)
(***************************************************************************)

MaybeEntry == Entry \cup {None}

LEMMA LineFields ==
    /\ \A e \in MaybeEntry : /\ e.n \in Nat
                             /\ e # None => e \in Entry
                             /\ e.os \in Streams <=> e # None
    /\ None \in MaybeEntry /\ Entry \subseteq MaybeEntry
BY EntryFields, Assumptions DEF MaybeEntry

\* What is under way comes before e.
Before(m, l, e) ==
    /\ \A i \in DOMAIN m : m[i].os = e.os => m[i].n < e.n
    /\ l.os = e.os => l.n < e.n

LEMMA QueueEntries ==
    ASSUME NEW m \in Seq(Entry)
    PROVE  /\ Len(m) \in Nat /\ DOMAIN m = 1 .. Len(m)
           /\ \A i \in DOMAIN m : m[i] \in Entry
OBVIOUS

LEMMA Appended ==
    ASSUME NEW m \in Seq(Entry), NEW e \in Entry
    PROVE  /\ Append(m, e) \in Seq(Entry)
           /\ DOMAIN Append(m, e) = 1 .. Len(m) + 1
           /\ Append(m, e)[Len(m) + 1] = e
           /\ \A i \in DOMAIN m : /\ Append(m, e)[i] = m[i]
                                  /\ i \in DOMAIN Append(m, e)
           /\ \A i \in DOMAIN Append(m, e) : i = Len(m) + 1 \/ i \in DOMAIN m
BY AppendProperties

LEMMA Removed ==
    ASSUME NEW m \in Seq(Entry), m # <<>>
    PROVE  /\ Head(m) \in Entry /\ Tail(m) \in Seq(Entry)
           /\ 1 \in DOMAIN m /\ Head(m) = m[1]
           /\ \A i \in DOMAIN Tail(m) : /\ i \in Nat \ {0} /\ i + 1 \in DOMAIN m
                                        /\ Tail(m)[i] = m[i + 1]
<1>1. /\ Head(m) \in Entry /\ Tail(m) \in Seq(Entry)
      /\ Len(Tail(m)) = Len(m) - 1 /\ Len(m) \in Nat
      /\ \A i \in 1 .. Len(Tail(m)) : Tail(m)[i] = m[i + 1]
  BY HeadTailProperties
<1>2. DOMAIN m = 1 .. Len(m) /\ DOMAIN Tail(m) = 1 .. Len(Tail(m))
  BY <1>1
<1>3. Len(m) # 0
  BY EmptySeq
<1> QED
  BY <1>1, <1>2, <1>3

\* A line that comes after all others goes to the end of the queue.
LEMMA OrderedAppend ==
    ASSUME NEW m \in Seq(Entry), NEW l \in MaybeEntry, NEW w \in MaybeEntry,
           NEW count, NEW e \in Entry,
           Ordered(m, l, w, count), Before(m, l, e), e.n <= count[e.os],
           w.os # e.os
    PROVE  Ordered(Append(m, e), l, w, count)
<1> DEFINE a == Append(m, e)
<1>1. /\ DOMAIN a = 1 .. Len(m) + 1 /\ a[Len(m) + 1] = e /\ Len(m) \in Nat
      /\ DOMAIN m = 1 .. Len(m)
      /\ \A i \in DOMAIN m : a[i] = m[i]
      /\ \A i \in DOMAIN a : i = Len(m) + 1 \/ i \in DOMAIN m
  BY Appended, QueueEntries
<1> HIDE DEF a
<1>2. ASSUME NEW i \in DOMAIN a, NEW j \in DOMAIN a, i < j, a[i].os = a[j].os
      PROVE  a[i].n < a[j].n
  <2>1. i \in DOMAIN m
    BY <1>1, <1>2
  <2>2. CASE j = Len(m) + 1
    BY <1>1, <1>2, <2>1, <2>2 DEF Before
  <2>3. CASE j \in DOMAIN m
    BY <1>1, <1>2, <2>1, <2>3 DEF Ordered
  <2> QED
    BY <1>1, <2>2, <2>3
<1>3. ASSUME NEW i \in DOMAIN a
      PROVE  /\ l.os = a[i].os => l.n < a[i].n
             /\ w.os = a[i].os => a[i].n < w.n
             /\ a[i].n <= count[a[i].os]
  <2>1. CASE i = Len(m) + 1
    BY <1>1, <2>1 DEF Before
  <2>2. CASE i \in DOMAIN m
    BY <1>1, <2>2 DEF Ordered
  <2> QED
    BY <1>1, <2>1, <2>2
<1>4. Ordered(a, l, w, count)
  BY <1>2, <1>3 DEF Ordered
<1> QED
  BY <1>4 DEF a

\* It may also have to wait, until it is placed or dropped.
LEMMA OrderedWait ==
    ASSUME NEW m, NEW l, NEW count, NEW e \in Entry,
           Ordered(m, l, None, count), Before(m, l, e), e.n <= count[e.os]
    PROVE  Ordered(m, l, e, count)
BY DEF Ordered, Before

LEMMA OrderedPlace ==
    ASSUME NEW m \in Seq(Entry), NEW l, NEW w \in MaybeEntry, NEW count,
           Ordered(m, l, w, count)
    PROVE  /\ Ordered(m, l, None, count)
           /\ Ordered(m, None, w, count)
           /\ w # None => Before(m, l, w) /\ w.n <= count[w.os]
<1>1. \A i \in DOMAIN m : m[i].os # None.os
  BY QueueEntries, EntryFields, Assumptions
<1>2. w # None => None.os # w.os
  BY EntryFields, LineFields, Assumptions
<1> QED
  BY <1>1, <1>2 DEF Ordered, Before

\* The command thread takes the first line.
LEMMA OrderedReceive ==
    ASSUME NEW m \in Seq(Entry), NEW l, NEW w, NEW count,
           Ordered(m, l, w, count), m # <<>>
    PROVE  Ordered(Tail(m), Head(m), w, count)
<1>1. /\ 1 \in DOMAIN m /\ Head(m) = m[1]
      /\ \A i \in DOMAIN Tail(m) : /\ i \in Nat \ {0} /\ i + 1 \in DOMAIN m
                                   /\ Tail(m)[i] = m[i + 1]
  BY Removed
<1> DEFINE r == Tail(m)
           h == Head(m)
<1> HIDE DEF r, h
<1>2. ASSUME NEW i \in DOMAIN r, NEW j \in DOMAIN r, i < j, r[i].os = r[j].os
      PROVE  r[i].n < r[j].n
  <2>1. /\ i + 1 \in DOMAIN m /\ j + 1 \in DOMAIN m /\ i + 1 < j + 1
        /\ r[i] = m[i + 1] /\ r[j] = m[j + 1]
    BY <1>1, <1>2 DEF r
  <2> QED
    BY <1>2, <2>1 DEF Ordered
<1>3. ASSUME NEW i \in DOMAIN r
      PROVE  /\ h.os = r[i].os => h.n < r[i].n
             /\ w.os = r[i].os => r[i].n < w.n
             /\ r[i].n <= count[r[i].os]
  <2>1. i + 1 \in DOMAIN m /\ 1 < i + 1 /\ r[i] = m[i + 1] /\ h = m[1]
    BY <1>1, <1>3 DEF r, h
  <2> QED
    BY <1>1, <2>1 DEF Ordered
<1>4. h.n <= count[h.os] /\ (h.os = w.os => h.n < w.n)
  BY <1>1 DEF Ordered, h
<1> QED
  BY <1>2, <1>3, <1>4 DEF Ordered, r, h

\* Numbers only go up.
LEMMA OrderedCount ==
    ASSUME NEW m \in Seq(Entry), NEW l \in MaybeEntry, NEW w \in MaybeEntry,
           NEW count \in [Streams -> Nat], NEW more \in [Streams -> Nat],
           \A o \in Streams : count[o] <= more[o],
           Ordered(m, l, w, count)
    PROVE  Ordered(m, l, w, more)
<1>1. ASSUME NEW e \in Entry, e.n <= count[e.os]
      PROVE  e.n <= more[e.os]
  <2>1. e.os \in Streams /\ e.n \in Nat
    BY EntryFields
  <2>2. count[e.os] \in Nat /\ more[e.os] \in Nat /\ count[e.os] <= more[e.os]
    BY <2>1
  <2> QED
    BY <1>1, <2>1, <2>2
<1>2. \A i \in DOMAIN m : m[i].n <= more[m[i].os]
  BY <1>1, QueueEntries DEF Ordered
<1>3. /\ l # None => l.n <= more[l.os]
      /\ w # None => w.n <= more[w.os]
  BY <1>1 DEF Ordered, MaybeEntry
<1> QED
  BY <1>2, <1>3 DEF Ordered

\* Every step keeps the order.
LEMMA StepOrder ==
    ASSUME IInv, [Next]_vars
    PROVE  OrderInv'
<1>1. /\ messages \in Seq(Entry)
      /\ line \in MaybeEntry /\ waiting \in MaybeEntry
      /\ lines \in [Streams -> Nat] /\ Ordered(messages, line, waiting, lines)
      /\ shells \subseteq Conns
  BY DEF IInv, TypeOK, ConsolesTypeOK, OrderInv, MaybeEntry
<1> DEFINE Below(e) == Before(messages, line, e)
<1>2. ASSUME NEW o \in Streams, NEW e \in Entry, e.os = o, lines[o] < e.n
      PROVE  Below(e)
  <2>1. /\ \A i \in DOMAIN messages :
              messages[i].n \in Nat /\ messages[i].n <= lines[messages[i].os]
        /\ line # None => line.n \in Nat /\ line.n <= lines[line.os]
        /\ line = None => line.os # o
        /\ lines[o] \in Nat /\ e.n \in Nat
    BY <1>1, QueueEntries, EntryFields, LineFields, Assumptions DEF Ordered
  <2> QED
    BY <1>2, <2>1 DEF Before
<1>3. ASSUME NEW s \in Consoles, ConsoleLine(s), UNCHANGED shellVars
      PROVE  OrderInv'
  <2> DEFINE e == [os |-> s, n |-> lines'[s]]
  <2>1. /\ s \in Streams /\ lines' = [lines EXCEPT ![s] = @ + 1]
        /\ messages' = Append(messages, e) /\ UNCHANGED <<line, waiting>>
    BY <1>3, Assumptions DEF ConsoleLine, command, shellVars
  <2>2. /\ lines' \in [Streams -> Nat] /\ lines'[s] = lines[s] + 1
        /\ lines[s] \in Nat /\ \A o \in Streams : lines[o] <= lines'[o]
    BY <1>1, <2>1
  <2>3. e \in Entry /\ e.os = s /\ e.n = lines'[s]
    BY <2>1, <2>2 DEF Entry
  <2> HIDE DEF e
  <2>4. Below(e) /\ e.n <= lines'[e.os]
    BY <1>2, <2>1, <2>2, <2>3
  <2>5. Ordered(messages, line, waiting, lines')
    BY <1>1, <2>2, OrderedCount
  <2>6. waiting.os # e.os
    BY <1>1, <2>3, Assumptions, EntryFields DEF IInv, StreamInv
  <2>7. Ordered(Append(messages, e), line, waiting, lines')
    BY <1>1, <2>3, <2>4, <2>5, <2>6, OrderedAppend
  <2> QED
    BY <2>1, <2>7 DEF OrderInv
<1>4. CASE Receive /\ UNCHANGED shellVars
  <2>1. UNCHANGED <<lines, waiting>>
    BY <1>4 DEF Receive, shellVars
  <2>2. CASE UNCHANGED <<line, messages>>
    BY <1>1, <2>1, <2>2 DEF OrderInv
  <2>3. CASE messages # <<>> /\ line' = Head(messages)
             /\ messages' = Tail(messages)
    BY <1>1, <2>1, <2>3, OrderedReceive DEF OrderInv
  <2> QED
    BY <1>4, <2>2, <2>3 DEF Receive
<1>5. CASE (Finish \/ Defined) /\ UNCHANGED shellVars
  <2>1. UNCHANGED <<lines, waiting, messages>> /\ line' = None
    BY <1>5 DEF Finish, Defined, shellVars
  <2> QED
    BY <1>1, <2>1, OrderedPlace DEF OrderInv
<1>6. ASSUME NEW c \in Conns, NEW k \in 1 .. 2, Data(c, k)
      PROVE  OrderInv'
  <2> DEFINE e1 == Arriving(c, 1)
             e2 == Arriving(c, 2)
             a1 == Append(messages, e1)
  <2>1. /\ c \in Streams /\ UNCHANGED line /\ waiting = None
        /\ lines' = [lines EXCEPT ![c] = @ + k] /\ k \in Nat
    BY <1>6, Assumptions DEF Data, command, Selecting
  <2>2. /\ lines' \in [Streams -> Nat] /\ lines'[c] = lines[c] + k
        /\ lines[c] \in Nat /\ \A o \in Streams : lines[o] <= lines'[o]
    BY <1>1, <2>1
  <2>3. /\ e1 \in Entry /\ e1.os = c /\ e1.n = lines[c] + 1
        /\ e2 \in Entry /\ e2.os = c /\ e2.n = lines[c] + 2
    BY <2>1, <2>2 DEF Entry, Arriving
  <2> HIDE DEF e1, e2
  <2>4. /\ Below(e1) /\ e1.n <= lines'[e1.os] /\ Below(e2)
        /\ k = 2 => e2.n <= lines'[e2.os]
        /\ None.os # c
    BY <1>2, <2>1, <2>2, <2>3, EntryFields, Assumptions
  <2>5. Ordered(messages, line, None, lines')
    BY <1>1, <2>1, <2>2, OrderedCount
  <2>6. Ordered(messages, line, e1, lines')
    BY <2>3, <2>4, <2>5, OrderedWait
  <2>7. Ordered(a1, line, None, lines')
    BY <1>1, <2>1, <2>3, <2>4, <2>5, OrderedAppend
  <2>8. a1 \in Seq(Entry) /\ Before(a1, line, e2)
    <3>1. /\ a1 \in Seq(Entry)
          /\ \A i \in DOMAIN a1 :
                \/ a1[i] = e1
                \/ i \in DOMAIN messages /\ a1[i] = messages[i]
      BY <1>1, <2>3, Appended
    <3>2. e1.n < e2.n
      BY <2>2, <2>3
    <3> HIDE DEF a1
    <3> QED
      BY <2>4, <3>1, <3>2 DEF Before
  <2> HIDE DEF a1
  <2>9. k = 2 => Ordered(a1, line, e2, lines')
    BY <2>3, <2>4, <2>7, <2>8, OrderedWait
  <2>10. k = 2 => Ordered(Append(a1, e2), line, None, lines')
    BY <1>1, <2>1, <2>3, <2>4, <2>7, <2>8, OrderedAppend
  <2>11. \/ messages' = messages /\ waiting' = e1
         \/ messages' = a1 /\ waiting' = None
         \/ k = 2 /\ messages' = a1 /\ waiting' = e2
         \/ k = 2 /\ messages' = Append(a1, e2) /\ waiting' = None
    BY <1>6, DataEffect DEF e1, e2, a1, IInv
  <2> QED
    BY <2>1, <2>6, <2>7, <2>9, <2>10, <2>11 DEF OrderInv
<1>7. CASE Resubmit
  <2>1. /\ waiting # None /\ waiting' = None
        /\ messages' = Append(messages, waiting) /\ UNCHANGED <<line, lines>>
    BY <1>7 DEF Resubmit, command
  <2>2. /\ Ordered(messages, line, None, lines)
        /\ Below(waiting) /\ waiting.n <= lines[waiting.os]
        /\ waiting \in Entry /\ None.os # waiting.os
    BY <1>1, <2>1, OrderedPlace, LineFields, EntryFields, Assumptions
  <2>3. Ordered(Append(messages, waiting), line, None, lines)
    BY <1>1, <2>2, OrderedAppend, LineFields
  <2> QED
    BY <2>1, <2>3 DEF OrderInv
<1>8. CASE GiveUp
  <2>1. waiting' = None /\ UNCHANGED <<messages, line, lines>>
    BY <1>8 DEF GiveUp, consoleVars, command
  <2> QED
    BY <1>1, <2>1, OrderedPlace DEF OrderInv
<1>9. ASSUME UNCHANGED <<messages, line, waiting, lines>>
      PROVE  OrderInv'
  BY <1>1, <1>9 DEF OrderInv
<1>10. ASSUME NEW t \in Comms, NEW s \in Streams, Ask(t, s),
              UNCHANGED waiting
       PROVE  OrderInv'
  BY <1>9, <1>10 DEF Ask, command
<1>11. ASSUME NEW t \in Comms, push_back(t), UNCHANGED shellVars
       PROVE  OrderInv'
  BY <1>9, <1>11
  DEF push_back, ReadHead, Store, ReadAgain, Advance, command, shellVars
<1>12. CASE /\ Dispatched \/ PopQuery \/ Answered \/ QueriesDone
            /\ UNCHANGED shellVars
  BY <1>9, <1>12 DEF Dispatched, PopQuery, Answered, QueriesDone, shellVars
<1>13. ASSUME NEW c \in Conns, Accept(c) \/ Query(c) \/ Gone(c)
       PROVE  OrderInv'
  <2>1. CASE Query(c)
    BY <1>10, <2>1, Assumptions DEF Query
  <2>2. CASE Accept(c) \/ Gone(c)
    BY <1>9, <2>2 DEF Accept, Gone, consoleVars, command
  <2> QED
    BY <1>13, <2>1, <2>2
<1>14. CASE Collect \/ UNCHANGED vars
  BY <1>9, <1>14 DEF Collect, vars, consoleVars, shellVars, command
<1>15. \A s \in Consoles : s \in Comms /\ s \in Streams
  BY Assumptions
<1>16. UNCHANGED shellVars => UNCHANGED waiting
  BY DEF shellVars
<1> HIDE DEF Below
<1> QED
  BY <1>3, <1>4, <1>5, <1>6, <1>7, <1>8, <1>10, <1>11, <1>12, <1>13, <1>14,
     <1>15, <1>16
  DEF Next, ConsolesNext, CommandThread, ShellThread

\* What is under way after a line is appended, received, or dropped.
LEMMA UnderAppend ==
    ASSUME NEW m \in Seq(Entry), NEW l, NEW w, NEW c, NEW e \in Entry
    PROVE  /\ Under(Append(m, e), l, w, c) <=> Under(m, l, w, c) \/ e.os = c
           /\ AtMostOne(m, l, w, c) /\ (e.os = c => ~Under(m, l, w, c))
                 => AtMostOne(Append(m, e), l, w, c)
<1> DEFINE a == Append(m, e)
<1>1. /\ Len(m) + 1 \in DOMAIN a /\ a[Len(m) + 1] = e
      /\ \A i \in DOMAIN m : a[i] = m[i] /\ i \in DOMAIN a
      /\ \A i \in DOMAIN a : i = Len(m) + 1 \/ i \in DOMAIN m
  BY Appended, QueueEntries
<1> HIDE DEF a
<1>2. (\E i \in DOMAIN a : a[i].os = c)
         <=> (\E i \in DOMAIN m : m[i].os = c) \/ e.os = c
  BY <1>1
<1>3. Under(a, l, w, c) <=> Under(m, l, w, c) \/ e.os = c
  BY <1>2 DEF Under
<1>4. ASSUME AtMostOne(m, l, w, c), e.os = c => ~Under(m, l, w, c)
      PROVE  AtMostOne(a, l, w, c)
  <2>1. CASE e.os = c
    <3>1. /\ l.os # c /\ w.os # c /\ \A i \in DOMAIN m : m[i].os # c
      BY <1>4, <2>1 DEF Under
    <3>2. \A i \in DOMAIN a : a[i].os = c => i = Len(m) + 1
      BY <1>1, <3>1
    <3> QED
      BY <3>1, <3>2 DEF AtMostOne
  <2>2. CASE e.os # c
    <3>1. \A i \in DOMAIN a : a[i].os = c => i \in DOMAIN m /\ m[i].os = c
      BY <1>1, <2>2
    <3> QED
      BY <1>4, <3>1 DEF AtMostOne
  <2> QED
    BY <2>1, <2>2
<1> QED
  BY <1>3, <1>4 DEF a

LEMMA UnderReceive ==
    ASSUME NEW m \in Seq(Entry), m # <<>>, NEW l, NEW w, NEW c
    PROVE  /\ Under(Tail(m), Head(m), w, c) => Under(m, l, w, c)
           /\ AtMostOne(m, l, w, c) => AtMostOne(Tail(m), Head(m), w, c)
<1> DEFINE r == Tail(m)
           h == Head(m)
<1>1. /\ 1 \in DOMAIN m /\ h = m[1]
      /\ \A i \in DOMAIN r : /\ i \in Nat \ {0} /\ i + 1 \in DOMAIN m
                             /\ r[i] = m[i + 1]
  BY Removed
<1> HIDE DEF r, h
<1>2. Under(r, h, w, c) => Under(m, l, w, c)
  BY <1>1 DEF Under
<1>3. ASSUME AtMostOne(m, l, w, c)
      PROVE  AtMostOne(r, h, w, c)
  <2>1. \A i, j \in DOMAIN r : r[i].os = c /\ r[j].os = c => i = j
    <3> SUFFICES ASSUME NEW i \in DOMAIN r, NEW j \in DOMAIN r,
                        r[i].os = c, r[j].os = c
                 PROVE  i = j
      OBVIOUS
    <3>1. i + 1 = j + 1 /\ i \in Nat /\ j \in Nat
      BY <1>1, <1>3 DEF AtMostOne
    <3> QED
      BY <3>1
  <2>2. h.os = c => w.os # c /\ \A i \in DOMAIN r : r[i].os # c
    <3> SUFFICES ASSUME h.os = c, NEW i \in DOMAIN r, r[i].os = c
                 PROVE  FALSE
      BY <1>1, <1>3 DEF AtMostOne
    <3>1. 1 = i + 1 /\ i \in Nat \ {0}
      BY <1>1, <1>3 DEF AtMostOne
    <3> QED
      BY <3>1
  <2>3. w.os = c => \A i \in DOMAIN r : r[i].os # c
    BY <1>1, <1>3 DEF AtMostOne
  <2> QED
    BY <2>1, <2>2, <2>3 DEF AtMostOne
<1> QED
  BY <1>2, <1>3 DEF r, h

LEMMA UnderDrop ==
    ASSUME NEW m, NEW l, NEW w, NEW c \in Conns
    PROVE  /\ Under(m, None, w, c) => Under(m, l, w, c)
           /\ Under(m, l, None, c) => Under(m, l, w, c)
           /\ AtMostOne(m, l, w, c) => /\ AtMostOne(m, None, w, c)
                                       /\ AtMostOne(m, l, None, c)
                                       /\ l.os = c => ~Under(m, None, w, c)
                                       /\ w.os = c => ~Under(m, l, None, c)
<1>1. None.os # c
  BY EntryFields, Assumptions
<1> QED
  BY <1>1 DEF Under, AtMostOne

\* A line that can be placed, one that finds room at last, and one that waits.
LEMMA UnderPlace ==
    ASSUME NEW m \in Seq(Entry), NEW l, NEW w \in Entry, NEW c \in Conns
    PROVE  /\ Under(Append(m, w), l, None, c) <=> Under(m, l, w, c)
           /\ AtMostOne(m, l, w, c) => AtMostOne(Append(m, w), l, None, c)
           /\ AtMostOne(m, l, None, c) /\ (w.os = c => ~Under(m, l, None, c))
                 => AtMostOne(m, l, w, c)
<1>1. None.os # c
  BY EntryFields, Assumptions
<1>2. Under(Append(m, w), l, None, c) <=> Under(m, l, None, c) \/ w.os = c
  BY UnderAppend
<1>3. Under(m, l, None, c) \/ w.os = c <=> Under(m, l, w, c)
  BY <1>1 DEF Under
<1>4. AtMostOne(m, l, w, c) => AtMostOne(Append(m, w), l, None, c)
  BY UnderAppend, UnderDrop
<1>5. AtMostOne(m, l, None, c) /\ (w.os = c => ~Under(m, l, None, c))
         => AtMostOne(m, l, w, c)
  BY <1>1 DEF AtMostOne, Under
<1> QED
  BY <1>2, <1>3, <1>4, <1>5

-----------------------------------------------------------------------------
(***************************************************************************)
(* Streams and their clients.                                              *)
(***************************************************************************)

\* Closing a connection deletes its stream or leaves it to the collector.
LEMMA CloseEffect ==
    ASSUME ShellTypes, NEW c \in shells, close_shell(c)
    PROVE  /\ shells' = shells \ {c}
           /\ \/ deleted' = deleted \cup {c} /\ done[c] /\ gc' = gc
              \/ deleted' = deleted /\ ~done[c]
           /\ \A i \in DOMAIN gc' :
                 \/ gc'[i] = c
                 \/ \E j \in DOMAIN gc : gc'[i] = gc[j]
<1>1. gc \in Seq(Conns) /\ c \in Conns /\ shells' = shells \ {c}
  BY DEF ShellTypes, close_shell
<1>2. CASE done[c]
  BY <1>1, <1>2 DEF close_shell, Released
<1>3. CASE ~done[c]
  <2>1. deleted' = deleted /\ gc' = Collected(c)
    BY <1>3 DEF close_shell, Released
  <2>2. CASE gc' = <<>>
    BY <1>1, <1>3, <2>1, <2>2
  <2>3. CASE gc' = Append(gc, c)
    <3>1. \A i \in DOMAIN gc' :
             gc'[i] = c \/ (i \in DOMAIN gc /\ gc'[i] = gc[i])
      BY <1>1, <2>3, AppendProperties
    <3> QED
      BY <1>1, <1>3, <2>1, <3>1
  <2> QED
    BY <2>1, <2>2, <2>3 DEF Collected
<1> QED
  BY <1>2, <1>3

\* Every step keeps that streams come and go once.
LEMMA StepStream ==
    ASSUME IInv, [Next]_vars
    PROVE  StreamInv'
<1>1. /\ ShellTypes /\ StreamInv /\ TypeOK /\ IInv
      /\ messages \in Seq(Entry) /\ line \in MaybeEntry
      /\ shells \subseteq Conns \ unused /\ unused \subseteq Conns
      /\ gc \in Seq(Conns) /\ deleted \subseteq Conns
  BY TypeParts DEF IInv, TypeOK, ConsolesTypeOK, MaybeEntry, ShellTypes
<1> DEFINE Idle == phase = "receive" \/ need_done => line = None
           Served == /\ \A c \in deleted : c \notin shells \cup unused
                     /\ \A i \in DOMAIN gc : gc[i] \notin shells \cup unused
                     /\ waiting # None => waiting.os \in shells
<1>2. StreamInv <=> Served /\ Idle
  BY DEF StreamInv
<1>3. StreamInv' <=> Served' /\ Idle'
  BY DEF StreamInv
<1>4. ASSUME UNCHANGED shellVars
      PROVE  Served'
  BY <1>1, <1>2, <1>4 DEF shellVars
<1>5. ASSUME UNCHANGED command
      PROVE  Idle'
  BY <1>1, <1>2, <1>5 DEF command
<1>6. ASSUME ConsolesNext
      PROVE  Idle'
  <2>1. ASSUME NEW s \in Consoles, Ask(s, s) \/ ConsoleLine(s)
        PROVE  Idle'
    BY <1>5, <2>1 DEF Ask, ConsoleLine
  <2>2. ASSUME NEW t \in Comms, push_back(t)
        PROVE  Idle'
    BY <1>5, <2>2 DEF push_back, ReadHead, Store, ReadAgain, Advance
  <2>3. CASE Receive
    BY <1>1, <1>2, <2>3 DEF Receive
  <2>4. CASE Dispatched
    BY <1>1, <1>2, <2>4 DEF Dispatched
  <2>5. CASE PopQuery
    BY <1>1, <1>2, <2>5 DEF PopQuery
  <2>6. CASE Answered
    BY <1>1, <1>2, <2>6 DEF Answered
  <2>7. CASE QueriesDone
    BY <1>1, <1>2, <2>7 DEF QueriesDone
  <2>8. CASE Finish \/ Defined
    BY <1>1, <1>2, <2>8 DEF Finish, Defined
  <2> HIDE DEF Idle
  <2> QED
    BY <1>6, <2>1, <2>2, <2>3, <2>4, <2>5, <2>6, <2>7, <2>8
    DEF ConsolesNext, CommandThread
<1> HIDE DEF Idle
<1>7. ASSUME NEW c \in Conns, Accept(c)
      PROVE  Served' /\ Idle'
  BY <1>1, <1>2, <1>5, <1>7 DEF Accept, consoleVars
<1>8. ASSUME NEW c \in Conns, NEW k \in 1 .. 2, Data(c, k)
      PROVE  Served' /\ Idle'
  <2>1. /\ c \in shells /\ UNCHANGED <<command, unused, shells, gc, deleted>>
    BY <1>8 DEF Data
  <2>2. waiting' # None => waiting'.os = c
    <3>1. Arriving(c, 1).os = c /\ Arriving(c, 2).os = c
      BY DEF Arriving
    <3> QED
      BY <1>1, <1>8, <3>1, DataEffect
  <2> QED
    BY <1>1, <1>2, <1>5, <2>1, <2>2
<1>9. ASSUME NEW c \in Conns, Query(c)
      PROVE  Served' /\ Idle'
  BY <1>1, <1>2, <1>5, <1>9 DEF Query, Ask
<1>10. ASSUME NEW c \in shells, close_shell(c), UNCHANGED <<command, unused>>,
              waiting = None \/ waiting' = None, waiting' \in {None, waiting}
       PROVE  Served' /\ Idle'
  BY <1>1, <1>2, <1>5, <1>10, CloseEffect
<1>11. ASSUME NEW c \in Conns, Gone(c)
       PROVE  Served' /\ Idle'
  BY <1>10, <1>11 DEF Gone, consoleVars, Selecting
<1>12. ASSUME Resubmit
       PROVE  Served' /\ Idle'
  BY <1>1, <1>2, <1>5, <1>12 DEF Resubmit
<1>13. ASSUME GiveUp
       PROVE  Served' /\ Idle'
  <2>1. waiting.os \in shells
    BY <1>1, <1>2, <1>13 DEF GiveUp
  <2> QED
    BY <1>10, <1>13, <2>1 DEF GiveUp, consoleVars
<1>14. ASSUME Collect
       PROVE  Served' /\ Idle'
  <2>1. /\ gc # <<>> /\ gc' = Tail(gc) /\ deleted' = deleted \cup {Head(gc)}
        /\ UNCHANGED <<command, unused, shells, waiting>>
    BY <1>14 DEF Collect, consoleVars
  <2>2. /\ 1 \in DOMAIN gc /\ Head(gc) = gc[1]
        /\ \A i \in DOMAIN gc' : \E j \in DOMAIN gc : gc'[i] = gc[j]
    <3>1. /\ Tail(gc) \in Seq(Conns) /\ Len(Tail(gc)) = Len(gc) - 1
          /\ Len(gc) \in Nat /\ Len(gc) # 0 /\ Head(gc) = gc[1]
          /\ \A i \in 1 .. Len(Tail(gc)) : Tail(gc)[i] = gc[i + 1]
      BY <1>1, <2>1, HeadTailProperties, EmptySeq
    <3>2. \A i \in 1 .. Len(Tail(gc)) : i + 1 \in 1 .. Len(gc)
      BY <3>1
    <3>3. DOMAIN gc = 1 .. Len(gc) /\ DOMAIN Tail(gc) = 1 .. Len(Tail(gc))
      BY <1>1, <3>1
    <3> QED
      BY <2>1, <3>1, <3>2, <3>3
  <2> QED
    BY <1>1, <1>2, <1>5, <2>1, <2>2
<1>15. ASSUME UNCHANGED vars
       PROVE  Served' /\ Idle'
  BY <1>4, <1>5, <1>15 DEF vars, consoleVars
<1> HIDE DEF Served
<1> QED
  BY <1>3, <1>4, <1>6, <1>7, <1>8, <1>9, <1>11, <1>12, <1>13, <1>14, <1>15
  DEF Next, ShellThread

\* A client stays patient when nothing new of its own is under way and it is
\* neither done nor deleted anew.
LEMMA Kept ==
    ASSUME NEW m, NEW l, NEW w, NEW d, NEW del, NEW c,
           NEW n, NEW k, NEW v, NEW e, NEW gone,
           Patient(m, l, w, d, del, c), AtMostOne(n, k, v, c),
           Under(n, k, v, c) => Under(m, l, w, c),
           e[c] \/ c \in gone => d[c] \/ c \in del \/ ~Under(n, k, v, c)
    PROVE  Patient(n, k, v, e, gone, c)
BY DEF Patient

\* What the command thread and the comms tasks do to a patient connection.
LEMMA ConsolesPatient ==
    ASSUME IInv, ConsolesNext, UNCHANGED shellVars, NEW c \in Conns \ hasty
    PROVE  Patient(messages, line, waiting, done, deleted, c)'
<1>1. /\ messages \in Seq(Entry) /\ done \in [Streams -> BOOLEAN]
      /\ Patient(messages, line, waiting, done, deleted, c)
      /\ c \in Streams /\ c \notin Consoles /\ c # "none"
  BY Assumptions DEF IInv, TypeOK, ConsolesTypeOK, PatientInv
<1>2. UNCHANGED <<waiting, deleted>>
  BY DEF shellVars
<1>3. ASSUME UNCHANGED <<messages, line>>, done'[c] => done[c]
      PROVE  Patient(messages, line, waiting, done, deleted, c)'
  BY <1>1, <1>2, <1>3 DEF Patient
<1>4. ASSUME NEW o, done' = ClearDone(o)
      PROVE  done'[c] => done[c]
  BY <1>1, <1>4 DEF ClearDone
<1>5. ASSUME NEW s \in Consoles, Ask(s, s)
      PROVE  Patient(messages, line, waiting, done, deleted, c)'
  BY <1>3, <1>4, <1>5 DEF Ask, command
<1>6. ASSUME NEW s \in Consoles, ConsoleLine(s)
      PROVE  Patient(messages, line, waiting, done, deleted, c)'
  <2> DEFINE e == [os |-> s, n |-> lines'[s]]
  <2>1. /\ messages' = Append(messages, e) /\ UNCHANGED line
        /\ done'[c] => done[c]
    BY <1>4, <1>6 DEF ConsoleLine, command
  <2>2. e \in Entry /\ e.os # c
    <3>1. /\ s \in Streams /\ lines \in [Streams -> Nat]
          /\ lines' = [lines EXCEPT ![s] = @ + 1]
      BY <1>6, Assumptions DEF ConsoleLine, IInv, TypeOK, ConsolesTypeOK
    <3> QED
      BY <1>1, <3>1 DEF Entry
  <2> HIDE DEF e
  <2>3. /\ AtMostOne(messages', line, waiting, c)
        /\ Under(messages', line, waiting, c)
              => Under(messages, line, waiting, c)
    BY <1>1, <2>1, <2>2, UnderAppend DEF Patient
  <2> QED
    BY <1>1, <1>2, <2>1, <2>3 DEF Patient
<1>7. ASSUME NEW t \in Comms, push_back(t)
      PROVE  Patient(messages, line, waiting, done, deleted, c)'
  BY <1>3, <1>7 DEF push_back, ReadHead, Store, ReadAgain, Advance, command
<1>8. ASSUME Receive
      PROVE  Patient(messages, line, waiting, done, deleted, c)'
  <2>1. UNCHANGED done
    BY <1>8 DEF Receive
  <2>2. CASE UNCHANGED <<line, messages>>
    BY <1>3, <2>1, <2>2
  <2>3. CASE messages # <<>> /\ line' = Head(messages)
             /\ messages' = Tail(messages)
    <3>1. /\ AtMostOne(messages', line', waiting, c)
          /\ Under(messages', line', waiting, c)
                => Under(messages, line, waiting, c)
      BY <1>1, <2>3, UnderReceive DEF Patient
    <3> QED
      BY <1>1, <1>2, <2>1, <3>1 DEF Patient
  <2> QED
    BY <1>8, <2>2, <2>3 DEF Receive
<1>9. ASSUME Dispatched
      PROVE  Patient(messages, line, waiting, done, deleted, c)'
  BY <1>3, <1>4, <1>9 DEF Dispatched
<1>10. ASSUME PopQuery \/ QueriesDone
       PROVE  Patient(messages, line, waiting, done, deleted, c)'
  BY <1>3, <1>10 DEF PopQuery, QueriesDone
<1>11. ASSUME Answered
       PROVE  Patient(messages, line, waiting, done, deleted, c)'
  <2>1. query.os # c
    BY <1>1 DEF IInv, PatientInv, Curious
  <2>2. done'[c] = done[c]
    BY <1>1, <1>11, <2>1 DEF Answered
  <2> QED
    BY <1>3, <1>11, <2>2 DEF Answered
<1>12. ASSUME Finish
       PROVE  Patient(messages, line, waiting, done, deleted, c)'
  <2>1. /\ done' = [done EXCEPT ![line.os] = TRUE] /\ line' = None
        /\ UNCHANGED messages
    BY <1>12 DEF Finish
  <2>2. done'[c] => done[c] \/ line.os = c
    BY <1>1, <2>1
  <2>3. /\ AtMostOne(messages, None, waiting, c)
        /\ Under(messages, None, waiting, c)
              => Under(messages, line, waiting, c)
        /\ line.os = c => ~Under(messages, None, waiting, c)
    BY <1>1, UnderDrop DEF Patient
  <2> QED
    BY <1>1, <1>2, <2>1, <2>2, <2>3 DEF Patient
<1>13. ASSUME Defined
       PROVE  Patient(messages, line, waiting, done, deleted, c)'
  <2>1. done'[c] => done[c]
    BY <1>4, <1>13 DEF Defined
  <2>2. line' = None /\ UNCHANGED messages
    BY <1>13 DEF Defined
  <2>3. /\ AtMostOne(messages, None, waiting, c)
        /\ Under(messages, None, waiting, c)
              => Under(messages, line, waiting, c)
    BY <1>1, UnderDrop DEF Patient
  <2> QED
    BY <1>1, <1>2, <2>1, <2>2, <2>3 DEF Patient
<1> QED
  BY <1>5, <1>6, <1>7, <1>8, <1>9, <1>10, <1>11, <1>12, <1>13
  DEF ConsolesNext, CommandThread

\* What the shell thread puts in the queue.
LEMMA DataPatient ==
    ASSUME IInv, NEW b \in Conns, NEW k \in 1 .. 2, Data(b, k),
           NEW c \in Conns \ hasty'
    PROVE  Patient(messages, line, waiting, done, deleted, c)'
<1> DEFINE e1 == Arriving(b, 1)
           e2 == Arriving(b, 2)
<1>1. /\ messages \in Seq(Entry) /\ done \in [Streams -> BOOLEAN]
      /\ c \in Streams /\ c # "none" /\ lines[b] \in Nat /\ b \in Streams
  BY Assumptions DEF IInv, TypeOK, ConsolesTypeOK
<1>2. /\ UNCHANGED <<line, deleted>> /\ waiting = None /\ b \in shells
      /\ done' = ClearDone(b)
      /\ hasty' = IF k > 1 \/ HasLine(b) THEN hasty \cup {b} ELSE hasty
  BY DEF Data, Selecting, command
<1>3. Patient(messages, line, None, done, deleted, c)
  BY <1>2 DEF IInv, PatientInv
<1>4. e1 \in Entry /\ e2 \in Entry /\ e1.os = b /\ e2.os = b
  BY <1>1 DEF Arriving, Entry
<1> HIDE DEF e1, e2
<1>5. \/ messages' = messages /\ waiting' = e1
      \/ messages' = Append(messages, e1) /\ waiting' = None
      \/ k = 2 /\ messages' = Append(messages, e1) /\ waiting' = e2
      \/ k = 2 /\ messages' = Append(Append(messages, e1), e2)
            /\ waiting' = None
  BY DataEffect DEF IInv, e1, e2
<1>6. CASE b # c
  <2>1. done'[c] = done[c]
    BY <1>1, <1>2, <1>6 DEF ClearDone
  <2>2. ASSUME NEW m \in Seq(Entry), NEW e \in Entry, e.os = b,
               Patient(m, line, None, done, deleted, c)
        PROVE  /\ Append(m, e) \in Seq(Entry)
               /\ Patient(Append(m, e), line, None, done, deleted, c)
               /\ Patient(m, line, e, done, deleted, c)
    <3>1. /\ Append(m, e) \in Seq(Entry)
          /\ Under(Append(m, e), line, None, c) <=> Under(m, line, None, c)
          /\ AtMostOne(Append(m, e), line, None, c)
      BY <1>6, <2>2, UnderAppend, Appended DEF Patient
    <3>2. /\ Under(m, line, e, c) <=> Under(m, line, None, c)
          /\ AtMostOne(m, line, e, c)
      BY <1>6, <2>2, <3>1, UnderPlace DEF Patient
    <3> QED
      BY <2>2, <3>1, <3>2 DEF Patient
  <2>3. Patient(messages', line, waiting', done, deleted, c)
    BY <1>1, <1>3, <1>4, <1>5, <2>2
  <2> QED
    BY <1>2, <2>1, <2>3 DEF Patient
<1>7. CASE b = c
  <2>1. k # 2 /\ ~HasLine(c)
    BY <1>2, <1>7
  <2>2. ~Under(messages, line, None, c)
    <3>1. line.os # c
      <4>1. phase = "receive" => line = None
        BY DEF IInv, StreamInv
      <4> QED
        BY <1>1, <2>1, <4>1, EntryFields DEF HasLine
    <3> QED
      BY <1>1, <2>1, <3>1, EntryFields DEF HasLine, Under
  <2>3. c \notin deleted /\ ~done'[c]
    BY <1>1, <1>2, <1>7 DEF IInv, StreamInv, ClearDone
  <2>4. /\ AtMostOne(Append(messages, e1), line, None, c)
        /\ AtMostOne(messages, line, e1, c)
    BY <1>1, <1>3, <1>4, <2>2, UnderAppend, UnderPlace DEF Patient
  <2>5. AtMostOne(messages', line, waiting', c)
    BY <1>5, <2>1, <2>4
  <2> QED
    BY <1>2, <2>3, <2>5 DEF Patient
<1> QED
  BY <1>6, <1>7

\* Every step keeps patient clients so.
LEMMA StepPatient ==
    ASSUME IInv, [Next]_vars, NEW c \in Conns \ hasty'
    PROVE  Patient(messages, line, waiting, done, deleted, c)'
<1>1. /\ messages \in Seq(Entry) /\ done \in [Streams -> BOOLEAN]
      /\ hasty \subseteq hasty' /\ ShellTypes
      /\ waiting \in MaybeEntry
  <2>1. hasty \subseteq hasty'
    BY DEF Next, ShellThread, Accept, Data, Query, Gone, Resubmit, GiveUp,
           Collect, vars, shellVars
  <2> QED
    BY <2>1, TypeParts DEF IInv, TypeOK, ConsolesTypeOK, MaybeEntry
<1>2. c \in Conns \ hasty /\ Patient(messages, line, waiting, done, deleted, c)
  BY <1>1 DEF IInv, PatientInv
<1>3. ASSUME UNCHANGED <<messages, line, waiting>>, done'[c] => done[c],
             c \in deleted' => c \in deleted \/ done[c]
      PROVE  Patient(messages, line, waiting, done, deleted, c)'
  BY <1>2, <1>3 DEF Patient
<1>4. ASSUME ConsolesNext, UNCHANGED shellVars
      PROVE  Patient(messages, line, waiting, done, deleted, c)'
  BY <1>2, <1>4, ConsolesPatient
<1>5. ASSUME NEW b \in Conns, NEW k \in 1 .. 2, Data(b, k)
      PROVE  Patient(messages, line, waiting, done, deleted, c)'
  BY <1>5, DataPatient
<1>6. ASSUME NEW b \in Conns, Accept(b)
      PROVE  Patient(messages, line, waiting, done, deleted, c)'
  BY <1>3, <1>6 DEF Accept, consoleVars, command
<1>7. ASSUME NEW b \in Conns, Query(b)
      PROVE  Patient(messages, line, waiting, done, deleted, c)'
  <2>1. Ask(shell_thread, b) /\ UNCHANGED <<waiting, deleted>>
    BY <1>7 DEF Query
  <2>2. UNCHANGED <<messages, line>> /\ done' \in {done, ClearDone(b)}
    BY <2>1 DEF Ask, command
  <2>3. done'[c] => done[c]
    BY <1>1, <2>2, Assumptions DEF ClearDone
  <2> QED
    BY <1>3, <2>1, <2>2, <2>3
<1>8. ASSUME NEW b \in shells, close_shell(b)
      PROVE  c \in deleted' => c \in deleted \/ done[c]
  BY <1>1, <1>8, CloseEffect
<1>9. ASSUME NEW b \in Conns, Gone(b)
      PROVE  Patient(messages, line, waiting, done, deleted, c)'
  BY <1>3, <1>8, <1>9 DEF Gone, consoleVars, command
<1>10. ASSUME Resubmit
       PROVE  Patient(messages, line, waiting, done, deleted, c)'
  <2>1. /\ waiting \in Entry /\ messages' = Append(messages, waiting)
        /\ waiting' = None /\ UNCHANGED <<line, done, deleted>>
    BY <1>1, <1>10, LineFields DEF Resubmit, command
  <2>2. /\ AtMostOne(messages', line, None, c)
        /\ Under(messages', line, None, c) <=> Under(messages, line, waiting, c)
    BY <1>1, <1>2, <2>1, UnderPlace DEF Patient
  <2> QED
    BY <1>2, <2>1, <2>2 DEF Patient
<1>11. ASSUME GiveUp
       PROVE  Patient(messages, line, waiting, done, deleted, c)'
  <2>1. /\ waiting.os \in shells /\ close_shell(waiting.os) /\ waiting' = None
        /\ UNCHANGED <<messages, line, done>>
    BY <1>11 DEF GiveUp, IInv, StreamInv, consoleVars, command
  <2>2. c \in deleted' => c \in deleted \/ done[c]
    BY <1>8, <2>1
  <2>3. /\ AtMostOne(messages, line, None, c)
        /\ Under(messages, line, None, c) => Under(messages, line, waiting, c)
    BY <1>2, UnderDrop DEF Patient
  <2> QED
    BY <1>2, <2>1, <2>2, <2>3 DEF Patient
<1>12. ASSUME Collect
       PROVE  Patient(messages, line, waiting, done, deleted, c)'
  BY <1>3, <1>12 DEF Collect, consoleVars, command
<1>13. ASSUME UNCHANGED vars
       PROVE  Patient(messages, line, waiting, done, deleted, c)'
  BY <1>3, <1>13 DEF vars, consoleVars, shellVars, command
<1> QED
  BY <1>4, <1>5, <1>6, <1>7, <1>9, <1>10, <1>11, <1>12, <1>13
  DEF Next, ShellThread

\* A query is of a console or makes its connection hasty.
LEMMA StepAskers ==
    ASSUME IInv, [Next]_vars
    PROVE  /\ \A i \in Indices : slots'[i].os \in Curious'
           /\ \A t \in Comms : pushing'[t].os \in Curious'
           /\ query'.os \in Curious'
<1>1. /\ hasty \subseteq hasty'
      /\ tail \in Indices /\ index \in [Comms -> Indices]
      /\ slots \in [Indices -> QueryEntry \cup {NoQuery}]
      /\ pushing \in [Comms -> QueryEntry \cup {NoQuery}]
      /\ \A i \in Indices : slots[i].os \in Curious
      /\ \A t \in Comms : pushing[t].os \in Curious
      /\ query.os \in Curious
  <2>1. hasty \subseteq hasty'
    BY DEF Next, ShellThread, Accept, Data, Query, Gone, Resubmit, GiveUp,
           Collect, vars, shellVars
  <2> QED
    BY <2>1, RingTypes DEF IInv, PatientInv
<1>2. Curious \subseteq Curious' /\ NoQuery.os \in Curious'
  BY <1>1, EntryFields DEF Curious
<1> DEFINE Fine == /\ \A i \in Indices : slots'[i].os \in Curious'
                   /\ \A t \in Comms : pushing'[t].os \in Curious'
                   /\ query'.os \in Curious'
<1>3. ASSUME UNCHANGED <<slots, pushing>>,
             query' \in {query, NoQuery, slots[tail]}
      PROVE  Fine
  BY <1>1, <1>2, <1>3
<1>4. ASSUME NEW u \in Comms, NEW s \in Streams, Ask(u, s), s \in Curious'
      PROVE  Fine
  <2>1. /\ UNCHANGED <<slots, query>>
        /\ \/ UNCHANGED pushing
           \/ \E text \in BOOLEAN : pushing' =
                 [pushing EXCEPT ![u] =
                     [os |-> s, n |-> asked'[s], text |-> text]]
    BY <1>4 DEF Ask, command
  <2>2. \A t \in Comms : pushing'[t].os \in Curious'
    BY <1>1, <1>2, <1>4, <2>1
  <2> QED
    BY <1>1, <1>2, <2>1, <2>2
<1>5. ASSUME NEW u \in Comms, push_back(u)
      PROVE  Fine
  <2>1. CASE ReadHead(u) \/ ReadAgain(u)
    BY <1>3, <2>1 DEF ReadHead, ReadAgain, command
  <2>2. CASE Store(u)
    <3>1. /\ slots' = [slots EXCEPT ![index[u]] = pushing[u]]
          /\ UNCHANGED <<pushing, query>>
      BY <2>2 DEF Store, command
    <3>2. /\ pushing[u].os \in Curious' /\ query'.os \in Curious'
          /\ \A t \in Comms : pushing'[t].os \in Curious'
          /\ \A i \in Indices : slots[i].os \in Curious'
      BY <1>1, <1>2, <3>1
    <3>3. \A i \in Indices : slots'[i] \in {slots[i], pushing[u]}
      BY <1>1, <3>1
    <3> QED
      BY <3>2, <3>3
  <2>3. CASE Advance(u)
    BY <1>1, <1>2, <2>3 DEF Advance, command
  <2> QED
    BY <1>5, <2>1, <2>2, <2>3 DEF push_back
<1>6. ASSUME NEW s \in Consoles, Ask(s, s)
      PROVE  Fine
  BY <1>2, <1>4, <1>6, Assumptions DEF Curious
<1>7. ASSUME NEW s \in Consoles, ConsoleLine(s)
      PROVE  Fine
  BY <1>3, <1>7 DEF ConsoleLine, ring, command
<1>8. ASSUME CommandThread
      PROVE  Fine
  BY <1>3, <1>8
  DEF CommandThread, Receive, Dispatched, Defined, PopQuery, Answered,
      QueriesDone, Finish, ring
<1>9. ASSUME NEW b \in Conns, Query(b)
      PROVE  Fine
  <2>1. b \in Streams /\ Ask(shell_thread, b) /\ b \in Curious'
    BY <1>9, Assumptions DEF Query, Curious
  <2> QED
    BY <1>4, <2>1, Assumptions
<1>10. ASSUME NEW b \in Conns, NEW k \in 1 .. 2,
              Accept(b) \/ Gone(b) \/ Data(b, k)
       PROVE  Fine
  BY <1>3, <1>10 DEF Accept, Gone, Data, consoleVars, ring, command
<1>11. ASSUME Resubmit \/ GiveUp \/ Collect \/ UNCHANGED vars
       PROVE  Fine
  BY <1>3, <1>11
  DEF Resubmit, GiveUp, Collect, vars, consoleVars, ring, command
<1>12. 1 \in 1 .. 2
  OBVIOUS
<1> HIDE DEF Fine
<1>13. Fine
  BY <1>5, <1>6, <1>7, <1>8, <1>9, <1>10, <1>11, <1>12
  DEF Next, ConsolesNext, ShellThread
<1> QED
  BY <1>13 DEF Fine

-----------------------------------------------------------------------------
(***************************************************************************)
(* The theorems.                                                           *)
(***************************************************************************)

\* Nothing is under way at first.
LEMMA InitInv == Init => IInv
<1> SUFFICES ASSUME Init PROVE IInv
  OBVIOUS
<1>1. TypeOK
  BY InitTypes
<1>2. /\ messages = <<>> /\ line = None /\ waiting = None /\ query = NoQuery
      /\ slots = [i \in Indices |-> NoQuery] /\ head = 0 /\ tail = 0
      /\ pushing = [t \in Comms |-> NoQuery]
      /\ place = [t \in Comms |-> "idle"]
      /\ gc = <<>> /\ deleted = {} /\ unanswered = {}
  BY DEF Init, ConsolesInit, Indices
<1>3. DOMAIN messages = {} /\ DOMAIN gc = {}
  BY <1>2
<1>4. RingInv
  <2>1. \A t \in Comms : ~Pushing(t)
    BY <1>2 DEF Pushing
  <2>2. Offset(head) = 0
    BY <1>2 DEF Offset
  <2>3. \A i \in Indices : ~Covered(i)
    BY <1>2, <2>1, <2>2, Offsets, RingTypes, <1>1 DEF Covered
  <2> QED
    BY <1>2, <2>1, <2>3 DEF RingInv
<1>5. OrderInv
  BY <1>2, <1>3 DEF OrderInv, Ordered
<1>6. StreamInv
  BY <1>2, <1>3 DEF StreamInv
<1>7. PatientInv
  <2>1. /\ None.os = "none" /\ NoQuery.os = "none"
        /\ \A c \in Conns : c # "none"
    BY EntryFields, Assumptions
  <2>2. \A c \in Conns : /\ ~Under(messages, line, waiting, c)
                         /\ AtMostOne(messages, line, waiting, c)
    BY <1>2, <1>3, <2>1 DEF Under, AtMostOne
  <2> QED
    BY <1>2, <2>1, <2>2 DEF PatientInv, Patient, Curious
<1> QED
  BY <1>1, <1>4, <1>5, <1>6, <1>7 DEF IInv

LEMMA StepInv ==
    ASSUME IInv, [Next]_vars
    PROVE  IInv'
<1>1. PatientInv'
  BY StepPatient, StepAskers DEF PatientInv
<1> QED
  BY <1>1, StepTypes, StepRing, StepOrder, StepStream DEF IInv

LEMMA Invariance == Spec => []IInv
BY InitInv, StepInv, PTL DEF Spec

\* Every variable stays in its range: the queue and the ring of closed streams
\* never outgrow their places.
THEOREM ShellTypeSafe == Spec => []TypeOK
<1>1. IInv => TypeOK
  BY DEF IInv
<1> QED
  BY <1>1, Invariance, PTL

\* The lines of a stream are executed in the order they were sent, none of them
\* twice, whatever room the queue has and whoever else sends.
THEOREM LinesKeepOrder == Spec => []LinesInOrder
<1>1. ASSUME IInv
      PROVE  LinesInOrder
  <2>1. OrderInv
    BY <1>1 DEF IInv
  <2> QED
    BY <2>1 DEF LinesInOrder, OrderInv, Ordered
<1> QED
  BY <1>1, Invariance, PTL

\* The stream of a client that sends a line only when the one before is done,
\* and asks nothing, is never deleted with a line of it under way.
THEOREM PatientClientIsSafe == Spec => []PatientClientSafe
<1>1. ASSUME IInv
      PROVE  PatientClientSafe
  <2>1. /\ deleted \subseteq Conns
        /\ \A c \in Conns \ hasty :
              c \in deleted => ~Under(messages, line, waiting, c)
        /\ \A c \in Conns \ hasty : query.os # c
    BY <1>1, Assumptions
    DEF IInv, TypeOK, PatientInv, Patient, Curious
  <2>2. SUFFICES ASSUME NEW c \in Conns \ hasty, c \in deleted
                 PROVE  c \notin InUse /\ ~HasLine(c)
    BY <2>1 DEF PatientClientSafe
  <2>3. ~Under(messages, line, waiting, c) /\ query.os # c
    BY <2>1, <2>2
  <2> QED
    BY <2>3 DEF InUse, HasLine, Under
<1> QED
  BY <1>1, Invariance, PTL

\* What the command thread pops from the ring is a query that was pushed and is
\* still unanswered, whatever the comms tasks do to each other's pushes, or
\* comes from a slot that one of them, overtaken between its two readings of
\* head, has moved the head past.
THEOREM OnlyGenuineQueries == Spec => QueriesGenuine
<1>1. ASSUME IInv, [Next]_vars, phase = "queries", phase' = "answer"
      PROVE  query' \in unanswered \/ tail \in skipped
  <2>1. PopQuery
    <3>1. ~UNCHANGED phase
      BY <1>1
    <3>2. ~UNCHANGED command
      BY <3>1 DEF command
    <3>3. ~UNCHANGED consoleVars
      BY <3>2 DEF consoleVars
    <3>4. ConsolesNext
      BY <1>1, <3>2, <3>3
      DEF Next, ShellThread, Accept, Data, Query, Ask, Gone, Resubmit, GiveUp,
          Collect, vars
    <3>5. CommandThread
      BY <3>2, <3>4
      DEF ConsolesNext, Ask, ConsoleLine, push_back, ReadHead, Store, ReadAgain,
          Advance
    <3> QED
      BY <1>1, <3>5
      DEF CommandThread, Receive, Dispatched, Defined, Answered, QueriesDone,
          Finish
  <2> QED
    BY <1>1, <2>1, PopRing DEF IInv
<1>2. IInv /\ [Next]_vars =>
         [phase = "queries" /\ phase' = "answer"
             => query' \in unanswered \/ tail \in skipped]_consoleVars
  BY <1>1
<1> QED
  BY <1>2, Invariance, PTL DEF Spec, QueriesGenuine
=============================================================================
