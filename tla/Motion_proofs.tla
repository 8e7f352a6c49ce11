---------------------------- MODULE Motion_proofs ----------------------------
(***************************************************************************)
(* Safety of the motion pipeline for every ring size, every number of      *)
(* moves, steps and halts.  The invariant IInv is inductive; the           *)
(* properties of Motion follow from it.  Motion implements the queue of    *)
(* moves of MotionFifo, and without halts, flushes and jogs it loses no    *)
(* step.                                                                   *)
(***************************************************************************)
EXTENDS Motion, Sequences, SequenceTheorems, FiniteSetTheorems,
        WellFoundedInduction, TLAPS

-----------------------------------------------------------------------------
(***************************************************************************)
(* The index arithmetic of the ring, for every size.                       *)
(***************************************************************************)
\* next wraps from the last slot to the first.
LEMMA NextValue ==
    ASSUME NEW n \in Slots
    PROVE  next(n) = IF n = m_size - 1 THEN 0 ELSE n + 1
BY SizeAssumption DEF Slots, next

\* next and prev stay in the ring and undo each other.
LEMMA NextPrev ==
    ASSUME NEW n \in Slots
    PROVE  /\ next(n) \in Slots /\ prev(n) \in Slots
           /\ next(n) # n
           /\ prev(next(n)) = n /\ next(prev(n)) = n
<1>1. next(n) \in Slots /\ prev(n) \in Slots
    BY NextValue, SizeAssumption DEF Slots, prev
<1>2. next(prev(n)) = IF prev(n) = m_size - 1 THEN 0 ELSE prev(n) + 1
    BY <1>1, NextValue
<1> QED
    BY <1>1, <1>2, NextValue, SizeAssumption DEF Slots, prev

\* The head is free, the tail of a queue that is not empty is queued, and an
\* empty queue has no blocks.
LEMMA HeadAndTail ==
    ASSUME NEW r \in Slots, NEW w \in Slots
    PROVE  /\ w \notin Queued(r, w)
           /\ ~empty(r, w) => r \in Queued(r, w)
           /\ Queued(r, w) \subseteq Slots
           /\ Queued(w, w) = {}
BY SizeAssumption DEF Slots, Queued, empty

\* release_tail takes the tail off the queue and nothing else.
LEMMA QueuedAfterRelease ==
    ASSUME NEW r \in Slots, NEW w \in Slots, ~empty(r, w)
    PROVE  Queued(next(r), w) = Queued(r, w) \ {r}
BY NextValue, SizeAssumption DEF Slots, Queued, empty

\* queue_head puts the head on the queue and nothing else.
LEMMA QueuedAfterCommit ==
    ASSUME NEW r \in Slots, NEW w \in Slots, ~full(r, w)
    PROVE  Queued(r, next(w)) = Queued(r, w) \cup {w}
BY NextValue, SizeAssumption DEF Slots, Queued, full

\* With three blocks on the queue the second from the head is one of them.
LEMMA SecondFromHead ==
    ASSUME NEW r \in Slots, NEW w \in Slots,
           r \notin {w, prev(w), prev(prev(w))}
    PROVE  prev(prev(w)) \in Queued(r, w)
BY SizeAssumption DEF Slots, Queued, prev

\* The depth of the head counts the blocks on the queue.
LEMMA DepthValue ==
    ASSUME NEW r \in Slots, NEW w \in Slots
    PROVE  /\ Depth(r, w) \in Nat /\ Depth(r, w) < m_size
           /\ Depth(r, w) = 0 <=> empty(r, w)
BY SizeAssumption DEF Slots, Depth, empty

\* release_tail leaves one block less.
LEMMA DepthAfterRelease ==
    ASSUME NEW r \in Slots, NEW w \in Slots, ~empty(r, w)
    PROVE  Depth(next(r), w) = Depth(r, w) - 1
BY NextValue, SizeAssumption DEF Slots, Depth, empty

\* queue_head leaves one block more.
LEMMA DepthAfterCommit ==
    ASSUME NEW r \in Slots, NEW w \in Slots, ~full(r, w)
    PROVE  Depth(r, next(w)) = Depth(r, w) + 1
BY NextValue, SizeAssumption DEF Slots, Depth, full

\* When the tail is none of the head and the two slots before it, there are
\* three blocks on the queue.
LEMMA ThirdFromHead ==
    ASSUME NEW r \in Slots, NEW w \in Slots,
           r \notin {w, prev(w), prev(prev(w))}
    PROVE  Depth(r, w) >= 3
BY SizeAssumption DEF Slots, Depth, prev

\* A position below the number of blocks is a slot of the queue.
LEMMA SlotAtDepth ==
    ASSUME NEW r \in Slots, NEW w \in Slots, NEW i \in 1 .. Depth(r, w)
    PROVE  /\ SlotAt(r, i - 1) \in Queued(r, w)
           /\ Depth(r, SlotAt(r, i - 1)) = i - 1
<1>1. /\ i \in Nat /\ i >= 1 /\ i <= Depth(r, w) /\ Depth(r, w) < m_size
      /\ m_size \in Nat
    BY DepthValue, SizeAssumption
<1> QED
   BY <1>1 DEF Slots, Depth, Queued, SlotAt

\* The tail is at position 0 only.
LEMMA FirstSlot ==
    ASSUME NEW r \in Slots, NEW i \in 1 .. m_size - 1
    PROVE  SlotAt(r, i - 1) = r <=> i = 1
BY SizeAssumption DEF Slots, SlotAt

\* Releasing the tail moves every other slot one position forward.
LEMMA SlotAfterRelease ==
    ASSUME NEW r \in Slots, NEW i \in 1 .. m_size - 1
    PROVE  SlotAt(next(r), i - 1) = SlotAt(r, (i + 1) - 1)
BY NextValue, SizeAssumption DEF Slots, SlotAt

\* The head is at the position after the last block.
LEMMA SlotOfHead ==
    ASSUME NEW r \in Slots, NEW w \in Slots
    PROVE  /\ SlotAt(r, Depth(r, w)) = w
           /\ SlotAt(r, (Depth(r, w) + 1) - 1) = w
BY SizeAssumption DEF Slots, Depth, SlotAt

-----------------------------------------------------------------------------
(***************************************************************************)
(* Sums over an interval.                                                  *)
(***************************************************************************)
\* Every non-empty set of naturals has a least element: each set of smaller
\* naturals is finite, and inclusion of finite sets is well-founded.
LEMMA LeastNat ==
    ASSUME NEW T, T \subseteq Nat, T # {}
    PROVE  \E x \in T : \A y \in T : x <= y
<1> DEFINE below(n) == {m \in Nat : m < n}
           sets == {below(n) : n \in T}
<1>1. \A n \in T : IsFiniteSet(below(n))
    <2> TAKE n \in T
    <2>1. \A s \in below(n) : s <= n
        OBVIOUS
    <2> QED
        BY <2>1, FS_BoundedSetOfNaturals
<1>2. sets \subseteq FiniteSubsetsOf(Nat)
    BY <1>1 DEF FiniteSubsetsOf
<1>3. PICK u \in sets :
            \A v \in sets : <<v, u>> \notin StrictSubsetOrdering(Nat)
    <2>1. sets # {}
        OBVIOUS
    <2>2. IsWellFoundedOn(StrictSubsetOrdering(Nat), FiniteSubsetsOf(Nat))
        BY FS_StrictSubsetOrderingWellFounded
    <2> QED
        BY <1>2, <2>1, <2>2, WFMin
<1>4. PICK x \in T : u = below(x)
    OBVIOUS
<1>5. ASSUME NEW y \in T, y < x
      PROVE  FALSE
    <2>1. below(y) \subseteq below(x) /\ y \in below(x) /\ y \notin below(y)
        BY <1>5
    <2>2. below(y) \in sets /\ below(y) \subseteq Nat /\ below(x) \subseteq Nat
        OBVIOUS
    <2>3. <<below(y), u>> \in StrictSubsetOrdering(Nat)
        <3> HIDE DEF below
        <3> QED
            BY <1>4, <2>1, <2>2 DEF StrictSubsetOrdering
    <2> QED
        BY <1>3, <2>2, <2>3
<1> QED
    BY <1>5

\* Induction along an interval, for the set S of the numbers that have the
\* property.
LEMMA IntervalInduction ==
    ASSUME NEW j \in Nat, NEW k \in Nat, NEW S, j \in S,
           \A i \in j .. k - 1 : i \in S => i + 1 \in S
    PROVE  j .. k \subseteq S
<1> DEFINE T == (j .. k) \ S
<1> SUFFICES ASSUME T # {} PROVE FALSE
    OBVIOUS
<1>1. T \subseteq Nat
    OBVIOUS
<1>2. PICK i \in T : \A h \in T : i <= h
    <2> HIDE DEF T
    <2> QED
        BY <1>1, LeastNat
<1>3. i - 1 \in j .. k - 1 /\ i - 1 \notin T
    BY <1>2
<1> QED
    BY <1>3

\* f is the sequence of the partial sums of the n terms t.
IsSum(f, t, n) ==
    /\ f \in [0 .. n -> Int] /\ f[0] = 0
    /\ \A i \in 1 .. n : f[i] = f[i - 1] + t[i]

\* Every sequence of terms has its partial sums.
LEMMA SumExists ==
    ASSUME NEW n \in Nat, NEW t \in [1 .. n -> Int]
    PROVE  \E f : IsSum(f, t, n)
<1> DEFINE S == {k \in 0 .. n : \E f : IsSum(f, t, k)}
<1>1. 0 \in S
    <2>1. IsSum([i \in 0 .. 0 |-> 0], t, 0)
        BY DEF IsSum
    <2> QED
        BY <2>1
<1>2. ASSUME NEW k \in 0 .. n - 1, k \in S
      PROVE  k + 1 \in S
    <2>1. PICK f : IsSum(f, t, k)
        BY <1>2
    <2> DEFINE g == [i \in 0 .. k + 1 |-> IF i = k + 1 THEN f[k] + t[k + 1]
                                                       ELSE f[i]]
    <2>2. IsSum(g, t, k + 1)
        <3>1. f \in [0 .. k -> Int] /\ t[k + 1] \in Int
            BY <2>1 DEF IsSum
        <3>2. g \in [0 .. k + 1 -> Int] /\ g[0] = 0
            BY <2>1, <3>1 DEF IsSum
        <3>3. \A i \in 1 .. k : g[i] = g[i - 1] + t[i]
            BY <2>1, <3>1 DEF IsSum
        <3>4. g[k + 1] = g[(k + 1) - 1] + t[k + 1]
            OBVIOUS
        <3>5. \A i \in 1 .. k + 1 : i \in 1 .. k \/ i = k + 1
            OBVIOUS
        <3> HIDE DEF g
        <3>6. \A i \in 1 .. k + 1 : g[i] = g[i - 1] + t[i]
            BY <3>3, <3>4, <3>5
        <3> QED
            BY <3>2, <3>6 DEF IsSum
    <2> HIDE DEF g
    <2> QED
        BY <2>2
<1>3. 0 .. n \subseteq S
    <2> HIDE DEF S
    <2> QED
        BY <1>1, <1>2, IntervalInduction
<1> QED
    BY <1>3

\* From index j on, the terms of the sum g are at least those of the sum f,
\* shifted by o; d makes up for what f is ahead at j.
KeepsUp(f, t, g, u, n, j, k, o, d) ==
    /\ IsSum(f, t, n) /\ t \in [1 .. n -> Int]
    /\ IsSum(g, u, n) /\ u \in [1 .. n -> Int]
    /\ n \in Nat /\ j \in Nat /\ k \in Nat /\ o \in Nat /\ d \in Int
    /\ j <= k /\ k + o <= n
    /\ g[j] + d >= f[j + o]
    /\ \A i \in j + 1 .. k : u[i] >= t[i + o]

\* A sum whose terms are not smaller keeps up with the other.
LEMMA SumsCompare ==
    ASSUME NEW f, NEW t, NEW g, NEW u, NEW n,
           NEW j, NEW k, NEW o, NEW d,
           KeepsUp(f, t, g, u, n, j, k, o, d)
    PROVE  g[k] + d >= f[k + o]
<1> USE DEF KeepsUp
<1> DEFINE S == {i \in j .. k : g[i] + d >= f[i + o]}
<1>1. j \in S
    OBVIOUS
<1>2. ASSUME NEW i \in j .. k - 1, i \in S
      PROVE  i + 1 \in S
    <2>1. /\ i \in 0 .. n /\ i + 1 \in 1 .. n /\ (i + 1) - 1 = i
          /\ i + o \in 0 .. n /\ (i + 1) + o \in 1 .. n
          /\ ((i + 1) + o) - 1 = i + o /\ i + 1 \in j + 1 .. k
          /\ (i + 1) + o \in 0 .. n /\ i + 1 \in 0 .. n
        OBVIOUS
    <2>2. g[i + 1] = g[i] + u[i + 1]
        BY <2>1 DEF IsSum
    <2>3. f[(i + 1) + o] = f[i + o] + t[(i + 1) + o]
        BY <2>1 DEF IsSum
    <2>4. g[i + 1] \in Int /\ g[i] \in Int /\ u[i + 1] \in Int
        BY <2>1 DEF IsSum
    <2>5. f[(i + 1) + o] \in Int /\ f[i + o] \in Int /\ t[(i + 1) + o] \in Int
        BY <2>1 DEF IsSum
    <2>6. u[i + 1] >= t[(i + 1) + o] /\ g[i] + d >= f[i + o]
        BY <1>2, <2>1
    <2>7. g[i + 1] + d >= f[(i + 1) + o]
        <3> DEFINE y == (i + 1) + o
                   x == i + o
                   z == i + 1
        <3> HIDE DEF x, y, z
        <3>1. /\ g[z] = g[i] + u[z] /\ f[y] = f[x] + t[y]
              /\ u[z] >= t[y] /\ g[i] + d >= f[x]
              /\ g[z] \in Int /\ g[i] \in Int /\ u[z] \in Int
              /\ f[y] \in Int /\ f[x] \in Int /\ t[y] \in Int
            BY <2>2, <2>3, <2>4, <2>5, <2>6 DEF x, y, z
        <3>2. g[z] + d >= f[y]
            BY <3>1
        <3> QED
            BY <3>2 DEF y, z
    <2> QED
        BY <2>1, <2>7
<1>3. j .. k \subseteq S
    <2> HIDE DEF S
    <2> QED
        BY <1>1, <1>2, IntervalInduction
<1> QED
    BY <1>3

-----------------------------------------------------------------------------
(***************************************************************************)
(* The invariant.                                                          *)
(***************************************************************************)
\* The block under construction at the head has steps, is nobody else's, and
\* has its tick info before it is published.
HeadInv ==
    /\ pc \in Building => /\ block[m_wIndex].steps > 0
                          /\ ~block[m_wIndex].is_ticking
    /\ pc = "unlock" /\ previous = m_wIndex
         => block[m_wIndex].steps_to_move > 0
    /\ pc = "publish" => block[m_wIndex].steps_to_move > 0
    /\ pc \in {"queue_head", "stalled"} => /\ block[m_wIndex].is_ready
                                          /\ block[m_wIndex].steps_to_move > 0

\* A held queue does not run.
HoldInv == hold_queue => ~running

\* The copies of the halt flag: a broadcast brings Module::halted to the
\* others, and a stopped conveyor has stopped the step ticker.
HaltInv ==
    /\ halter.pc # "none" => module_halted = halter.flg
    /\ halter.pc # "conveyor" => halted = module_halted
    /\ halted /\ running => module_halted

\* A motor that moves is being stepped, or about to be stopped by the halt
\* broadcast that is under way.
MovingInv ==
    moving => IF module_halted THEN halter.pc \in {"conveyor", "robot"}
                               ELSE running

\* A jog repeats a block only while the command thread watches it, with the
\* tick info to restore.
JogInv ==
    /\ continuous_mode # 0 => pc \in {"jog_run", "jogging"}
    /\ pc \in {"jog_start", "jog_run", "jogging"} => saved_block > 0

\* append_block on behalf of append_milestone, from its first test for a halt.
Appending == {"check", "clear"} \cup Building

\* The jog's blocks.  It queues at most three, on a queue it found empty and
\* holds.  Until the hold is released nothing runs, and when a halt has
\* released it the blocks are on their way to being flushed.  Then the queue
\* is as it was until its first block is finished, which leaves the block
\* that is repeated and the one that decelerates.
JogQueueInv ==
    LET depth == Depth(m_rIndex, m_wIndex)
    IN  /\ pc \in Appending /\ caller = "jog" /\ hold_queue
             => depth + todo + 1 <= 3
        /\ pc = "mode" /\ hold_queue => depth <= 3
        /\ pc \in {"jog_start", "jog_run"}
             => /\ ~running /\ depth \in {0, 3}
                /\ hold_queue \/ flush \/ depth = 0
        /\ continuous_mode = 1 /\ pc = "jogging"
             => depth \in {0, 3} /\ (running => ~flush)
        /\ continuous_mode = 2 => depth = 2 /\ ~flush

\* Moves are numbered as they are planned: those on the queue come before the
\* one under construction.
OrderInv ==
    /\ \A s \in Queued(m_rIndex, m_wIndex) : block[s].move \in 1 .. moves
    /\ pc \in Building =>
          /\ moves > 0 /\ block[m_wIndex].move = moves
          /\ \A s \in Queued(m_rIndex, m_wIndex) : block[s].move < moves

\* A command is taken only when the bound leaves room for all its moves.
BoundInv ==
    LET jogs == IF caller = "jog" THEN todo ELSE 0
    IN  /\ moves <= MaxMoves
        /\ pc \in {"wait_empty", "wait_motors"} /\ caller = "jog"
             => moves + 3 <= MaxMoves
        /\ pc \in {"check", "clear"} => moves + jogs + 1 <= MaxMoves
        /\ pc \in Building => moves + jogs <= MaxMoves

\* A block queued before the last halt is on its way to being flushed.
EraInv ==
    \A s \in Queued(m_rIndex, m_wIndex) :
        \/ block[s].era = halts
        \/ /\ module_halted
           /\ \/ flush /\ ~hold_queue
              \/ halter.pc = "conveyor" /\ halter.flg

IInv ==
    /\ TypeOK
    /\ ExecutesTail
    /\ NoEmptyBlock
    /\ HeadInv
    /\ HoldInv
    /\ HaltInv
    /\ JogInv
    /\ EraInv
    /\ MovingInv
    /\ JogQueueInv
    /\ OrderInv
    /\ BoundInv

-----------------------------------------------------------------------------
\* Writes to the fields of a block keep it a block.
LEMMA FlagWritten ==
    ASSUME NEW b \in Blocks, NEW x \in BOOLEAN
    PROVE  /\ [b EXCEPT !.locked = x] \in Blocks
           /\ [b EXCEPT !.is_ready = x] \in Blocks
           /\ [b EXCEPT !.recalculate_flag = x] \in Blocks
           /\ [b EXCEPT !.is_ticking = TRUE, !.recalculate_flag = x] \in Blocks
BY DEF Blocks

\* A block whose tick info is written is still a block.
LEMMA TickInfoWritten ==
    ASSUME NEW b \in Blocks, NEW n \in Nat, NEW c \in Nat
    PROVE  /\ [b EXCEPT !.steps_to_move = n, !.step_count = c] \in Blocks
           /\ [b EXCEPT !.step_count = c, !.steps_to_move = n] \in Blocks
           /\ [b EXCEPT !.step_count = c] \in Blocks
           /\ [b EXCEPT !.era = n] \in Blocks
BY DEF Blocks

\* A cleared block is a block.
LEMMA ClearedBlock == ClearBlock \in Blocks
BY DEF Blocks, ClearBlock

\* So is the one append_block builds.
LEMMA BuiltBlock ==
    ASSUME moves \in Nat, NEW n \in Nat
    PROVE  NewBlock(n) \in Blocks
<1>1. \A b \in Blocks, m, k \in Nat :
        [b EXCEPT !.move = m, !.steps = k, !.recalculate_flag = TRUE]
          \in Blocks
    BY DEF Blocks
<1>2. moves + 1 \in Nat
    OBVIOUS
<1> QED
    BY <1>1, <1>2, ClearedBlock DEF NewBlock

\* What the interrupt does to the block it fetches.
LEMMA FetchedBlock ==
    ASSUME saved_block \in Nat, NEW b \in Blocks, NEW m \in 0 .. 2
    PROVE  Fetched(b, m) \in Blocks /\ Fetched(b, m).move = b.move
<1>1. [b EXCEPT !.steps_to_move = saved_block, !.step_count = 0] \in Blocks
    BY TickInfoWritten
<1>2. Fetched(b, m) \in Blocks
    BY <1>1, FlagWritten DEF Fetched
<1>3. Fetched(b, m).move = b.move
    BY DEF Fetched, Blocks
<1> QED
    BY <1>2, <1>3

\* What the interrupt does to the block it ends.
LEMMA EndedBlock ==
    ASSUME NEW b \in Blocks, NEW pulse \in {0, 1}
    PROVE  /\ Ended(b, pulse) \in Blocks
           /\ Ended(b, pulse).is_ready = b.is_ready
           /\ Ended(b, pulse).steps = b.steps
           /\ Ended(b, pulse).era = b.era
           /\ Ended(b, pulse).move = b.move
<1>1. b.step_count + pulse \in Nat /\ b.steps_to_move \in Nat
    BY DEF Blocks
<1> QED
    BY <1>1, TickInfoWritten DEF Ended, Blocks

\* Every step keeps the indices in the ring.
LEMMA IndexStep ==
    ASSUME TypeOK, [Next]_vars
    PROVE  IndexOK'
BY NextPrev
   DEF TypeOK, IndexOK, Next, CmdLoop, HaltBegin, StepTick, TickIdle,
       TickStart, TickHalted, TickStep, TickEnd, CmdRequest, CmdMove, CmdFlush,
       CmdWait, CmdStep, CmdNone, CmdWaitEmpty, CmdWaitMotors, CmdCheck,
       CmdClear, CmdRecalculate, CmdReverse, CmdForward, CmdTrapezoid, CmdLock,
       CmdPrepare, CmdUnlock, CmdPublish, CmdQueueHead, CmdStalled, CmdJogMode,
       CmdJogStart, CmdJogRun, CmdJogStop, CmdJogFree, At, CheckQueue,
       MoveReturns, AfterTrapezoid, HaltStep, HaltConveyor, HaltRobot,
       HaltPosition, vars, ringVars, flagVars, haltVars, tickVars, motorVars,
       cmdVars, FlushedTail, FinishedTail, NoBlock

\* Every step keeps the flags flags.
LEMMA FlagStep ==
    ASSUME TypeOK, [Next]_vars
    PROVE  FlagOK'
<1> USE DEF TypeOK, FlagOK, vars, ringVars, flagVars, haltVars, tickVars,
            motorVars, cmdVars
<1>1. CASE StepTick
    BY <1>1 DEF StepTick, TickIdle, TickStart, TickHalted, TickStep, TickEnd,
                CanGive
<1>2. CASE \E timeout \in BOOLEAN : CmdLoop(timeout)
    BY <1>2 DEF CmdLoop, CheckQueue
<1>3. CASE CmdRequest
    BY <1>3 DEF CmdRequest, CmdMove, CmdFlush, CmdWait
<1>4. CASE CmdStep
    <2>1. (allow_fetch \in BOOLEAN /\ hold_queue \in BOOLEAN)'
        BY <1>4 DEF CmdStep, CmdNone, CmdWaitEmpty, CmdWaitMotors, CmdCheck,
                    CmdClear, CmdRecalculate, CmdReverse, CmdForward,
                    CmdTrapezoid, CmdLock, CmdPrepare, CmdUnlock, CmdPublish,
                    CmdQueueHead, CmdStalled, CmdJogMode, CmdJogStart,
                    CmdJogRun, CmdJogStop, CmdJogFree, At, CheckQueue,
                    MoveReturns, AfterTrapezoid
    <2>2. (flush \in BOOLEAN)'
        BY <1>4 DEF CmdStep, CmdNone, CmdWaitEmpty, CmdWaitMotors, CmdCheck,
                    CmdClear, CmdRecalculate, CmdReverse, CmdForward,
                    CmdTrapezoid, CmdLock, CmdPrepare, CmdUnlock, CmdPublish,
                    CmdQueueHead, CmdStalled, CmdJogMode, CmdJogStart,
                    CmdJogRun, CmdJogStop, CmdJogFree, At, CheckQueue,
                    MoveReturns, AfterTrapezoid
    <2>3. UNCHANGED <<halted, module_halted, robot_halted, running, moving>>
        BY <1>4 DEF CmdStep, CmdNone, CmdWaitEmpty, CmdWaitMotors, CmdCheck,
                    CmdClear, CmdRecalculate, CmdReverse, CmdForward,
                    CmdTrapezoid, CmdLock, CmdPrepare, CmdUnlock, CmdPublish,
                    CmdQueueHead, CmdStalled, CmdJogMode, CmdJogStart,
                    CmdJogRun, CmdJogStop, CmdJogFree, At, CheckQueue,
                    MoveReturns, AfterTrapezoid
    <2> QED
        BY <2>1, <2>2, <2>3
<1>5. CASE \E who \in Halters, flg \in BOOLEAN : HaltBegin(who, flg)
    BY <1>5 DEF HaltBegin
<1>6. CASE HaltStep
    BY <1>6 DEF HaltStep, HaltConveyor, HaltRobot, HaltPosition, PlaceOK
<1>7. CASE UNCHANGED vars
    BY <1>7
<1> QED
    BY <1>1, <1>2, <1>3, <1>4, <1>5, <1>6, <1>7 DEF Next

\* Every step keeps the counters in range.
LEMMA CountStep ==
    ASSUME TypeOK, [Next]_vars
    PROVE  CountOK'
<1> USE DEF TypeOK, CountOK
<1>1. CASE UNCHANGED <<continuous_mode, saved_block, step_position,
                       last_milestone, todo, halts, moves>>
    BY <1>1
<1>2. CASE TickStep
    BY <1>2 DEF TickStep, flagVars, haltVars, cmdVars
<1>3. CASE TickEnd
    BY <1>3 DEF TickEnd, FinishedMode, haltVars, cmdVars
<1>4. CASE CmdWaitMotors
    BY <1>4 DEF CmdWaitMotors, haltVars
<1>5. CASE CmdCheck \/ CmdPublish \/ CmdQueueHead \/ CmdStalled
    <2>1. todo' = todo \/ todo' = IF todo > 0 THEN todo - 1 ELSE 0
        BY <1>5 DEF CmdCheck, CmdPublish, CmdQueueHead, CmdStalled,
                    MoveReturns
    <2>2. UNCHANGED <<continuous_mode, saved_block, step_position,
                      last_milestone, halts, moves>>
        BY <1>5 DEF CmdCheck, CmdPublish, CmdQueueHead, CmdStalled,
                    flagVars, haltVars, motorVars
    <2> QED
        BY <2>1, <2>2
<1>6. CASE CmdClear
    BY <1>6, MotionAssumption DEF CmdClear, MoveReturns, flagVars, haltVars
<1>7. CASE CmdJogMode
    <2>1. saved_block' \in Nat
        BY <1>7, NextPrev DEF CmdJogMode, IndexOK, BlockOK, Blocks
    <2> QED
        BY <1>7, <2>1 DEF CmdJogMode, haltVars, motorVars
<1>8. CASE CmdJogStart \/ CmdJogStop \/ CmdJogFree
    BY <1>8 DEF CmdJogStart, CmdJogStop, CmdJogFree, haltVars, motorVars
<1>9. CASE \E who \in Halters, flg \in BOOLEAN : HaltBegin(who, flg)
    BY <1>9 DEF HaltBegin, flagVars, motorVars, cmdVars
<1>10. CASE HaltConveyor \/ HaltPosition
    BY <1>10 DEF HaltConveyor, HaltPosition, flagVars, motorVars, cmdVars
<1> QED
    BY <1>1, <1>2, <1>3, <1>4, <1>5, <1>6, <1>7, <1>8, <1>9, <1>10
    DEF Next, CmdLoop, StepTick, TickIdle, TickStart, TickHalted, CmdRequest,
        CmdMove, CmdFlush, CmdWait, CmdStep, CmdNone, CmdWaitEmpty,
        CmdRecalculate, CmdReverse, CmdForward, CmdTrapezoid, CmdLock,
        CmdPrepare, CmdUnlock, CmdJogRun, HaltStep, HaltRobot, vars, ringVars,
        flagVars, haltVars, tickVars, motorVars, cmdVars

\* Every step keeps the threads at one of their places.
LEMMA PlaceStep ==
    ASSUME TypeOK, [Next]_vars
    PROVE  PlaceOK'
<1> USE DEF TypeOK, PlaceOK, vars, ringVars, flagVars, haltVars, tickVars,
            motorVars, cmdVars
<1>1. CASE CmdStep \/ CmdRequest \/ \E timeout \in BOOLEAN : CmdLoop(timeout)
    BY <1>1 DEF Labels, Callers, CmdStep, CmdNone, CmdWaitEmpty, CmdWaitMotors,
                CmdCheck, CmdClear, CmdRecalculate, CmdReverse, CmdForward,
                CmdTrapezoid, CmdLock, CmdPrepare, CmdUnlock, CmdPublish,
                CmdQueueHead, CmdStalled, CmdJogMode, CmdJogStart, CmdJogRun,
                CmdJogStop, CmdJogFree, At, CheckQueue, MoveReturns,
                AfterTrapezoid, CmdRequest, CmdMove, CmdFlush, CmdWait, CmdLoop
<1>2. CASE \E who \in Halters, flg \in BOOLEAN : HaltBegin(who, flg)
    BY <1>2, MotionAssumption DEF HaltBegin
<1>3. CASE HaltConveyor
    BY <1>3 DEF HaltConveyor
<1>4. CASE HaltRobot
    BY <1>4 DEF HaltRobot, NoHalter, AllHalters
<1>5. CASE HaltPosition
    BY <1>5 DEF HaltPosition, NoHalter, AllHalters
<1>6. CASE StepTick \/ UNCHANGED vars
    BY <1>6 DEF StepTick, TickIdle, TickStart, TickHalted, TickStep, TickEnd
<1> QED
    BY <1>1, <1>2, <1>3, <1>4, <1>5, <1>6 DEF Next, HaltStep

\* Every step keeps the ring full of blocks.
LEMMA BlockStep ==
    ASSUME TypeOK, ExecutesTail, [Next]_vars
    PROVE  BlockOK'
<1>1. /\ block \in [Slots -> Blocks]
      /\ \A s \in Slots : /\ block[s] \in Blocks
                           /\ block[s].steps \in Nat
                           /\ block[s].step_count \in Nat
    BY DEF TypeOK, BlockOK, Blocks
<1>2. /\ {previous, m_rIndex, m_wIndex, next(iter), next(m_rIndex)}
            \subseteq Slots
      /\ {halts, moves + 1, saved_block} \subseteq Nat
    BY NextPrev DEF TypeOK, IndexOK, CountOK
<1>3. ASSUME NEW s \in Slots, NEW b \in Blocks,
             block' = [block EXCEPT ![s] = b]
      PROVE  BlockOK'
    BY <1>1, <1>3 DEF BlockOK
<1>4. CASE UNCHANGED block
    BY <1>1, <1>4 DEF BlockOK
<1>5. CASE TickStart
    BY <1>1, <1>2, <1>3, <1>5, FetchedBlock DEF TickStart, TypeOK, CountOK
<1>6. CASE TickStep
    <2>1. [block[m_rIndex] EXCEPT !.step_count = @ + 1] \in Blocks
        <3>1. block[m_rIndex].step_count + 1 \in Nat
            BY <1>1, <1>2
        <3> QED
            BY <1>1, <1>2, <3>1, TickInfoWritten
    <2> QED
        BY <1>2, <1>3, <1>6, <2>1 DEF TickStep, ExecutesTail
<1>7. CASE TickEnd
    <2>1. PICK pulse \in {0, 1} :
            LET done == [block EXCEPT ![m_rIndex] = Ended(@, pulse)]
                r == FinishedTail
                m == FinishedMode
            IN  block' = IF CanGive(r, m)
                           THEN [done EXCEPT ![r] = Fetched(@, m)]
                           ELSE done
        BY <1>7 DEF TickEnd, ExecutesTail
    <2>2. Ended(block[m_rIndex], pulse) \in Blocks
        BY <1>1, <1>2, EndedBlock
    <2>3. [block EXCEPT ![m_rIndex] = Ended(@, pulse)] \in [Slots -> Blocks]
        BY <1>1, <1>2, <2>2
    <2>4. FinishedTail \in Slots /\ FinishedMode \in 0 .. 2
        BY <1>2 DEF FinishedTail, FinishedMode, TypeOK, CountOK
    <2> QED
        BY <1>2, <2>1, <2>3, <2>4, FetchedBlock DEF BlockOK
<1>8. CASE CmdClear
    <2>1. PICK n \in Nat : block' = [block EXCEPT ![m_wIndex] = NewBlock(n)]
        <3>1. 0 .. MaxSteps \subseteq Nat
            BY MotionAssumption
        <3> QED
            BY <1>8, <3>1 DEF CmdClear
    <2> QED
        BY <1>2, <1>3, <2>1, BuiltBlock DEF TypeOK, CountOK
<1>9. CASE CmdForward
    <2>1. \A x \in BOOLEAN : [block[next(iter)] EXCEPT !.recalculate_flag =
                                 @ /\ x] \in Blocks
        BY <1>1, <1>2, FlagWritten DEF Blocks
    <2> QED
        BY <1>1, <1>2, <1>3, <1>9, <2>1 DEF CmdForward, BlockOK
<1>10. CASE CmdLock
    BY <1>1, <1>2, <1>3, <1>10, FlagWritten DEF CmdLock
<1>11. CASE CmdPrepare
    <2> DEFINE b == [block[previous] EXCEPT
                        !.steps_to_move = block[previous].steps,
                        !.step_count = 0]
    <2>1. previous \in Slots /\ b \in Blocks
        BY <1>1, <1>2, TickInfoWritten
    <2>2. block' = [block EXCEPT ![previous] = b]
        BY <1>11 DEF CmdPrepare
    <2> HIDE DEF b
    <2> QED
        BY <1>3, <2>1, <2>2
<1>12. CASE CmdUnlock
    BY <1>1, <1>2, <1>3, <1>12, FlagWritten DEF CmdUnlock
<1>13. CASE CmdPublish
    BY <1>1, <1>2, <1>3, <1>13, FlagWritten, ClearedBlock
    DEF CmdPublish
<1>14. CASE CmdQueueHead
    BY <1>1, <1>2, <1>3, <1>4, <1>14, TickInfoWritten DEF CmdQueueHead
<1>15. CASE CmdStalled
    BY <1>2, <1>3, <1>4, <1>15, ClearedBlock DEF CmdStalled
<1> QED
    BY <1>4, <1>5, <1>6, <1>7, <1>8, <1>9, <1>10, <1>11, <1>12, <1>13, <1>14,
       <1>15
    DEF Next, CmdLoop, HaltBegin, StepTick, TickIdle, TickHalted, CmdRequest,
        CmdMove, CmdFlush, CmdWait, CmdStep, CmdNone, CmdWaitEmpty,
        CmdWaitMotors, CmdCheck, CmdRecalculate, CmdReverse, CmdTrapezoid,
        CmdJogMode, CmdJogStart, CmdJogRun, CmdJogStop, CmdJogFree, HaltStep,
        HaltConveyor, HaltRobot, HaltPosition, vars, ringVars, flagVars,
        haltVars, tickVars, motorVars, cmdVars

-----------------------------------------------------------------------------
\* What the planner may do to a block that is on the queue.
Keeps(b, c) ==
    /\ c.is_ready = b.is_ready /\ c.is_ticking = b.is_ticking
    /\ c.recalculate_flag => b.recalculate_flag
    /\ c.steps = b.steps /\ c.era = b.era
    /\ b.steps_to_move > 0 => c.steps_to_move > 0

\* The planner writes the head, or fields of queued blocks the ticker does not
\* depend on, or tick info with steps in it.
LEMMA PlannerWrites ==
    ASSUME IInv,
           \/ CmdClear \/ CmdForward \/ CmdLock \/ CmdPrepare \/ CmdUnlock
           \/ CmdPublish \/ CmdStalled
    PROVE  /\ UNCHANGED <<m_rIndex, m_wIndex, running, current_block, halts,
                          module_halted, flush, hold_queue, halter>>
           /\ \A s \in Queued(m_rIndex, m_wIndex) : Keeps(block[s], block'[s])
<1>1. UNCHANGED <<m_rIndex, m_wIndex, running, current_block, halts,
                  module_halted, flush, hold_queue, halter>>
    BY DEF CmdClear, CmdForward, CmdLock, CmdPrepare, CmdUnlock, CmdPublish,
           CmdStalled, flagVars, haltVars, tickVars
<1>2. SUFFICES ASSUME NEW s \in Queued(m_rIndex, m_wIndex)
               PROVE  Keeps(block[s], block'[s])
    BY <1>1
<1>3. /\ s \in Slots /\ s # m_wIndex /\ block \in [Slots -> Blocks]
      /\ block[s].steps > 0
    BY HeadAndTail DEF IInv, TypeOK, IndexOK, BlockOK, NoEmptyBlock
<1>4. CASE CmdClear \/ CmdPublish \/ CmdStalled
    <2>1. block'[s] = block[s]
        BY <1>3, <1>4 DEF CmdClear, CmdPublish, CmdStalled
    <2> QED
        BY <2>1 DEF Keeps
<1>5. CASE CmdForward
    <2>1. PICK x \in BOOLEAN :
            block' = block \/ block' = [block EXCEPT
                                 ![next(iter)].recalculate_flag = @ /\ x]
        BY <1>5 DEF CmdForward
    <2> QED
        BY <1>3, <2>1 DEF Keeps, Blocks
<1>6. CASE CmdLock \/ CmdUnlock
    BY <1>3, <1>6 DEF CmdLock, CmdUnlock, Keeps, Blocks
<1>7. CASE CmdPrepare
    BY <1>3, <1>7 DEF CmdPrepare, Keeps, Blocks
<1> QED
    BY <1>4, <1>5, <1>6, <1>7

\* The interrupt fetches block b with something to do.
LEMMA FetchReady ==
    ASSUME saved_block \in Nat, NEW m \in 0 .. 2, NEW b \in Blocks,
           b.is_ready, b.steps > 0,
           m <= 1 => b.steps_to_move > 0,
           m = 2 => saved_block > 0
    PROVE  LET f == Fetched(b, m)
           IN  /\ f.is_ready /\ f.is_ticking /\ ~f.recalculate_flag
               /\ f.steps > 0 /\ f.steps_to_move > 0
               /\ f.era = b.era
BY DEF Fetched, Blocks

\* Every step keeps the queue executable: its blocks are complete, none is from
\* before a halt, and the one that runs is its tail.
LEMMA QueueStep ==
    ASSUME IInv, [Next]_vars
    PROVE  ExecutesTail' /\ NoEmptyBlock' /\ EraInv'
<1> USE DEF IInv
<1>1. /\ m_rIndex \in Slots /\ m_wIndex \in Slots
      /\ block \in [Slots -> Blocks] /\ continuous_mode \in 0 .. 2
      /\ saved_block \in Nat
    BY DEF TypeOK, IndexOK, BlockOK, CountOK
<1>2. CASE TickIdle
    <2>1. \/ m_rIndex' = m_rIndex /\ flush' = flush
          \/ m_rIndex' = m_wIndex
        BY <1>2 DEF TickIdle, FlushedTail, TypeOK, FlagOK
    <2>2. UNCHANGED <<m_wIndex, block, running, current_block, module_halted,
                      halter, halts, hold_queue>>
        BY <1>2 DEF TickIdle, tickVars, haltVars
    <2>3. ~running
        BY <1>2 DEF TickIdle
    <2> QED
        BY <1>1, <2>1, <2>2, <2>3, HeadAndTail
        DEF ExecutesTail, NoEmptyBlock, EraInv
<1>3. CASE TickStart
    <2>1. /\ m_rIndex \in Queued(m_rIndex, m_wIndex)
          /\ Queued(m_rIndex, m_wIndex) \subseteq Slots
        BY <1>1, <1>3, HeadAndTail DEF TickStart, CanGive
    <2>2. LET f == Fetched(block[m_rIndex], continuous_mode)
          IN  /\ f.is_ready /\ f.is_ticking /\ ~f.recalculate_flag
              /\ f.steps > 0 /\ f.steps_to_move > 0
              /\ f.era = block[m_rIndex].era
        BY <1>1, <2>1, FetchReady DEF NoEmptyBlock, JogInv
    <2>3. block' = [block EXCEPT ![m_rIndex] =
                        Fetched(block[m_rIndex], continuous_mode)]
        BY <1>3 DEF TickStart
    <2>4. UNCHANGED <<m_rIndex, m_wIndex, module_halted, halter, halts, flush,
                     hold_queue>>
        BY <1>3 DEF TickStart, haltVars, flagVars
    <2>5. ExecutesTail'
        BY <1>1, <1>3, <2>2, <2>3, <2>4 DEF TickStart, CanGive, ExecutesTail,
                                            empty
    <2>6. NoEmptyBlock'
        BY <1>1, <2>1, <2>2, <2>3, <2>4 DEF NoEmptyBlock
    <2>7. EraInv'
        BY <1>1, <2>1, <2>2, <2>3, <2>4 DEF EraInv
    <2> QED
        BY <2>5, <2>6, <2>7
<1>4. CASE TickHalted
    BY <1>4 DEF TickHalted, ExecutesTail, NoEmptyBlock, EraInv, ringVars,
                flagVars, haltVars
<1>5. CASE TickStep
    <2>1. /\ m_rIndex \in Queued(m_rIndex, m_wIndex)
          /\ Queued(m_rIndex, m_wIndex) \subseteq Slots
        BY <1>1, <1>5, HeadAndTail DEF TickStep, ExecutesTail
    <2>2. block' = [block EXCEPT ![m_rIndex].step_count = @ + 1]
        BY <1>5 DEF TickStep, ExecutesTail
    <2>3. UNCHANGED <<m_rIndex, m_wIndex, running, current_block,
                      module_halted, halter, halts, flush, hold_queue>>
        BY <1>5 DEF TickStep, haltVars, flagVars, tickVars
    <2>4. \A s \in Slots : Keeps(block[s], block'[s])
        BY <1>1, <2>2 DEF Keeps, Blocks
    <2>5. ExecutesTail'
        BY <1>1, <2>3, <2>4 DEF ExecutesTail, Keeps, empty
    <2> QED
        BY <2>1, <2>3, <2>4, <2>5 DEF NoEmptyBlock, EraInv, Keeps
<1>6. CASE TickEnd
    <2> DEFINE r == FinishedTail
               m == FinishedMode
               Q == Queued(m_rIndex, m_wIndex)
    <2>1. PICK pulse \in {0, 1} :
            LET done == [block EXCEPT ![m_rIndex] = Ended(@, pulse)]
            IN  IF CanGive(r, m)
                  THEN /\ m_rIndex' = r
                       /\ running' /\ current_block' = r
                       /\ block' = [done EXCEPT ![r] = Fetched(@, m)]
                  ELSE /\ m_rIndex' = FlushedTail(r)
                       /\ ~running' /\ current_block' = NoBlock
                       /\ block' = done
        BY <1>6 DEF TickEnd, ExecutesTail
    <2>2. UNCHANGED <<m_wIndex, module_halted, halter, halts>>
        BY <1>6 DEF TickEnd, haltVars
    <2>3. running /\ ~module_halted /\ ~hold_queue /\ ~halted
        BY <1>6 DEF TickEnd, HoldInv, HaltInv
    <2>4. m_rIndex \in Q /\ Q \subseteq Slots /\ ~empty(m_rIndex, m_wIndex)
        BY <1>1, <2>3, HeadAndTail DEF ExecutesTail
    <2>5. /\ r \in Slots /\ m \in 0 .. 2
          /\ r = m_rIndex => m = 2 /\ saved_block > 0
          /\ m = 2 => saved_block > 0
          /\ Queued(r, m_wIndex) \subseteq Q
          /\ r # m_rIndex => m_rIndex \notin Queued(r, m_wIndex)
        BY <1>1, <2>4, NextPrev, QueuedAfterRelease
        DEF FinishedTail, FinishedMode, JogInv
    <2>6. CASE CanGive(r, m)
        <3>1. r \in Queued(r, m_wIndex) /\ ~empty(r, m_wIndex) /\ r \in Q
            BY <1>1, <2>5, <2>6, HeadAndTail DEF CanGive
        <3> DEFINE done == [block EXCEPT ![m_rIndex] = Ended(@, pulse)]
        <3>2. /\ block' = [done EXCEPT ![r] = Fetched(done[r], m)]
              /\ done \in [Slots -> Blocks]
              /\ \A s \in Slots \ {m_rIndex} : done[s] = block[s]
              /\ done[r].is_ready /\ done[r].steps > 0
              /\ done[r].era = block[r].era
              /\ r # m_rIndex => done[r].steps_to_move > 0
            <4>1. done \in [Slots -> Blocks]
                <5>1. block[m_rIndex] \in Blocks
                    BY <1>1
                <5> QED
                    BY <1>1, <5>1, EndedBlock
            <4>2. \A s \in Slots \ {m_rIndex} : done[s] = block[s]
                BY <1>1
            <4>3. /\ done[r].is_ready = block[r].is_ready
                  /\ done[r].steps = block[r].steps
                  /\ done[r].era = block[r].era
                <5>1. CASE r = m_rIndex
                    BY <1>1, <5>1, EndedBlock
                <5> QED
                    BY <2>5, <4>2, <5>1
            <4>4. block[r].is_ready /\ block[r].steps > 0
                    /\ block[r].steps_to_move > 0
                BY <3>1 DEF NoEmptyBlock
            <4> QED
                BY <2>1, <2>5, <2>6, <4>1, <4>2, <4>3, <4>4
        <3>3. LET f == block'[r]
              IN  /\ f.is_ready /\ f.is_ticking /\ ~f.recalculate_flag
                  /\ f.steps > 0 /\ f.steps_to_move > 0
                  /\ f.era = block[r].era
            <4>1. block'[r] = Fetched(done[r], m) /\ done[r] \in Blocks
                BY <2>5, <3>2
            <4>2. m <= 1 => done[r].steps_to_move > 0
                BY <2>5, <3>2
            <4> HIDE DEF done, m
            <4> QED
                BY <1>1, <2>5, <3>2, <4>1, <4>2, FetchReady
        <3>4. \A s \in Queued(r, m_wIndex) \ {r} : block'[s] = block[s]
            <4> HIDE DEF done
            <4> QED
                BY <2>4, <2>5, <3>2
        <3>5. ExecutesTail'
            BY <2>1, <2>2, <2>6, <3>1, <3>3 DEF ExecutesTail, empty
        <3>6. NoEmptyBlock'
            BY <2>1, <2>2, <2>5, <2>6, <3>3, <3>4 DEF NoEmptyBlock
        <3>7. EraInv'
            BY <2>1, <2>2, <2>3, <2>5, <2>6, <3>1, <3>3, <3>4 DEF EraInv
        <3> QED
            BY <3>5, <3>6, <3>7
    <2>7. CASE ~CanGive(r, m)
        <3>1. Queued(FlushedTail(r), m_wIndex) \subseteq Q \ {m_rIndex}
            <4>1. CASE flush
                BY <1>1, <2>3, <4>1, HeadAndTail DEF FlushedTail
            <4>2. CASE empty(r, m_wIndex)
                BY <1>1, <2>3, <4>2, HeadAndTail DEF FlushedTail, empty
            <4>3. CASE r # m_rIndex /\ ~flush
                BY <2>5, <4>3 DEF FlushedTail
            <4>4. CASE r = m_rIndex /\ ~flush /\ ~empty(r, m_wIndex)
                BY <2>3, <2>5, <2>7, <4>4 DEF CanGive
            <4> QED
                BY <4>1, <4>2, <4>3, <4>4
        <3>2. \A s \in Q \ {m_rIndex} : block'[s] = block[s]
            BY <1>1, <2>1, <2>4, <2>7
        <3>3. ExecutesTail'
            BY <2>1, <2>7 DEF ExecutesTail
        <3>4. NoEmptyBlock'
            BY <2>1, <2>2, <2>7, <3>1, <3>2 DEF NoEmptyBlock
        <3>5. EraInv'
            BY <2>1, <2>2, <2>3, <2>7, <3>1, <3>2 DEF EraInv
        <3> QED
            BY <3>3, <3>4, <3>5
    <2> QED
        BY <2>6, <2>7
<1>7. CASE \/ CmdClear \/ CmdForward \/ CmdLock \/ CmdPrepare \/ CmdUnlock
           \/ CmdPublish \/ CmdStalled
    <2>1. /\ UNCHANGED <<m_rIndex, m_wIndex, running, current_block, halts,
                         module_halted, flush, hold_queue, halter>>
          /\ \A s \in Queued(m_rIndex, m_wIndex) : Keeps(block[s], block'[s])
        BY <1>7, PlannerWrites
    <2>2. ~empty(m_rIndex, m_wIndex) => m_rIndex \in Queued(m_rIndex, m_wIndex)
        BY <1>1, HeadAndTail
    <2>3. ExecutesTail'
        BY <2>1, <2>2 DEF ExecutesTail, Keeps, empty
    <2>4. NoEmptyBlock'
        BY <2>1 DEF NoEmptyBlock, Keeps
    <2>5. EraInv'
        BY <2>1 DEF EraInv, Keeps
    <2> QED
        BY <2>3, <2>4, <2>5
<1>8. CASE CmdQueueHead
    <2>1. CASE full(m_rIndex, m_wIndex)
        BY <1>8, <2>1 DEF CmdQueueHead, ExecutesTail, NoEmptyBlock, EraInv,
                          flagVars, haltVars, tickVars
    <2>2. CASE ~full(m_rIndex, m_wIndex)
        <3>1. /\ m_wIndex' = next(m_wIndex)
              /\ block' = [block EXCEPT ![m_wIndex].era = halts]
              /\ UNCHANGED <<m_rIndex, running, current_block, halts,
                            module_halted, flush, hold_queue, halter>>
            BY <1>8, <2>2
            DEF CmdQueueHead, flagVars, haltVars, tickVars
        <3>2. /\ block[m_wIndex].is_ready /\ block[m_wIndex].steps > 0
              /\ block[m_wIndex].steps_to_move > 0
            BY <1>8 DEF CmdQueueHead, At, HeadInv, Building
        <3>3. /\ Queued(m_rIndex, next(m_wIndex))
                    = Queued(m_rIndex, m_wIndex) \cup {m_wIndex}
              /\ Queued(m_rIndex, m_wIndex) \subseteq Slots
              /\ m_wIndex \notin Queued(m_rIndex, m_wIndex)
            BY <1>1, <2>2, QueuedAfterCommit, HeadAndTail
        <3>4. /\ \A s \in Slots \ {m_wIndex} : block'[s] = block[s]
              /\ block'[m_wIndex].is_ready /\ block'[m_wIndex].steps > 0
              /\ block'[m_wIndex].steps_to_move > 0
              /\ block'[m_wIndex].era = halts
            BY <1>1, <3>1, <3>2 DEF Blocks
        <3>5. ExecutesTail'
            BY <1>1, <2>2, <3>1, <3>4 DEF ExecutesTail, empty, full
        <3>6. NoEmptyBlock'
            BY <3>1, <3>3, <3>4 DEF NoEmptyBlock
        <3>7. EraInv'
            BY <3>1, <3>3, <3>4 DEF EraInv
        <3> QED
            BY <3>5, <3>6, <3>7
    <2> QED
        BY <2>1, <2>2
<1>9. CASE \E who \in Halters, flg \in BOOLEAN : HaltBegin(who, flg)
    <2>1. PICK who \in Halters, flg \in BOOLEAN : HaltBegin(who, flg)
        BY <1>9
    <2>2. ExecutesTail' /\ NoEmptyBlock'
        BY <2>1 DEF HaltBegin, ExecutesTail, NoEmptyBlock, ringVars, tickVars
    <2>3. CASE flg
        <3>1. module_halted' /\ halter'.pc = "conveyor" /\ halter'.flg
            BY <2>1, <2>3 DEF HaltBegin
        <3> QED
            BY <2>2, <3>1 DEF EraInv
    <2>4. CASE ~flg
        <3>1. /\ flush => hold_queue
              /\ halter.pc = "none"
              /\ UNCHANGED <<ringVars, halts>>
            BY <2>1, <2>4 DEF HaltBegin, HaltNoticed
        <3> QED
            BY <2>2, <3>1 DEF EraInv, ringVars
    <2> QED
        BY <2>2, <2>3, <2>4
<1>10. CASE HaltConveyor
    <2>1. ExecutesTail' /\ NoEmptyBlock'
        BY <1>10 DEF HaltConveyor, ExecutesTail, NoEmptyBlock, ringVars,
                     tickVars
    <2>2. EraInv'
        BY <1>10 DEF HaltConveyor, EraInv, HaltInv, ringVars
    <2> QED
        BY <2>1, <2>2
<1>11. CASE CmdWaitEmpty \/ CmdFlush
    <2>1. /\ UNCHANGED <<ringVars, tickVars, haltVars, hold_queue>>
          /\ flush' = flush \/ flush' \/ empty(m_rIndex, m_wIndex)
        BY <1>11 DEF CmdWaitEmpty, CmdFlush
    <2>2. ExecutesTail' /\ NoEmptyBlock'
        BY <2>1 DEF ExecutesTail, NoEmptyBlock, ringVars, tickVars
    <2>3. EraInv'
        BY <1>1, <2>1, HeadAndTail DEF EraInv, empty, ringVars, haltVars
    <2> QED
        BY <2>2, <2>3
<1>12. CASE CmdWaitMotors
    <2>1. UNCHANGED <<ringVars, tickVars, haltVars>> /\ is_idle
        BY <1>12 DEF CmdWaitMotors
    <2>2. Queued(m_rIndex, m_wIndex) = {}
        BY <1>1, <2>1, HeadAndTail DEF is_idle, empty
    <2> QED
        BY <2>1, <2>2
        DEF ExecutesTail, NoEmptyBlock, EraInv, ringVars, tickVars
<1>13. CASE /\ UNCHANGED <<ringVars, tickVars, flush, module_halted, halts>>
            /\ UNCHANGED halter \/ (halter.pc # "conveyor")
            /\ hold_queue' => hold_queue
    BY <1>13 DEF ExecutesTail, NoEmptyBlock, EraInv, ringVars, tickVars
<1>14. CASE CmdJogMode \/ CmdJogRun
    <2>1. UNCHANGED <<ringVars, tickVars, flush, haltVars>>
        BY <1>14 DEF CmdJogMode, CmdJogRun
    <2>2. hold_queue' = hold_queue \/ ~hold_queue'
        BY <1>14 DEF CmdJogMode, CmdJogRun
    <2> QED
        BY <1>13, <2>1, <2>2 DEF haltVars
<1>15. CASE HaltRobot \/ HaltPosition
    <2>1. /\ UNCHANGED <<ringVars, tickVars, flagVars, module_halted, halts>>
          /\ halter.pc # "conveyor"
        BY <1>15 DEF HaltRobot, HaltPosition
    <2> QED
        BY <1>13, <2>1 DEF flagVars
<1>16. CASE UNCHANGED vars \/ CmdJogStart \/ CmdJogStop \/ CmdJogFree
              \/ \E timeout \in BOOLEAN : CmdLoop(timeout)
    <2>1. UNCHANGED <<ringVars, tickVars, flush, hold_queue, haltVars>>
        BY <1>16 DEF CmdLoop, CmdJogStart, CmdJogStop, CmdJogFree, vars,
                     flagVars
    <2> QED
        BY <1>13, <2>1 DEF haltVars
<1>17. CASE \/ CmdRequest /\ ~CmdFlush
            \/ CmdNone \/ CmdCheck \/ CmdRecalculate \/ CmdReverse
            \/ CmdTrapezoid
    <2>1. UNCHANGED <<ringVars, tickVars, flagVars, haltVars>>
        BY <1>17 DEF CmdRequest, CmdMove, CmdWait, CmdNone, CmdCheck,
                     CmdRecalculate, CmdReverse, CmdTrapezoid
    <2> QED
        BY <1>13, <2>1 DEF haltVars, flagVars
<1> QED
    BY <1>2, <1>3, <1>4, <1>5, <1>6, <1>7, <1>8, <1>9, <1>10, <1>11, <1>12,
       <1>14, <1>15, <1>16, <1>17
    DEF Next, StepTick, CmdStep, CmdRequest, HaltStep

\* Every step keeps the block under construction intact: the interrupt writes
\* queued blocks only.
LEMMA HeadStep ==
    ASSUME IInv, [Next]_vars
    PROVE  HeadInv'
<1> USE DEF IInv
<1>1. /\ m_rIndex \in Slots /\ m_wIndex \in Slots /\ previous \in Slots
      /\ block \in [Slots -> Blocks]
    BY DEF TypeOK, IndexOK, BlockOK
<1>2. CASE TickStart \/ TickStep \/ TickEnd
    <2>1. m_rIndex # m_wIndex
        BY <1>2
        DEF TickStart, CanGive, TickStep, TickEnd, ExecutesTail, empty
    <2>2. UNCHANGED <<m_wIndex, pc, previous>>
        BY <1>2 DEF TickStart, TickStep, TickEnd, cmdVars
    <2>3. block'[m_wIndex] = block[m_wIndex]
        <3>1. CASE TickStart \/ TickStep
            BY <1>1, <2>1, <3>1 DEF TickStart, TickStep, ExecutesTail
        <3>2. CASE TickEnd
            BY <1>1, <2>1, <3>2, NextPrev
            DEF TickEnd, ExecutesTail, CanGive, empty
        <3> QED
            BY <1>2, <3>1, <3>2
    <2> QED
        BY <2>2, <2>3 DEF HeadInv
<1>3. CASE CmdClear
    <2>1. pc' = "recalculate" => block'[m_wIndex].steps > 0
                                 /\ ~block'[m_wIndex].is_ticking
        BY <1>1, <1>3 DEF CmdClear, NewBlock, ClearBlock, MoveReturns
    <2>2. pc' \in Building => pc' = "recalculate"
        BY <1>3 DEF CmdClear, MoveReturns, Building
    <2>3. m_wIndex' = m_wIndex
        BY <1>3 DEF CmdClear
    <2> QED
        BY <2>1, <2>2, <2>3 DEF HeadInv, Building
<1>4. CASE CmdRecalculate \/ CmdReverse
    BY <1>4 DEF CmdRecalculate, CmdReverse, At, HeadInv, Building, ringVars
<1>5. CASE CmdForward
    <2>1. /\ block'[m_wIndex].steps = block[m_wIndex].steps
          /\ block'[m_wIndex].is_ticking = block[m_wIndex].is_ticking
        BY <1>1, <1>5 DEF CmdForward, Blocks
    <2> QED
        BY <1>5, <2>1 DEF CmdForward, At, HeadInv, Building
<1>6. CASE CmdTrapezoid
    BY <1>6
    DEF CmdTrapezoid, AfterTrapezoid, At, HeadInv, Building, ringVars
<1>7. CASE CmdLock
    BY <1>1, <1>7 DEF CmdLock, At, HeadInv, Building, Blocks
<1>8. CASE CmdPrepare
    BY <1>1, <1>8 DEF CmdPrepare, At, HeadInv, Building, Blocks
<1>9. CASE CmdUnlock
    BY <1>1, <1>9 DEF CmdUnlock, AfterTrapezoid, At, HeadInv, Building, Blocks
<1>10. CASE CmdPublish
    BY <1>1, <1>10 DEF CmdPublish, MoveReturns, At, HeadInv, Building, Blocks
<1>11. CASE CmdQueueHead \/ CmdStalled
    BY <1>1, <1>11
    DEF CmdQueueHead, CmdStalled, MoveReturns, At, HeadInv, Building, ringVars
<1>12. CASE pc' \notin Building
    BY <1>12 DEF HeadInv, Building
<1>13. CASE UNCHANGED <<m_wIndex, block, pc, previous>>
    BY <1>13 DEF HeadInv
<1> QED
    BY <1>2, <1>3, <1>4, <1>5, <1>6, <1>7, <1>8, <1>9, <1>10, <1>11, <1>12,
       <1>13
    DEF Next, CmdLoop, HaltBegin, StepTick, TickIdle, TickHalted, CmdRequest,
        CmdMove, CmdFlush, CmdWait, CmdStep, CmdNone, CmdWaitEmpty,
        CmdWaitMotors, CmdCheck, CmdJogMode, CmdJogStart, CmdJogRun,
        CmdJogStop, CmdJogFree, At, MoveReturns, HaltStep, HaltConveyor,
        HaltRobot, HaltPosition, vars, ringVars, flagVars, haltVars, tickVars,
        motorVars, cmdVars, Building

\* A queue is held when nothing runs, and nothing starts while it is held.
LEMMA HoldStep ==
    ASSUME IInv, [Next]_vars
    PROVE  HoldInv'
<1> USE DEF IInv
<1>1. CASE CmdWaitMotors
    <2>1. ~running /\ running' = running
        BY <1>1 DEF CmdWaitMotors, is_idle, ExecutesTail, tickVars
    <2> QED
        BY <2>1 DEF HoldInv
<1>2. CASE TickStart \/ TickEnd
    BY <1>2 DEF TickStart, TickEnd, CanGive, flagVars, HoldInv
<1>3. CASE /\ hold_queue' => hold_queue
           /\ running' => running
    BY <1>3 DEF HoldInv
<1>4. CASE TickIdle \/ TickHalted \/ TickStep \/ HaltStep
    BY <1>3, <1>4
    DEF TickIdle, TickHalted, TickStep, HaltStep, HaltConveyor, HaltRobot,
        HaltPosition, flagVars, tickVars
<1>5. CASE CmdStep /\ ~CmdWaitMotors
    <2>1. UNCHANGED running
        BY <1>5 DEF CmdStep, CmdNone, CmdWaitEmpty, CmdCheck, CmdClear,
                    CmdRecalculate, CmdReverse, CmdForward, CmdTrapezoid,
                    CmdLock, CmdPrepare, CmdUnlock, CmdPublish, CmdQueueHead,
                    CmdStalled, CmdJogMode, CmdJogStart, CmdJogRun, CmdJogStop,
                    CmdJogFree, At, CheckQueue, MoveReturns, AfterTrapezoid,
                    tickVars
    <2>2. hold_queue' => hold_queue
        BY <1>5 DEF CmdStep, CmdNone, CmdWaitEmpty, CmdCheck, CmdClear,
                    CmdRecalculate, CmdReverse, CmdForward, CmdTrapezoid,
                    CmdLock, CmdPrepare, CmdUnlock, CmdPublish, CmdQueueHead,
                    CmdStalled, CmdJogMode, CmdJogStart, CmdJogRun, CmdJogStop,
                    CmdJogFree, At, CheckQueue, MoveReturns, AfterTrapezoid,
                    flagVars
    <2> QED
        BY <1>3, <2>1, <2>2
<1>6. CASE \/ \E timeout \in BOOLEAN : CmdLoop(timeout)
           \/ CmdRequest
           \/ \E who \in Halters, flg \in BOOLEAN : HaltBegin(who, flg)
           \/ UNCHANGED vars
    <2>1. UNCHANGED <<running, hold_queue>>
        BY <1>6 DEF CmdLoop, CmdRequest, CmdMove, CmdFlush, CmdWait, HaltBegin,
                    vars, flagVars, tickVars
    <2> QED
        BY <1>3, <2>1
<1> QED
    BY <1>1, <1>2, <1>4, <1>5, <1>6 DEF Next, StepTick

\* A broadcast has the task's flag, a stopped conveyor has stopped the ticker.
LEMMA HaltFlagsStep ==
    ASSUME IInv, [Next]_vars
    PROVE  HaltInv'
<1> USE DEF IInv
<1>1. CASE \E who \in Halters, flg \in BOOLEAN : HaltBegin(who, flg)
    <2>1. PICK who \in Halters, flg \in BOOLEAN : HaltBegin(who, flg)
        BY <1>1
    <2>2. module_halted' = halter'.flg
        BY <2>1 DEF HaltBegin
    <2>3. halted' /\ running' => module_halted'
        BY <2>1 DEF HaltBegin, HaltNoticed, flagVars, tickVars
    <2>4. halter'.pc = "conveyor"
        BY <2>1 DEF HaltBegin
    <2> QED
        BY <2>2, <2>3, <2>4 DEF HaltInv
<1>2. CASE HaltConveyor
    BY <1>2 DEF HaltConveyor, HaltInv, TypeOK, PlaceOK
<1>3. CASE HaltRobot \/ HaltPosition
    <2>1. halter'.pc # "none" => halter'.flg = halter.flg
        BY <1>3 DEF HaltRobot, HaltPosition, NoHalter, TypeOK, PlaceOK
    <2>2. /\ halter.pc \notin {"none", "conveyor"}
          /\ UNCHANGED <<module_halted, halted, running>>
        BY <1>3 DEF HaltRobot, HaltPosition, flagVars, tickVars
    <2> QED
        BY <2>1, <2>2 DEF HaltInv
<1>4. CASE TickStart \/ TickEnd
    <2>1. running' => ~halted
        BY <1>4 DEF TickStart, TickEnd, CanGive
    <2>2. UNCHANGED <<halter, module_halted, halted>>
        BY <1>4 DEF TickStart, TickEnd, flagVars, haltVars
    <2> QED
        BY <2>1, <2>2 DEF HaltInv
<1>5. CASE TickIdle \/ TickHalted \/ TickStep
    <2>1. UNCHANGED <<halter, module_halted, halted>> /\ (running' => running)
        BY <1>5 DEF TickIdle, TickHalted, TickStep, flagVars, haltVars,
                    tickVars
    <2> QED
        BY <2>1 DEF HaltInv
<1>6. CASE \/ CmdStep \/ CmdRequest \/ UNCHANGED vars
           \/ \E timeout \in BOOLEAN : CmdLoop(timeout)
    <2>1. UNCHANGED <<halter, module_halted, halted, running>>
        BY <1>6
        DEF CmdLoop, CmdRequest, CmdMove, CmdFlush, CmdWait, CmdStep, CmdNone,
            CmdWaitEmpty, CmdWaitMotors, CmdCheck, CmdClear, CmdRecalculate,
            CmdReverse, CmdForward, CmdTrapezoid, CmdLock, CmdPrepare,
            CmdUnlock, CmdPublish, CmdQueueHead, CmdStalled, CmdJogMode,
            CmdJogStart, CmdJogRun, CmdJogStop, CmdJogFree, At, CheckQueue,
            MoveReturns, AfterTrapezoid, vars, flagVars, haltVars, tickVars
    <2> QED
        BY <2>1 DEF HaltInv
<1> QED
    BY <1>1, <1>2, <1>3, <1>4, <1>5, <1>6 DEF Next, StepTick, HaltStep

\* The saved tick info outlives the repetition.
LEMMA JogStep ==
    ASSUME IInv, [Next]_vars
    PROVE  JogInv'
<1> USE DEF IInv
<1>1. CASE CmdJogMode
    <2>1. pc' = "jog_start" => saved_block' > 0
        <3>1. ThreeQueued
                => prev(prev(m_wIndex)) \in Queued(m_rIndex, m_wIndex)
            BY SecondFromHead DEF ThreeQueued, TypeOK, IndexOK
        <3> QED
            BY <1>1, <3>1 DEF CmdJogMode, NoEmptyBlock
    <2>2. pc' \in {"jog_start", "loop"} /\ continuous_mode' = continuous_mode
        BY <1>1 DEF CmdJogMode
    <2>3. continuous_mode = 0
        BY <1>1 DEF CmdJogMode, At, JogInv
    <2> QED
        BY <2>1, <2>2, <2>3 DEF JogInv
<1>2. CASE CmdJogStart
    BY <1>2 DEF CmdJogStart, At, JogInv
<1>3. CASE CmdJogRun
    BY <1>3 DEF CmdJogRun, At, JogInv
<1>4. CASE CmdJogStop
    BY <1>4 DEF CmdJogStop, At, JogInv
<1>5. CASE CmdJogFree
    BY <1>5 DEF CmdJogFree, At, JogInv
<1>6. CASE TickEnd
    BY <1>6 DEF TickEnd, FinishedMode, cmdVars, JogInv
<1>7. CASE HaltConveyor
    BY <1>7 DEF HaltConveyor, cmdVars, JogInv
<1>8. CASE UNCHANGED <<continuous_mode, saved_block, pc>>
    BY <1>8 DEF JogInv
<1>9. CASE /\ UNCHANGED <<continuous_mode, saved_block>>
           /\ pc \notin {"mode", "jog_start", "jog_run", "jogging"}
           /\ pc' \notin {"jog_start", "jog_run", "jogging"}
    BY <1>9 DEF JogInv
<1> QED
    BY <1>1, <1>2, <1>3, <1>4, <1>5, <1>6, <1>7, <1>8, <1>9
    DEF Next, CmdLoop, HaltBegin, StepTick, TickIdle, TickStart, TickHalted,
        TickStep, CmdRequest, CmdMove, CmdFlush, CmdWait, CmdStep, CmdNone,
        CmdWaitEmpty, CmdWaitMotors, CmdCheck, CmdClear, CmdRecalculate,
        CmdReverse, CmdForward, CmdTrapezoid, CmdLock, CmdPrepare, CmdUnlock,
        CmdPublish, CmdQueueHead, CmdStalled, At, MoveReturns, AfterTrapezoid,
        HaltStep, HaltRobot, HaltPosition, vars, ringVars, flagVars, haltVars,
        tickVars, motorVars, cmdVars

\* A motor moves only while it is stepped, or until the broadcast that is under
\* way stops it.
LEMMA MovingStep ==
    ASSUME IInv, [Next]_vars
    PROVE  MovingInv'
<1> USE DEF IInv
<1>1. CASE TickStart \/ TickEnd
    <2>1. running' => ~halted
        BY <1>1 DEF TickStart, TickEnd, CanGive
    <2>2. UNCHANGED <<halter, module_halted, halted>>
        BY <1>1 DEF TickStart, TickEnd, flagVars, haltVars
    <2>3. CASE TickStart
        <3>1. ~halted /\ running' = ~module_halted
            BY <2>3 DEF TickStart, CanGive
        <3> QED
            BY <2>2, <3>1 DEF HaltInv, MovingInv, TypeOK, FlagOK
    <2>4. CASE TickEnd
        <3>1. ~module_halted /\ (moving' => running')
            BY <2>4 DEF TickEnd
        <3> QED
            BY <2>2, <3>1 DEF MovingInv
    <2> QED
        BY <1>1, <2>3, <2>4
<1>2. CASE TickIdle \/ TickHalted \/ TickStep
    <2>1. /\ UNCHANGED <<moving, module_halted, halter>>
          /\ running' = running \/ module_halted
        BY <1>2 DEF TickIdle, TickHalted, TickStep, tickVars, motorVars,
                    haltVars
    <2> QED
        BY <2>1 DEF MovingInv
<1>3. CASE \E who \in Halters, flg \in BOOLEAN : HaltBegin(who, flg)
    BY <1>3 DEF HaltBegin, MovingInv, motorVars, tickVars
<1>4. CASE HaltConveyor
    BY <1>4 DEF HaltConveyor, MovingInv, motorVars, tickVars, TypeOK, PlaceOK
<1>5. CASE HaltRobot
    BY <1>5 DEF HaltRobot, HaltInv, MovingInv, tickVars
<1>6. CASE HaltPosition
    BY <1>6 DEF HaltPosition, MovingInv, tickVars
<1>7. CASE \/ CmdStep \/ CmdRequest \/ UNCHANGED vars
           \/ \E timeout \in BOOLEAN : CmdLoop(timeout)
    <2>1. UNCHANGED <<halter, module_halted, moving, running>>
        BY <1>7
        DEF CmdLoop, CmdRequest, CmdMove, CmdFlush, CmdWait, CmdStep, CmdNone,
            CmdWaitEmpty, CmdWaitMotors, CmdCheck, CmdClear, CmdRecalculate,
            CmdReverse, CmdForward, CmdTrapezoid, CmdLock, CmdPrepare,
            CmdUnlock, CmdPublish, CmdQueueHead, CmdStalled, CmdJogMode,
            CmdJogStart, CmdJogRun, CmdJogStop, CmdJogFree, vars, haltVars,
            tickVars, motorVars
    <2> QED
        BY <2>1 DEF MovingInv
<1> QED
    BY <1>1, <1>2, <1>3, <1>4, <1>5, <1>6, <1>7 DEF Next, StepTick, HaltStep

\* Every step keeps the jog's three blocks until its first one is finished,
\* and then its last two.
LEMMA JogQueueStep ==
    ASSUME IInv, [Next]_vars
    PROVE  JogQueueInv'
<1> USE DEF IInv
<1>1. /\ m_rIndex \in Slots /\ m_wIndex \in Slots /\ todo \in 0 .. 2
      /\ Depth(m_rIndex, m_wIndex) \in Nat
      /\ Depth(m_rIndex, m_wIndex) = 0 <=> empty(m_rIndex, m_wIndex)
      /\ Depth(m_wIndex, m_wIndex) = 0
    BY DepthValue DEF TypeOK, IndexOK, CountOK, empty
<1>2. CASE TickIdle
    <2>1. /\ UNCHANGED <<m_wIndex, pc, caller, todo, hold_queue, running,
                         continuous_mode>>
          /\ flush' = (flush /\ hold_queue)
          /\ m_rIndex' = IF flush /\ ~hold_queue THEN m_wIndex ELSE m_rIndex
          /\ ~running
        BY <1>2 DEF TickIdle, FlushedTail, tickVars, cmdVars
    <2>2. CASE flush /\ ~hold_queue
        BY <1>1, <2>1, <2>2 DEF JogQueueInv
    <2>3. CASE ~flush \/ hold_queue
        BY <2>1, <2>3 DEF JogQueueInv
    <2> QED
        BY <2>2, <2>3
<1>3. CASE TickStart
    <2>1. /\ UNCHANGED <<m_rIndex, m_wIndex, pc, caller, todo, hold_queue,
                         flush, continuous_mode>>
          /\ ~hold_queue /\ ~flush /\ ~empty(m_rIndex, m_wIndex)
        BY <1>3 DEF TickStart, CanGive, flagVars, cmdVars
    <2> QED
        BY <1>1, <2>1 DEF JogQueueInv
<1>4. CASE TickEnd
    <2>1. /\ UNCHANGED <<m_wIndex, pc, caller, todo, hold_queue>>
          /\ running /\ ~module_halted /\ ~halted /\ ~hold_queue
          /\ ~empty(m_rIndex, m_wIndex)
        BY <1>4 DEF TickEnd, cmdVars, HaltInv, HoldInv, ExecutesTail
    <2>2. /\ continuous_mode' = FinishedMode
          /\ m_rIndex' = IF CanGive(FinishedTail, FinishedMode)
                           THEN FinishedTail ELSE FlushedTail(FinishedTail)
          /\ flush' => flush
        BY <1>4 DEF TickEnd
    <2>3. pc \notin {"jog_start", "jog_run"}
        BY <2>1 DEF JogQueueInv
    <2>4. CASE continuous_mode = 0
        BY <1>1, <2>1, <2>2, <2>3, <2>4 DEF FinishedMode, JogQueueInv
    <2>5. CASE continuous_mode = 1
        <3>1. ~flush /\ Depth(m_rIndex, m_wIndex) = 3
            BY <1>1, <2>1, <2>3, <2>5 DEF JogInv, JogQueueInv
        <3>2. Depth(next(m_rIndex), m_wIndex) = 2
            BY <1>1, <2>1, <3>1, DepthAfterRelease
        <3>3. m_rIndex' = next(m_rIndex) /\ continuous_mode' = 2
            BY <2>2, <2>5, <3>1 DEF FinishedMode, FinishedTail, FlushedTail
        <3> QED
            BY <2>1, <2>2, <2>3, <3>1, <3>2, <3>3 DEF JogQueueInv
    <2>6. CASE continuous_mode = 2
        <3>1. ~flush /\ Depth(m_rIndex, m_wIndex) = 2
            BY <2>6 DEF JogQueueInv
        <3>2. m_rIndex' = m_rIndex /\ continuous_mode' = 2
            BY <2>2, <2>6, <3>1 DEF FinishedMode, FinishedTail, FlushedTail
        <3> QED
            BY <2>1, <2>2, <2>3, <3>1, <3>2 DEF JogQueueInv
    <2> QED
        BY <2>4, <2>5, <2>6 DEF TypeOK, CountOK
<1>5. CASE TickHalted \/ TickStep \/ UNCHANGED vars
    <2>1. /\ UNCHANGED <<m_rIndex, m_wIndex, pc, caller, todo, hold_queue,
                         flush, continuous_mode>>
          /\ running' => running
        BY <1>5 DEF TickHalted, TickStep, ringVars, flagVars, tickVars,
                    cmdVars, vars
    <2> QED
        BY <2>1 DEF JogQueueInv
<1>6. CASE HaltConveyor
    <2>1. /\ UNCHANGED <<m_rIndex, m_wIndex, pc, caller, todo, running>>
          /\ \/ flush' /\ continuous_mode' = 0 /\ ~hold_queue'
             \/ UNCHANGED <<flush, continuous_mode, hold_queue>>
        BY <1>6 DEF HaltConveyor, ringVars, tickVars, cmdVars
    <2> QED
        BY <2>1 DEF JogQueueInv
<1>7. CASE \/ HaltRobot \/ HaltPosition
           \/ \E who \in Halters, flg \in BOOLEAN : HaltBegin(who, flg)
    <2>1. UNCHANGED <<m_rIndex, m_wIndex, pc, caller, todo, hold_queue, flush,
                      continuous_mode, running>>
        BY <1>7 DEF HaltRobot, HaltPosition, HaltBegin, ringVars, flagVars,
                    tickVars, cmdVars
    <2> QED
        BY <2>1 DEF JogQueueInv
<1>8. CASE CmdWaitMotors
    <2>1. /\ UNCHANGED <<m_rIndex, m_wIndex, caller, continuous_mode>>
          /\ empty(m_rIndex, m_wIndex) /\ continuous_mode = 0
          /\ IF caller = "jog" THEN pc' = "check" /\ todo' = 2
                               ELSE pc' = "loop"
        BY <1>8 DEF CmdWaitMotors, is_idle, At, JogInv, ringVars
    <2> QED
        BY <1>1, <2>1 DEF JogQueueInv, Appending, Building
<1>9. CASE CmdCheck \/ CmdClear \/ CmdPublish \/ CmdQueueHead \/ CmdStalled
    <2>1. /\ UNCHANGED <<m_rIndex, caller, hold_queue, continuous_mode>>
          /\ pc \in Appending /\ continuous_mode = 0
        BY <1>9 DEF CmdCheck, CmdClear, CmdPublish, CmdQueueHead, CmdStalled,
                    At, JogInv, Appending, Building, ringVars, flagVars
    <2>2. /\ Depth(m_rIndex', m_wIndex') \in
                {Depth(m_rIndex, m_wIndex), Depth(m_rIndex, m_wIndex) + 1}
          /\ \/ /\ m_wIndex' = m_wIndex
                /\ pc' \in Appending /\ UNCHANGED todo
             \/ MoveReturns
        <3>1. CASE CmdQueueHead
            BY <1>1, <3>1, DepthAfterCommit
            DEF CmdQueueHead, Appending, Building
        <3>2. CASE ~CmdQueueHead
            BY <1>1, <1>9, <2>1, <3>2
            DEF CmdCheck, CmdClear, CmdPublish, CmdStalled, Appending,
                Building, ringVars
        <3> QED
            BY <3>1, <3>2
    <2>3. CASE MoveReturns
        <3>1. /\ pc' \in {"check", "mode", "loop"}
              /\ pc' = "check" => todo' = todo - 1
              /\ pc' # "loop" => caller = "jog"
            BY <2>3 DEF MoveReturns
        <3> QED
            BY <1>1, <2>1, <2>2, <3>1 DEF JogQueueInv, Appending, Building
    <2>4. CASE m_wIndex' = m_wIndex /\ pc' \in Appending /\ UNCHANGED todo
        BY <2>1, <2>4 DEF JogQueueInv, Appending, Building
    <2> QED
        BY <2>2, <2>3, <2>4
<1>10. CASE \/ CmdRecalculate \/ CmdReverse \/ CmdForward \/ CmdTrapezoid
            \/ CmdLock \/ CmdPrepare \/ CmdUnlock
    <2>1. /\ UNCHANGED <<m_rIndex, m_wIndex, caller, todo, hold_queue,
                         continuous_mode>>
          /\ pc \in Appending /\ pc' \in Appending
          /\ continuous_mode = 0
          /\ pc' \notin {"mode", "jog_start", "jog_run", "jogging"}
        BY <1>10
        DEF CmdRecalculate, CmdReverse, CmdForward, CmdTrapezoid, CmdLock,
            CmdPrepare, CmdUnlock, AfterTrapezoid, At, JogInv, Appending,
            Building, ringVars, flagVars
    <2> QED
        BY <2>1 DEF JogQueueInv
<1>11. CASE CmdJogMode
    <2>1. ThreeQueued => Depth(m_rIndex, m_wIndex) >= 3
        BY <1>1, ThirdFromHead DEF ThreeQueued
    <2>2. /\ UNCHANGED <<m_rIndex, m_wIndex, continuous_mode, running, flush>>
          /\ pc = "mode" /\ continuous_mode = 0
          /\ \/ /\ hold_queue /\ ThreeQueued
                /\ UNCHANGED hold_queue /\ pc' = "jog_start"
             \/ pc' = "loop"
        BY <1>11 DEF CmdJogMode, At, JogInv, ringVars, tickVars
    <2> QED
        BY <1>1, <2>1, <2>2 DEF JogQueueInv, HoldInv, Appending, Building
<1>12. CASE CmdJogStart
    BY <1>12
    DEF CmdJogStart, At, JogQueueInv, Appending, Building, ringVars, tickVars
<1>13. CASE CmdJogRun
    BY <1>13 DEF CmdJogRun, At, JogQueueInv, Appending, Building, ringVars,
                 tickVars
<1>14. CASE CmdJogStop
    BY <1>14 DEF CmdJogStop, At, JogQueueInv, Appending, Building
<1>15. CASE CmdJogFree \/ CmdNone \/ CmdWaitEmpty \/ CmdRequest
              \/ \E timeout \in BOOLEAN : CmdLoop(timeout)
    <2>1. /\ continuous_mode = 0 /\ UNCHANGED continuous_mode
          /\ pc' \in Appending => caller' # "jog"
          /\ pc' \notin {"mode", "jog_start", "jog_run", "jogging"}
        BY <1>15
        DEF CmdJogFree, CmdNone, CmdWaitEmpty, CmdRequest, CmdMove, CmdFlush,
            CmdWait, CmdLoop, At, JogInv, Appending, Building, flagVars
    <2> QED
        BY <2>1 DEF JogQueueInv
<1> QED
    BY <1>2, <1>3, <1>4, <1>5, <1>6, <1>7, <1>8, <1>9, <1>10, <1>11, <1>12,
       <1>13, <1>14, <1>15
    DEF Next, StepTick, CmdStep, HaltStep

\* A move keeps its number for as long as it is on the ring: only the head is
\* built and cleared.
LEMMA MovesKept ==
    ASSUME IInv, [Next]_vars, NEW s \in Slots,
           s = m_wIndex => ~(CmdClear \/ CmdPublish \/ CmdStalled)
    PROVE  block'[s].move = block[s].move
<1> USE DEF IInv
<1>1. /\ block \in [Slots -> Blocks]
      /\ saved_block \in Nat /\ continuous_mode \in 0 .. 2
      /\ m_rIndex \in Slots /\ next(m_rIndex) \in Slots
    BY NextPrev DEF TypeOK, BlockOK, CountOK, IndexOK
<1>2. CASE UNCHANGED block
    BY <1>2
<1>3. CASE TickStart
    <2>1. Fetched(block[m_rIndex], continuous_mode).move
            = block[m_rIndex].move
        BY <1>1, FetchedBlock
    <2> QED
        BY <1>1, <1>3, <2>1 DEF TickStart
<1>4. CASE TickStep
    BY <1>1, <1>4 DEF TickStep, Blocks
<1>5. CASE TickEnd
    <2> DEFINE r == FinishedTail
               m == FinishedMode
    <2>1. PICK pulse \in {0, 1} :
            LET done == [block EXCEPT ![m_rIndex] = Ended(@, pulse)]
            IN  block' = IF CanGive(r, m)
                           THEN [done EXCEPT ![r] = Fetched(@, m)]
                           ELSE done
        BY <1>5 DEF TickEnd, ExecutesTail
    <2> DEFINE done == [block EXCEPT ![m_rIndex] = Ended(@, pulse)]
    <2>2. /\ Ended(block[m_rIndex], pulse) \in Blocks
          /\ Ended(block[m_rIndex], pulse).move = block[m_rIndex].move
        BY <1>1, EndedBlock
    <2>3. done \in [Slots -> Blocks] /\ done[s].move = block[s].move
        BY <1>1, <2>2
    <2>4. r \in Slots /\ m \in 0 .. 2
        BY <1>1 DEF FinishedTail, FinishedMode
    <2>5. block' = IF CanGive(r, m) THEN [done EXCEPT ![r] = Fetched(done[r], m)]
                                    ELSE done
        BY <2>1
    <2>6. Fetched(done[r], m).move = done[r].move
        BY <1>1, <2>3, <2>4, FetchedBlock
    <2> HIDE DEF r, m, done
    <2> QED
        BY <2>3, <2>4, <2>5, <2>6
<1>6. CASE CmdClear \/ CmdPublish \/ CmdStalled
    BY <1>1, <1>6 DEF CmdClear, CmdPublish, CmdStalled
<1>7. CASE CmdForward
    BY <1>1, <1>7 DEF CmdForward, Blocks
<1>8. CASE CmdLock \/ CmdUnlock
    BY <1>1, <1>8 DEF CmdLock, CmdUnlock, Blocks
<1>9. CASE CmdPrepare
    BY <1>1, <1>9 DEF CmdPrepare, Blocks
<1>10. CASE CmdQueueHead
    BY <1>1, <1>10 DEF CmdQueueHead, Blocks
<1> QED
    BY <1>2, <1>3, <1>4, <1>5, <1>6, <1>7, <1>8, <1>9, <1>10
    DEF Next, CmdLoop, HaltBegin, StepTick, TickIdle, TickHalted, CmdRequest,
        CmdMove, CmdFlush, CmdWait, CmdStep, CmdNone, CmdWaitEmpty,
        CmdWaitMotors, CmdCheck, CmdRecalculate, CmdReverse, CmdTrapezoid,
        CmdJogMode, CmdJogStart, CmdJogRun, CmdJogStop, CmdJogFree, HaltStep,
        HaltConveyor, HaltRobot, HaltPosition, vars, ringVars

\* The queue grows by queue_head only, and otherwise keeps its blocks or loses
\* some.
LEMMA QueueChange ==
    ASSUME IInv, [Next]_vars
    PROVE  \/ /\ m_wIndex' = m_wIndex
              /\ Queued(m_rIndex', m_wIndex) \subseteq Queued(m_rIndex, m_wIndex)
           \/ /\ CmdQueueHead /\ ~full(m_rIndex, m_wIndex)
              /\ m_wIndex' = next(m_wIndex) /\ m_rIndex' = m_rIndex
              /\ Queued(m_rIndex, m_wIndex')
                    = Queued(m_rIndex, m_wIndex) \cup {m_wIndex}
<1> USE DEF IInv
<1>1. m_rIndex \in Slots /\ m_wIndex \in Slots
    BY DEF TypeOK, IndexOK
<1>2. CASE CmdQueueHead /\ ~full(m_rIndex, m_wIndex)
    BY <1>1, <1>2, QueuedAfterCommit DEF CmdQueueHead
<1>3. CASE TickIdle
    BY <1>1, <1>3, HeadAndTail DEF TickIdle, FlushedTail
<1>4. CASE TickEnd
    <2>1. FinishedTail = m_rIndex \/ FinishedTail = next(m_rIndex)
        BY DEF FinishedTail
    <2>2. ~empty(m_rIndex, m_wIndex)
        BY <1>4 DEF TickEnd, ExecutesTail
    <2>3. m_wIndex' = m_wIndex /\ m_rIndex' \in {FinishedTail, m_wIndex}
        BY <1>4 DEF TickEnd, FlushedTail
    <2> QED
        BY <1>1, <2>1, <2>2, <2>3, QueuedAfterRelease, HeadAndTail
<1>5. CASE UNCHANGED <<m_rIndex, m_wIndex>>
    BY <1>5
<1> QED
    BY <1>2, <1>3, <1>4, <1>5
    DEF Next, CmdLoop, HaltBegin, StepTick, TickStart, TickHalted, TickStep,
        CmdRequest, CmdMove, CmdFlush, CmdWait, CmdStep, CmdNone,
        CmdWaitEmpty, CmdWaitMotors, CmdCheck, CmdClear, CmdRecalculate,
        CmdReverse, CmdForward, CmdTrapezoid, CmdLock, CmdPrepare, CmdUnlock,
        CmdPublish, CmdQueueHead, CmdStalled, CmdJogMode, CmdJogStart,
        CmdJogRun, CmdJogStop, CmdJogFree, HaltStep, HaltConveyor, HaltRobot,
        HaltPosition, vars, ringVars

\* Every step keeps the moves on the queue numbered below the one being built.
LEMMA OrderStep ==
    ASSUME IInv, [Next]_vars
    PROVE  OrderInv'
<1> USE DEF IInv
<1> DEFINE Q == Queued(m_rIndex, m_wIndex)
<1>1. /\ m_rIndex \in Slots /\ m_wIndex \in Slots /\ moves \in Nat
      /\ Q \subseteq Slots /\ m_wIndex \notin Q
    BY HeadAndTail DEF TypeOK, IndexOK, CountOK
<1>2. \A s \in Q : /\ block'[s].move = block[s].move
                    /\ block[s].move \in 1 .. moves
    BY <1>1, MovesKept DEF OrderInv
<1>3. CASE CmdClear
    <2>1. /\ UNCHANGED <<m_rIndex, m_wIndex>>
          /\ \/ pc' \notin Building /\ moves' = moves
             \/ moves' = moves + 1 /\ block'[m_wIndex].move = moves'
        BY <1>1, <1>3
        DEF CmdClear, NewBlock, ClearBlock, MoveReturns, Building, TypeOK,
            BlockOK
    <2> QED
        BY <1>1, <1>2, <2>1 DEF OrderInv
<1>4. CASE ~CmdClear
    <2>1. moves' = moves
        BY <1>4
        DEF Next, CmdLoop, HaltBegin, StepTick, TickIdle, TickStart,
            TickHalted, TickStep, TickEnd, CmdRequest, CmdMove, CmdFlush,
            CmdWait, CmdStep, CmdNone, CmdWaitEmpty, CmdWaitMotors, CmdCheck,
            CmdRecalculate, CmdReverse, CmdForward, CmdTrapezoid, CmdLock,
            CmdPrepare, CmdUnlock, CmdPublish, CmdQueueHead, CmdStalled,
            CmdJogMode, CmdJogStart, CmdJogRun, CmdJogStop, CmdJogFree,
            HaltStep, HaltConveyor, HaltRobot, HaltPosition, vars, cmdVars
    <2>2. pc' \in Building
            => /\ pc \in Building /\ m_wIndex' = m_wIndex
               /\ CmdPublish \/ CmdStalled => block'[m_wIndex].move
                                              = block[m_wIndex].move
        <3>1. CASE CmdPublish \/ CmdStalled
            BY <1>1, <3>1 DEF CmdPublish, CmdStalled, MoveReturns, At, Building,
                              TypeOK, BlockOK, Blocks
        <3>2. CASE CmdQueueHead
            BY <3>2 DEF CmdQueueHead, MoveReturns, At, Building
        <3> QED
            BY <1>4, <3>1, <3>2
            DEF Next, CmdLoop, HaltBegin, StepTick, TickIdle, TickStart,
                TickHalted, TickStep, TickEnd, CmdRequest, CmdMove, CmdFlush,
                CmdWait, CmdStep, CmdNone, CmdWaitEmpty, CmdWaitMotors,
                CmdCheck, CmdRecalculate, CmdReverse, CmdForward,
                CmdTrapezoid, AfterTrapezoid, CmdLock, CmdPrepare, CmdUnlock,
                CmdJogMode, CmdJogStart, CmdJogRun, CmdJogStop, CmdJogFree,
                HaltStep, HaltConveyor, HaltRobot, HaltPosition, MoveReturns,
                At, vars, cmdVars, ringVars, Building
    <2>3. pc' \in Building => block'[m_wIndex].move = block[m_wIndex].move
        BY <1>1, <1>4, <2>2, MovesKept
    <2>4. CASE m_wIndex' = m_wIndex /\ Queued(m_rIndex', m_wIndex) \subseteq Q
        BY <1>2, <2>1, <2>2, <2>3, <2>4 DEF OrderInv
    <2>5. CASE /\ CmdQueueHead /\ m_rIndex' = m_rIndex
               /\ m_wIndex' = next(m_wIndex)
               /\ Queued(m_rIndex, m_wIndex') = Q \cup {m_wIndex}
        <3>1. block'[m_wIndex].move = block[m_wIndex].move
            BY <1>1, <2>5, MovesKept
            DEF CmdQueueHead, CmdClear, CmdPublish, CmdStalled, At
        <3>2. pc = "queue_head" /\ m_wIndex' # m_wIndex
            BY <1>1, <2>5, NextPrev DEF CmdQueueHead, At
        <3>3. block[m_wIndex].move \in 1 .. moves
            BY <1>1, <3>2 DEF OrderInv, Building
        <3> QED
            BY <1>2, <2>1, <2>2, <2>5, <3>1, <3>2, <3>3 DEF OrderInv
    <2> QED
        BY <2>4, <2>5, QueueChange
<1> QED
    BY <1>3, <1>4

\* Every step keeps the moves planned and still to be planned within the bound.
LEMMA BoundStep ==
    ASSUME IInv, [Next]_vars
    PROVE  BoundInv'
<1> USE DEF IInv
<1>1. todo \in 0 .. 2 /\ moves \in Nat /\ MaxMoves \in Nat
    BY MotionAssumption DEF TypeOK, CountOK
<1>2. CASE CmdMove \/ \E op \in {"wait", "jog"} : CmdWait(op)
    BY <1>1, <1>2 DEF CmdMove, CmdWait, BoundInv, Building
<1>3. CASE CmdWaitEmpty \/ CmdWaitMotors
    <2>1. /\ UNCHANGED <<moves, caller>>
          /\ pc \in {"wait_empty", "wait_motors"}
          /\ \/ pc' \in {"wait_empty", "wait_motors", "loop"}
             \/ caller = "jog" /\ pc' = "check" /\ todo' = 2
        BY <1>3 DEF CmdWaitEmpty, CmdWaitMotors, At
    <2> QED
        BY <1>1, <2>1 DEF BoundInv, Building
<1>4. CASE CmdCheck \/ CmdPublish \/ CmdQueueHead \/ CmdStalled
    <2>1. /\ UNCHANGED <<moves, caller>>
          /\ \/ MoveReturns
             \/ pc = "check" /\ pc' = "clear" /\ UNCHANGED todo
             \/ pc \in Building /\ pc' \in Building /\ UNCHANGED todo
          /\ pc \in {"check"} \cup Building
        BY <1>4 DEF CmdCheck, CmdPublish, CmdQueueHead, CmdStalled, At,
                    Building
    <2>2. CASE MoveReturns
        BY <1>1, <2>1, <2>2 DEF MoveReturns, BoundInv, Building
    <2>3. CASE ~MoveReturns
        BY <1>1, <2>1, <2>3 DEF BoundInv, Building
    <2> QED
        BY <2>2, <2>3
<1>5. CASE CmdClear
    <2>1. /\ UNCHANGED caller /\ pc = "clear"
          /\ \/ MoveReturns /\ UNCHANGED moves
             \/ pc' = "recalculate" /\ moves' = moves + 1 /\ UNCHANGED todo
        BY <1>5 DEF CmdClear, At
    <2>2. CASE MoveReturns /\ UNCHANGED moves
        BY <1>1, <2>1, <2>2 DEF MoveReturns, BoundInv, Building
    <2>3. CASE pc' = "recalculate" /\ moves' = moves + 1 /\ UNCHANGED todo
        BY <1>1, <2>1, <2>3 DEF BoundInv, Building
    <2> QED
        BY <2>1, <2>2, <2>3
<1>6. CASE \/ CmdRecalculate \/ CmdReverse \/ CmdForward \/ CmdTrapezoid
           \/ CmdLock \/ CmdPrepare \/ CmdUnlock
    <2>1. /\ UNCHANGED <<moves, caller, todo>>
          /\ pc \in Building /\ pc' \in Building
        BY <1>6
        DEF CmdRecalculate, CmdReverse, CmdForward, CmdTrapezoid, CmdLock,
            CmdPrepare, CmdUnlock, AfterTrapezoid, At, Building
    <2> QED
        BY <2>1 DEF BoundInv, Building
<1>7. CASE \/ CmdFlush \/ CmdNone \/ CmdJogMode \/ CmdJogStart \/ CmdJogRun
           \/ CmdJogStop \/ CmdJogFree
           \/ \E timeout \in BOOLEAN : CmdLoop(timeout)
    <2>1. /\ UNCHANGED moves
          /\ pc' \notin {"check", "clear"} \cup Building
          /\ pc' = "wait_empty" => caller' # "jog"
          /\ pc' # "wait_motors"
        BY <1>7
        DEF CmdFlush, CmdNone, CmdJogMode, CmdJogStart, CmdJogRun, CmdJogStop,
            CmdJogFree, CmdLoop, Building
    <2> QED
        BY <2>1 DEF BoundInv
<1>8. CASE StepTick \/ HaltStep \/ UNCHANGED vars
             \/ \E who \in Halters, flg \in BOOLEAN : HaltBegin(who, flg)
    <2>1. UNCHANGED cmdVars
        BY <1>8
        DEF HaltBegin, StepTick, TickIdle, TickStart, TickHalted, TickStep,
            TickEnd, HaltStep, HaltConveyor, HaltRobot, HaltPosition, vars
    <2> QED
        BY <2>1 DEF BoundInv, cmdVars
<1> QED
    BY <1>2, <1>3, <1>4, <1>5, <1>6, <1>7, <1>8 DEF Next, CmdStep, CmdRequest

-----------------------------------------------------------------------------
\* The initial state: an empty ring, nothing running, no halt.
LEMMA InitInv == Init => IInv
<1> SUFFICES ASSUME Init PROVE IInv
    OBVIOUS
<1> USE DEF Init
<1>1. 0 \in Slots /\ ClearBlock \in Blocks
    BY SizeAssumption, ClearedBlock DEF Slots
<1>2. Queued(m_rIndex, m_wIndex) = {}
    BY <1>1, HeadAndTail
<1>3. IndexOK /\ BlockOK
    BY <1>1 DEF IndexOK, BlockOK, NoBlock
<1>4. FlagOK
    BY DEF FlagOK
<1>5. CountOK
    BY DEF CountOK
<1>6. PlaceOK
    BY DEF PlaceOK, Labels, Callers, NoHalter, AllHalters
<1>7. HeadInv /\ HoldInv /\ HaltInv /\ JogInv /\ MovingInv
    BY DEF HeadInv, Building, HoldInv, HaltInv, NoHalter, JogInv, MovingInv
<1>8. JogQueueInv /\ OrderInv /\ BoundInv
    BY <1>2, MotionAssumption
    DEF JogQueueInv, OrderInv, BoundInv, Appending, Building
<1> QED
    BY <1>2, <1>3, <1>4, <1>5, <1>6, <1>7, <1>8
    DEF IInv, TypeOK, ExecutesTail, NoEmptyBlock, EraInv

\* The invariant is inductive.
LEMMA StepInv == IInv /\ [Next]_vars => IInv'
BY IndexStep, FlagStep, CountStep, PlaceStep, BlockStep, QueueStep, HeadStep,
   HoldStep, HaltFlagsStep, JogStep, MovingStep, JogQueueStep, OrderStep,
   BoundStep
DEF IInv, TypeOK

\* The inductive invariant holds in every reachable state.
THEOREM Invariance == Spec => []IInv
BY InitInv, StepInv, PTL DEF Spec

\* Every variable keeps its type.
THEOREM TypeCorrect == Spec => []TypeOK
BY Invariance, PTL DEF IInv

\* The interrupt only ever executes the tail of the queue, a block that was
\* handed over complete (Conveyor::get_next_block, PlannerQueue::get_tail).
THEOREM AlwaysExecutesTail == Spec => []ExecutesTail
BY Invariance, PTL DEF IInv

\* No block without steps is ever on the queue, so start_next_block's "should
\* never happen" branch never does, in continuous mode either.
THEOREM NeverEmptyBlock == Spec => []NoEmptyBlock
BY Invariance, PTL DEF IInv

\* The interrupt never restores freed tick info (Conveyor::get_next_block).
THEOREM AlwaysSaved == Spec => []SavedWhileContinuous
<1>1. IInv => SavedWhileContinuous
    BY DEF IInv, JogInv, SavedWhileContinuous
<1> QED
    BY <1>1, Invariance, PTL

\* No motor is left marked as moving with nothing to run it, so wait_for_idle
\* does not hang on one (Robot::on_halt, StepTicker::step_tick).
THEOREM NoMotorLeft == Spec => []NoMotorLeftMoving
<1>1. IInv => NoMotorLeftMoving
    BY DEF IInv, MovingInv, NoMotorLeftMoving
<1> QED
    BY <1>1, Invariance, PTL

\* A jog that repeats its middle block always has the deceleration block, and
\* nothing else, waiting behind it (set_continuous_mode, block_finished).
THEOREM AlwaysDecelerates == Spec => []JogKeepsDeceleration
<1>1. IInv => JogKeepsDeceleration
    BY DEF IInv, JogQueueInv, JogKeepsDeceleration
<1> QED
    BY <1>1, Invariance, PTL

\* A block queued before a halt never moves the machine after the release.
THEOREM HaltsDropMoves == Spec => HaltDropsMoves
<1>1. IInv /\ [Next]_vars
        => [step_position' # step_position
              => block[current_block].era = halts]_vars
    <2> SUFFICES ASSUME IInv, [Next]_vars, step_position' # step_position
                 PROVE  block[current_block].era = halts
        OBVIOUS
    <2>1. running /\ ~module_halted
        BY DEF Next, CmdLoop, HaltBegin, StepTick, TickIdle, TickStart,
               TickHalted, TickStep, TickEnd, CmdRequest, CmdMove, CmdFlush,
               CmdWait, CmdStep, CmdNone, CmdWaitEmpty, CmdWaitMotors,
               CmdCheck, CmdClear, CmdRecalculate, CmdReverse, CmdForward,
               CmdTrapezoid, CmdLock, CmdPrepare, CmdUnlock, CmdPublish,
               CmdQueueHead, CmdStalled, CmdJogMode, CmdJogStart, CmdJogRun,
               CmdJogStop, CmdJogFree, At, CheckQueue, MoveReturns,
               AfterTrapezoid, HaltStep, HaltConveyor, HaltRobot, HaltPosition,
               vars, ringVars, flagVars, haltVars, tickVars, motorVars, cmdVars
    <2>2. current_block \in Queued(m_rIndex, m_wIndex)
        BY <2>1, HeadAndTail DEF IInv, ExecutesTail, TypeOK, IndexOK
    <2> QED
        BY <2>1, <2>2 DEF IInv, EraInv
<1> QED
    BY <1>1, Invariance, PTL DEF Spec, HaltDropsMoves

-----------------------------------------------------------------------------
(***************************************************************************)
(* The ring implements the queue of moves.                                 *)
(***************************************************************************)
\* The moves of a queue are a sequence as long as the queue.
LEMMA MovesSeq ==
    ASSUME NEW r \in Slots, NEW w \in Slots, NEW b \in [Slots -> Blocks]
    PROVE  /\ MovesFrom(r, w, b) \in Seq(Nat)
           /\ Len(MovesFrom(r, w, b)) = Depth(r, w)
           /\ \A i \in 1 .. Depth(r, w) :
                 MovesFrom(r, w, b)[i] = b[SlotAt(r, i - 1)].move
<1> DEFINE n == Depth(r, w)
<1>1. n \in Nat
    BY DepthValue
<1>2. \A i \in 1 .. n : b[SlotAt(r, i - 1)].move \in Nat
    BY SlotAtDepth, HeadAndTail DEF Blocks
<1>3. /\ MovesFrom(r, w, b) \in [1 .. n -> Nat]
      /\ \A i \in 1 .. n : MovesFrom(r, w, b)[i] = b[SlotAt(r, i - 1)].move
    BY <1>2 DEF MovesFrom
<1> HIDE DEF n
<1> QED
    BY <1>1, <1>3 DEF n

\* Its first element is the move of the tail.
LEMMA FirstMove ==
    ASSUME NEW r \in Slots, NEW w \in Slots, NEW b \in [Slots -> Blocks]
    PROVE  /\ empty(r, w) <=> MovesFrom(r, w, b) = <<>>
           /\ ~empty(r, w) => Head(MovesFrom(r, w, b)) = b[r].move
<1> DEFINE n == Depth(r, w)
           q == MovesFrom(r, w, b)
<1>1. SlotAt(r, 1 - 1) = r
    BY SizeAssumption DEF Slots, SlotAt
<1>2. n \in Nat /\ (n = 0 <=> empty(r, w))
    BY DepthValue
<1>3. /\ q \in Seq(Nat) /\ Len(q) = n
      /\ \A i \in 1 .. n : q[i] = b[SlotAt(r, i - 1)].move
    BY MovesSeq
<1> HIDE DEF n, q
<1>4. n = 0 <=> q = <<>>
    BY <1>2, <1>3
<1>5. n # 0 => Head(q) = b[r].move
    BY <1>1, <1>2, <1>3
<1> QED
    BY <1>2, <1>4, <1>5 DEF q

\* Releasing the tail takes its move off the front.
LEMMA MovesAfterRelease ==
    ASSUME NEW r \in Slots, NEW w \in Slots, ~empty(r, w),
           NEW b \in [Slots -> Blocks], NEW c \in [Slots -> Blocks],
           \A s \in Queued(r, w) : c[s].move = b[s].move
    PROVE  MovesFrom(next(r), w, c) = Tail(MovesFrom(r, w, b))
<1> DEFINE n == Depth(r, w)
           q == MovesFrom(r, w, b)
           p == MovesFrom(next(r), w, c)
<1>1. /\ n \in Nat \ {0} /\ n < m_size /\ next(r) \in Slots
      /\ Depth(next(r), w) = n - 1
    BY DepthValue, DepthAfterRelease, NextPrev
<1>2. /\ q \in Seq(Nat) /\ Len(q) = n
      /\ \A i \in 1 .. n : q[i] = b[SlotAt(r, i - 1)].move
    BY MovesSeq
<1>3. /\ p \in Seq(Nat) /\ Len(p) = n - 1
      /\ \A i \in 1 .. n - 1 : p[i] = c[SlotAt(next(r), i - 1)].move
    <2>1. /\ p \in Seq(Nat) /\ Len(p) = Depth(next(r), w)
          /\ \A i \in 1 .. Depth(next(r), w) :
                p[i] = c[SlotAt(next(r), i - 1)].move
        BY <1>1, MovesSeq
    <2> HIDE DEF n, p
    <2> QED
        BY <1>1, <2>1
<1>4. ASSUME NEW i \in 1 .. n - 1
      PROVE  p[i] = q[i + 1]
    <2>1. i \in 1 .. m_size - 1 /\ i + 1 \in 1 .. n
        BY <1>1, SizeAssumption
    <2>2. SlotAt(next(r), i - 1) = SlotAt(r, (i + 1) - 1)
        BY <2>1, SlotAfterRelease
    <2>3. SlotAt(r, (i + 1) - 1) \in Queued(r, w)
        BY <2>1, SlotAtDepth
    <2> QED
        BY <1>2, <1>3, <2>1, <2>2, <2>3
<1> HIDE DEF n, p, q
<1>5. q # <<>>
    BY <1>1, <1>2
<1>6. /\ Tail(q) \in Seq(Nat) /\ Len(Tail(q)) = n - 1
      /\ \A i \in 1 .. n - 1 : Tail(q)[i] = q[i + 1]
    BY <1>2, <1>5, HeadTailProperties
<1>7. \A i \in 1 .. Len(p) : p[i] = Tail(q)[i]
    BY <1>3, <1>4, <1>6
<1>8. p = Tail(q)
    BY <1>3, <1>6, <1>7, SeqEqual
<1> QED
    BY <1>8 DEF p, q

\* Committing the head appends its move.
LEMMA MovesAfterCommit ==
    ASSUME NEW r \in Slots, NEW w \in Slots, ~full(r, w),
           NEW b \in [Slots -> Blocks], NEW c \in [Slots -> Blocks],
           \A s \in Slots : c[s].move = b[s].move
    PROVE  MovesFrom(r, next(w), c) = Append(MovesFrom(r, w, b), b[w].move)
<1> DEFINE n == Depth(r, w)
           v == b[w].move
           q == MovesFrom(r, w, b)
           p == MovesFrom(r, next(w), c)
<1>1. n \in Nat /\ next(w) \in Slots /\ Depth(r, next(w)) = n + 1
    BY DepthValue, DepthAfterCommit, NextPrev
<1>2. /\ q \in Seq(Nat) /\ Len(q) = n
      /\ \A i \in 1 .. n : q[i] = b[SlotAt(r, i - 1)].move
    BY MovesSeq
<1>3. /\ p \in Seq(Nat) /\ Len(p) = n + 1
      /\ \A i \in 1 .. n + 1 : p[i] = c[SlotAt(r, i - 1)].move
    BY <1>1, MovesSeq
<1>4. ASSUME NEW i \in 1 .. n
      PROVE  p[i] = q[i]
    <2>1. SlotAt(r, i - 1) \in Slots /\ i \in 1 .. n + 1
        BY <1>1, SlotAtDepth, HeadAndTail
    <2> QED
        BY <1>2, <1>3, <2>1
<1>5. p[n + 1] = v
    BY <1>1, <1>3, SlotOfHead
<1>6. v \in Nat
    BY DEF Blocks
<1> HIDE DEF n, v, p, q
<1>7. /\ Append(q, v) \in Seq(Nat) /\ Len(Append(q, v)) = n + 1
      /\ \A i \in 1 .. n : Append(q, v)[i] = q[i]
      /\ Append(q, v)[n + 1] = v
    BY <1>1, <1>2, <1>6
<1>8. \A i \in 1 .. Len(p) : p[i] = Append(q, v)[i]
    BY <1>1, <1>3, <1>4, <1>5, <1>7
<1>9. p = Append(q, v)
    BY <1>3, <1>7, <1>8, SeqEqual
<1> QED
    BY <1>9 DEF p, q, v

\* The moves are those of the blocks on the queue and no others.
LEMMA MovesUnchanged ==
    ASSUME NEW r \in Slots, NEW w \in Slots,
           NEW b \in [Slots -> Blocks], NEW c \in [Slots -> Blocks],
           \A s \in Queued(r, w) : c[s].move = b[s].move
    PROVE  MovesFrom(r, w, c) = MovesFrom(r, w, b)
BY SlotAtDepth DEF MovesFrom

\* An empty queue has no moves.
LEMMA NoMoves ==
    ASSUME NEW w \in Slots, NEW b
    PROVE  MovesFrom(w, w, b) = <<>>
<1>1. Depth(w, w) = 0
    BY SizeAssumption DEF Slots, Depth
<1> QED
    BY <1>1 DEF MovesFrom

\* The refinement mapping takes the initial state to the initial state.
LEMMA FifoInit == Init => Fifo!Init
BY SizeAssumption, NoMoves DEF Init, Fifo!Init, QueuedMoves, Slots

\* The move being executed is that of the tail; none has the number 0.
LEMMA ActiveMove ==
    ASSUME IInv
    PROVE  LET active == IF running THEN block[current_block].move ELSE 0
           IN  /\ active # 0 <=> running
               /\ running => /\ ~empty(m_rIndex, m_wIndex)
                             /\ active = block[m_rIndex].move
<1>1. m_rIndex \in Slots /\ m_wIndex \in Slots /\ moves \in Nat
    BY DEF IInv, TypeOK, IndexOK, CountOK
<1>2. running => /\ current_block = m_rIndex /\ ~empty(m_rIndex, m_wIndex)
                 /\ m_rIndex \in Queued(m_rIndex, m_wIndex)
    BY <1>1, HeadAndTail DEF IInv, ExecutesTail
<1>3. running => block[m_rIndex].move \in 1 .. moves
    BY <1>2 DEF IInv, OrderInv
<1> QED
    BY <1>1, <1>2, <1>3

\* Every step of the pipeline is a step of the queue of moves, or a stutter.
LEMMA FifoStep ==
    ASSUME IInv, IInv', [Next]_vars
    PROVE  [Fifo!Next]_Fifo!fifoVars
<1> DEFINE active == IF running THEN block[current_block].move ELSE 0
           Q == Queued(m_rIndex, m_wIndex)
<1>1. /\ m_rIndex \in Slots /\ m_wIndex \in Slots
      /\ block \in [Slots -> Blocks] /\ block' \in [Slots -> Blocks]
    BY DEF IInv, TypeOK, IndexOK, BlockOK
<1>2. Q \subseteq Slots /\ \A s \in Q : block'[s].move = block[s].move
    BY <1>1, MovesKept, HeadAndTail
<1>3. /\ active # 0 <=> running
      /\ running => /\ ~empty(m_rIndex, m_wIndex)
                    /\ active = block[m_rIndex].move
    BY ActiveMove
<1>4. running' => /\ ~empty(m_rIndex, m_wIndex)'
                  /\ active' = block'[m_rIndex'].move
    BY DEF IInv, ExecutesTail
<1>5. ~running' => active' = 0
    OBVIOUS
<1>6. CASE UNCHANGED <<m_rIndex, m_wIndex, running, current_block>>
    <2>1. QueuedMoves' = QueuedMoves
        BY <1>1, <1>2, <1>6, MovesUnchanged DEF QueuedMoves
    <2>2. active' = active
        BY <1>1, <1>2, <1>3, <1>4, <1>5, <1>6, HeadAndTail DEF empty
    <2> QED
        BY <2>1, <2>2 DEF Fifo!fifoVars
<1>7. CASE TickIdle
    <2>1. /\ active' = 0 /\ active = 0 /\ m_wIndex' = m_wIndex
          /\ m_rIndex' = m_rIndex \/ m_rIndex' = m_wIndex
        BY <1>7 DEF TickIdle, tickVars, FlushedTail
    <2>2. CASE m_rIndex' = m_rIndex
        <3>1. QueuedMoves' = QueuedMoves
            BY <1>1, <1>2, <2>1, <2>2, MovesUnchanged DEF QueuedMoves
        <3> QED
            BY <2>1, <3>1 DEF Fifo!fifoVars
    <2>3. CASE m_rIndex' = m_wIndex
        <3>1. QueuedMoves' = <<>>
            BY <1>1, <2>1, <2>3, NoMoves DEF QueuedMoves
        <3> QED
            BY <2>1, <3>1 DEF Fifo!Next, Fifo!Clear
    <2> QED
        BY <2>1, <2>2, <2>3
<1>8. CASE TickStart
    <2>1. /\ ~running /\ ~empty(m_rIndex, m_wIndex)
          /\ UNCHANGED <<m_rIndex, m_wIndex>>
        BY <1>8 DEF TickStart, CanGive
    <2>2. QueuedMoves' = QueuedMoves
        BY <1>1, <1>2, <2>1, MovesUnchanged DEF QueuedMoves
    <2>3. QueuedMoves # <<>> /\ Head(QueuedMoves) = block[m_rIndex].move
        BY <1>1, <2>1, FirstMove DEF QueuedMoves
    <2>4. active' = 0 \/ active' = Head(QueuedMoves)
        BY <1>1, <1>2, <1>4, <1>5, <2>1, <2>3, HeadAndTail
    <2>5. active = 0
        BY <2>1
    <2> HIDE DEF active
    <2>6. CASE active' = 0
        BY <2>2, <2>5, <2>6 DEF Fifo!fifoVars, active
    <2>7. CASE active' = Head(QueuedMoves)
        BY <2>2, <2>3, <2>5, <2>7 DEF Fifo!Next, Fifo!Start, active
    <2> QED
        BY <2>4, <2>6, <2>7
<1>9. CASE TickHalted
    <2>1. running /\ ~running' /\ UNCHANGED <<m_rIndex, m_wIndex>>
        BY <1>9 DEF TickHalted, ringVars
    <2>2. QueuedMoves' = QueuedMoves
        BY <1>1, <1>2, <2>1, MovesUnchanged DEF QueuedMoves
    <2> QED
        BY <1>3, <1>5, <2>1, <2>2 DEF Fifo!Next, Fifo!Stop
<1>10. CASE CmdQueueHead /\ ~full(m_rIndex, m_wIndex)
    <2>1. /\ pc = "queue_head" /\ m_rIndex' = m_rIndex
          /\ m_wIndex' = next(m_wIndex)
          /\ UNCHANGED <<running, current_block>>
        BY <1>10 DEF CmdQueueHead, At, tickVars
    <2>2. \A s \in Slots : block'[s].move = block[s].move
        BY <2>1, MovesKept DEF CmdClear, CmdPublish, CmdStalled, At
    <2> DEFINE v == block[m_wIndex].move
    <2>3. QueuedMoves' = Append(QueuedMoves, v)
        BY <1>1, <1>10, <2>1, <2>2, MovesAfterCommit DEF QueuedMoves
    <2>4. /\ v = moves /\ moves \in 1 .. MaxMoves
          /\ \A s \in Q : block[s].move < v
        BY <2>1, MotionAssumption
        DEF IInv, OrderInv, BoundInv, Building, TypeOK, CountOK
    <2>5. \A i \in 1 .. Len(QueuedMoves) : QueuedMoves[i] < v
        BY <1>1, <2>4, MovesSeq, SlotAtDepth DEF QueuedMoves
    <2>6. active' = active
        BY <1>1, <1>3, <1>4, <1>5, <2>1, <2>2
    <2> HIDE DEF active, v
    <2>7. Fifo!Commit(v)
        BY <2>3, <2>5, <2>6 DEF Fifo!Commit, active
    <2> QED
        BY <2>4, <2>7 DEF Fifo!Next
<1>11. CASE TickEnd
    <2>1. /\ running /\ m_wIndex' = m_wIndex
          /\ IF running'
               THEN m_rIndex' = FinishedTail
               ELSE m_rIndex' = FinishedTail \/ m_rIndex' = m_wIndex
        BY <1>11 DEF TickEnd, FlushedTail
    <2>2. /\ QueuedMoves # <<>> /\ active # 0
          /\ active = Head(QueuedMoves)
        BY <1>1, <1>3, <2>1, FirstMove DEF QueuedMoves
    <2>3. CASE m_rIndex' = m_rIndex
        <3>1. QueuedMoves' = QueuedMoves
            BY <1>1, <1>2, <2>1, <2>3, MovesUnchanged DEF QueuedMoves
        <3>2. running' => active' = active
            BY <1>1, <1>2, <1>3, <1>4, <2>1, <2>3, HeadAndTail
        <3> QED
            BY <1>5, <2>2, <3>1, <3>2 DEF Fifo!Next, Fifo!Stop, Fifo!fifoVars
    <2>4. CASE m_rIndex' = next(m_rIndex)
        <3>1. QueuedMoves' = Tail(QueuedMoves)
            BY <1>1, <1>2, <1>3, <2>1, <2>4, MovesAfterRelease DEF QueuedMoves
        <3>2. running' => /\ QueuedMoves' # <<>>
                          /\ active' = Head(QueuedMoves')
            BY <1>1, <1>4, <2>1, <2>4, NextPrev, FirstMove DEF QueuedMoves
        <3>3. active' \in IF QueuedMoves' = <<>> THEN {0}
                                               ELSE {0, Head(QueuedMoves')}
            BY <1>5, <3>2
        <3> QED
            BY <2>2, <3>1, <3>3 DEF Fifo!Next, Fifo!Finish
    <2>5. CASE m_rIndex' = m_wIndex /\ ~running'
        <3>1. QueuedMoves' = <<>>
            BY <1>1, <2>1, <2>5, NoMoves DEF QueuedMoves
        <3> QED
            BY <1>5, <2>5, <3>1 DEF Fifo!Next, Fifo!Clear
    <2> QED
        BY <2>1, <2>3, <2>4, <2>5 DEF FinishedTail
<1>12. CASE CmdQueueHead /\ full(m_rIndex, m_wIndex)
    BY <1>6, <1>12 DEF CmdQueueHead, tickVars
<1> QED
    BY <1>6, <1>7, <1>8, <1>9, <1>10, <1>11, <1>12
    DEF Next, CmdLoop, HaltBegin, StepTick, TickStep, CmdRequest, CmdMove,
        CmdFlush, CmdWait, CmdStep, CmdNone, CmdWaitEmpty, CmdWaitMotors,
        CmdCheck, CmdClear, CmdRecalculate, CmdReverse, CmdForward,
        CmdTrapezoid, CmdLock, CmdPrepare, CmdUnlock, CmdPublish, CmdStalled,
        CmdJogMode, CmdJogStart, CmdJogRun, CmdJogStop, CmdJogFree, HaltStep,
        HaltConveyor, HaltRobot, HaltPosition, vars, ringVars, tickVars

\* The pipeline executes the moves in the order in which they were queued, each
\* one once: the ring, its indices and the block flags implement MotionFifo.
THEOREM QueueIsFifo == Spec => ImplementsFifo
BY Invariance, FifoInit, FifoStep, PTL DEF Spec, ImplementsFifo, Fifo!Spec

-----------------------------------------------------------------------------
(***************************************************************************)
(* No step is lost while moves stream.                                     *)
(***************************************************************************)
\* The terms of the sum.
Due(r, b) == [i \in 1 .. m_size - 1 |-> StepsDue(b[SlotAt(r, i - 1)])]

\* The recursive function StepsFrom sums the steps due, tail first.
LEMMA StepsAreSum ==
    ASSUME NEW r \in Slots, NEW b \in [Slots -> Blocks]
    PROVE  /\ Due(r, b) \in [1 .. m_size - 1 -> Int]
           /\ IsSum(StepsFrom(r, b), Due(r, b), m_size - 1)
<1> DEFINE t == Due(r, b)
           s == StepsFrom(r, b)
           n == m_size - 1
<1>1. n \in Nat /\ Slots = 0 .. n
    BY SizeAssumption DEF Slots
<1>2. t \in [1 .. n -> Int]
    BY SizeAssumption DEF Due, SlotAt, Slots, StepsDue, Blocks
<1>3. \A i \in 1 .. n : t[i] = StepsDue(b[SlotAt(r, i - 1)])
    BY DEF Due
<1> HIDE DEF t, n
<1>4. PICK f : IsSum(f, t, n)
    BY <1>1, <1>2, SumExists
<1>5. f = [i \in Slots |-> IF i = 0 THEN 0
                           ELSE f[i - 1] + StepsDue(b[SlotAt(r, i - 1)])]
    BY <1>1, <1>3, <1>4 DEF IsSum
<1>6. s = [i \in Slots |-> IF i = 0 THEN 0
                           ELSE s[i - 1] + StepsDue(b[SlotAt(r, i - 1)])]
    BY <1>5 DEF StepsFrom
<1> HIDE DEF s
<1>7. s[0] = 0 /\ \A i \in 1 .. n : s[i] = s[i - 1] + t[i]
    BY <1>1, <1>3, <1>6
<1> DEFINE S == {i \in 0 .. n : s[i] \in Int}
<1>8. 0 .. n \subseteq S
    <2>1. 0 \in S
        BY <1>1, <1>7
    <2>2. \A i \in 0 .. n - 1 : i \in S => i + 1 \in S
        BY <1>1, <1>2, <1>7
    <2> HIDE DEF S
    <2> QED
        BY <1>1, <2>1, <2>2, IntervalInduction
<1>9. s \in [0 .. n -> Int]
    BY <1>1, <1>6, <1>8
<1> QED
    BY <1>2, <1>7, <1>9 DEF IsSum, t, s, n

\* The steps due at a position of the queue.
LEMMA DueValue ==
    ASSUME NEW r \in Slots, NEW b \in [Slots -> Blocks],
           NEW i \in 1 .. m_size - 1
    PROVE  Due(r, b)[i] = StepsDue(b[SlotAt(r, i - 1)])
BY DEF Due

\* What is due for a queue is an integer.
LEMMA SumIsInt ==
    ASSUME NEW r \in Slots, NEW w \in Slots, NEW b \in [Slots -> Blocks]
    PROVE  StepsFrom(r, b)[Depth(r, w)] \in Int
<1>1. StepsFrom(r, b) \in [0 .. m_size - 1 -> Int]
    BY StepsAreSum DEF IsSum
<1> QED
    BY <1>1, DepthValue, SizeAssumption

\* When no block of the queue has fewer steps due, but d fewer at the tail,
\* neither has the queue.
LEMMA SumKept ==
    ASSUME NEW r \in Slots, NEW w \in Slots, NEW d \in Nat,
           NEW b \in [Slots -> Blocks], NEW c \in [Slots -> Blocks],
           \A s \in Queued(r, w) : 
              StepsDue(c[s]) + (IF s = r THEN d ELSE 0) >= StepsDue(b[s])
    PROVE  StepsFrom(r, c)[Depth(r, w)] + d >= StepsFrom(r, b)[Depth(r, w)]
<1> DEFINE n == m_size - 1
           k == Depth(r, w)
           f == StepsFrom(r, b)
           g == StepsFrom(r, c)
           t == Due(r, b)
           u == Due(r, c)
<1>1. /\ n \in Nat /\ k \in 0 .. n
    BY SizeAssumption, DepthValue
<1>2. /\ t \in [1 .. n -> Int] /\ u \in [1 .. n -> Int]
      /\ IsSum(f, t, n) /\ IsSum(g, u, n)
    BY StepsAreSum
<1>3. ASSUME NEW i \in 1 .. k
      PROVE  u[i] + (IF i = 1 THEN d ELSE 0) >= t[i]
    <2>1. i \in 1 .. n
        BY <1>1
    <2>2. /\ SlotAt(r, i - 1) \in Queued(r, w)
          /\ SlotAt(r, i - 1) = r <=> i = 1
        BY <2>1, SlotAtDepth, FirstSlot
    <2>3. /\ u[i] = StepsDue(c[SlotAt(r, i - 1)])
          /\ t[i] = StepsDue(b[SlotAt(r, i - 1)])
        BY <2>1, DueValue
    <2> QED
        BY <2>2, <2>3
<1> HIDE DEF n, k, f, g, t, u
<1>4. CASE k = 0
    BY <1>1, <1>2, <1>4 DEF IsSum, k, f, g
<1>5. CASE k # 0
    <2>1. k \in 1 .. n /\ 1 \in 1 .. k /\ 1 \in 1 .. n
        BY <1>1, <1>5
    <2>2. /\ f[1] = t[1] /\ g[1] = u[1] /\ t[1] \in Int /\ u[1] \in Int
        BY <1>2, <2>1 DEF IsSum
    <2>3. g[1] + d >= f[1 + 0]
        BY <1>3, <2>1, <2>2
    <2>4. \A i \in 1 + 1 .. k : u[i] >= t[i + 0]
        <3> TAKE i \in 1 + 1 .. k
        <3>1. i \in 1 .. k /\ i # 1 /\ i \in 1 .. n /\ i + 0 = i
            BY <1>1
        <3>2. u[i] \in Int /\ t[i] \in Int
            BY <1>2, <3>1
        <3> QED
            BY <1>3, <3>1, <3>2
    <2>5. KeepsUp(f, t, g, u, n, 1, k, 0, d)
        BY <1>1, <1>2, <2>1, <2>3, <2>4 DEF KeepsUp
    <2>6. g[k] + d >= f[k + 0]
        BY <2>5, SumsCompare
    <2> QED
        BY <1>1, <2>6 DEF k, f, g
<1> QED
    BY <1>4, <1>5

\* Releasing the tail takes away what was due there.
LEMMA SumAfterRelease ==
    ASSUME NEW r \in Slots, NEW w \in Slots, ~empty(r, w),
           NEW b \in [Slots -> Blocks], NEW c \in [Slots -> Blocks],
           \A s \in Queued(r, w) \ {r} : StepsDue(c[s]) >= StepsDue(b[s])
    PROVE  StepsFrom(next(r), c)[Depth(next(r), w)] + StepsDue(b[r])
             >= StepsFrom(r, b)[Depth(r, w)]
<1> DEFINE n == m_size - 1
           k == Depth(next(r), w)
           d == StepsDue(b[r])
           f == StepsFrom(r, b)
           g == StepsFrom(next(r), c)
           t == Due(r, b)
           u == Due(next(r), c)
<1>1. /\ n \in Nat /\ k \in 0 .. n /\ k + 1 = Depth(r, w) /\ k + 1 \in 1 .. n
      /\ next(r) \in Slots
    BY SizeAssumption, DepthValue, DepthAfterRelease, NextPrev
<1>2. /\ t \in [1 .. n -> Int] /\ u \in [1 .. n -> Int]
      /\ IsSum(f, t, n) /\ IsSum(g, u, n)
    BY <1>1, StepsAreSum
<1>3. ASSUME NEW i \in 1 .. k
      PROVE  u[i] >= t[i + 1]
    <2>1. i \in 1 .. n /\ i + 1 \in 1 .. n /\ i + 1 \in 1 .. Depth(r, w)
        BY <1>1
    <2>2. /\ SlotAt(r, (i + 1) - 1) \in Queued(r, w)
          /\ SlotAt(r, (i + 1) - 1) # r
        BY <2>1, SlotAtDepth, FirstSlot
    <2>3. SlotAt(next(r), i - 1) = SlotAt(r, (i + 1) - 1)
        BY <2>1, SlotAfterRelease
    <2>4. u[i] = StepsDue(c[SlotAt(next(r), i - 1)])
        BY <1>1, <2>1, DueValue
    <2>5. t[i + 1] = StepsDue(b[SlotAt(r, (i + 1) - 1)])
        BY <2>1, DueValue
    <2> QED
        BY <2>2, <2>3, <2>4, <2>5
<1>4. t[1] = d
    <2>1. SlotAt(r, 1 - 1) = r /\ 1 \in 1 .. n
        BY <1>1, SizeAssumption DEF Slots, SlotAt
    <2> QED
        BY <2>1, DueValue
<1> HIDE DEF n, k, d, f, g, t, u
<1>5. /\ f[0 + 1] = d /\ g[0] = 0 /\ d \in Int
    BY <1>1, <1>2, <1>4 DEF IsSum
<1>6. g[k] + d >= f[k + 1]
    <2>1. g[0] + d >= f[0 + 1]
        BY <1>5
    <2>2. \A i \in 0 + 1 .. k : u[i] >= t[i + 1]
        BY <1>3
    <2>3. KeepsUp(f, t, g, u, n, 0, k, 1, d)
        BY <1>1, <1>2, <1>5, <2>1, <2>2 DEF KeepsUp
    <2> QED
        BY <2>3, SumsCompare
<1> QED
    BY <1>1, <1>6 DEF k, d, f, g

\* Committing the head adds what is due there.
LEMMA SumAfterCommit ==
    ASSUME NEW r \in Slots, NEW w \in Slots, ~full(r, w),
           NEW b \in [Slots -> Blocks], NEW c \in [Slots -> Blocks],
           \A s \in Queued(r, w) : StepsDue(c[s]) >= StepsDue(b[s])
    PROVE  StepsFrom(r, c)[Depth(r, next(w))]
             >= StepsFrom(r, b)[Depth(r, w)] + StepsDue(c[w])
<1> DEFINE k == Depth(r, w)
           f == StepsFrom(r, b)
           g == StepsFrom(r, c)
           d == StepsDue(c[w])
<1>1. k \in Nat /\ k < m_size /\ Depth(r, next(w)) = k + 1 /\ k + 1 < m_size
    BY DepthValue, DepthAfterCommit, NextPrev
<1>2. g[k] >= f[k] /\ g[k] \in Int /\ f[k] \in Int
    <2>1. \A s \in Queued(r, w) : StepsDue(c[s]) \in Int
        BY HeadAndTail DEF StepsDue, Blocks
    <2>2. g[k] + 0 >= f[k]
        BY <2>1, SumKept
    <2>3. g \in [0 .. m_size - 1 -> Int] /\ f \in [0 .. m_size - 1 -> Int]
        BY StepsAreSum DEF IsSum
    <2>4. g[k] \in Int /\ f[k] \in Int
        BY <1>1, <2>3, SizeAssumption
    <2> HIDE DEF k, f, g
    <2> QED
        BY <2>2, <2>4
<1>3. g[k + 1] = g[k] + d /\ d \in Int
    <2>1. k + 1 \in 1 .. m_size - 1 /\ (k + 1) - 1 = k
        BY <1>1, SizeAssumption
    <2>2. g[k + 1] = g[(k + 1) - 1] + Due(r, c)[k + 1]
        BY <2>1, StepsAreSum DEF IsSum
    <2>3. Due(r, c)[k + 1] = d
        BY <2>1, DueValue, SlotOfHead
    <2>4. d \in Int
        BY DEF StepsDue, Blocks
    <2> QED
        BY <2>1, <2>2, <2>3, <2>4
<1> HIDE DEF k, f, g, d
<1>4. g[k + 1] >= f[k] + d
    BY <1>2, <1>3
<1> QED
    BY <1>1, <1>4 DEF k, f, g, d

\* Moves and waits only, and nobody halts.
Streaming == Halters = {} /\ Ops \subseteq {"move", "wait"}

\* Nothing disturbs the stream: no halt, no flush, no jog.
QuietInv ==
    /\ halter.pc = "none" /\ ~module_halted /\ ~robot_halted
    /\ ~flush /\ ~hold_queue
    /\ continuous_mode = 0 /\ caller \in {"main", "wait"}
    /\ pc \notin {"mode", "jog_start", "jog_run", "jogging", "jog_free"}
    /\ running => moving

\* The tick info never asks for more than the move's steps; at the head, from
\* prepare to the commit, for all of them.
DueInv ==
    /\ \A s \in Queued(m_rIndex, m_wIndex) :
          block[s].steps_to_move <= block[s].steps
    /\ pc \in {"publish", "queue_head", "stalled"}
          \/ (pc = "unlock" /\ previous = m_wIndex)
         => /\ block[m_wIndex].steps_to_move = block[m_wIndex].steps
            /\ block[m_wIndex].step_count = 0

\* Nothing starts a halt, a flush or a jog when only moves and waits are asked
\* for.
LEMMA QuietStep ==
    ASSUME IInv, Streaming, QuietInv, [Next]_vars
    PROVE  QuietInv'
<1> USE DEF QuietInv
<1>1. /\ flush \in BOOLEAN /\ hold_queue \in BOOLEAN
      /\ running \in BOOLEAN /\ moving \in BOOLEAN
      /\ flush' \in BOOLEAN /\ hold_queue' \in BOOLEAN
      /\ running' \in BOOLEAN /\ moving' \in BOOLEAN
    BY FlagStep DEF IInv, TypeOK, FlagOK
<1>2. CASE TickEnd
    <2>1. running' => moving'
        BY <1>2 DEF TickEnd
    <2>2. continuous_mode' = 0 /\ ~flush' /\ UNCHANGED hold_queue
        BY <1>1, <1>2 DEF TickEnd, FinishedMode
    <2> QED
        BY <1>1, <1>2, <2>1, <2>2 DEF TickEnd, haltVars, cmdVars
<1>3. CASE TickIdle \/ TickStart \/ TickHalted \/ TickStep
    <2>1. /\ ~flush'
          /\ UNCHANGED <<continuous_mode, hold_queue, haltVars, cmdVars>>
        BY <1>1, <1>3 DEF TickIdle, TickStart, TickHalted, TickStep, flagVars
    <2>2. running' => moving'
        BY <1>1, <1>3
        DEF TickIdle, TickStart, TickHalted, TickStep, tickVars, motorVars
    <2> QED
        BY <1>1, <2>1, <2>2 DEF haltVars, cmdVars
<1>4. CASE CmdRequest
    BY <1>4
    DEF Streaming, CmdRequest, CmdMove, CmdFlush, CmdWait, flagVars, haltVars,
        tickVars, motorVars
<1>5. CASE HaltStep \/ \E who \in Halters, flg \in BOOLEAN : HaltBegin(who, flg)
    BY <1>5 DEF Streaming, HaltStep, HaltConveyor, HaltRobot, HaltPosition
<1>6. CASE CmdStep \/ \E timeout \in BOOLEAN : CmdLoop(timeout)
    <2>1. /\ pc' \notin {"mode", "jog_start", "jog_run", "jogging", "jog_free"}
          /\ caller' = caller /\ continuous_mode' = continuous_mode
        BY <1>6
        DEF CmdStep, CmdNone, CmdWaitEmpty, CmdWaitMotors, CmdCheck, CmdClear,
            CmdRecalculate, CmdReverse, CmdForward, CmdTrapezoid,
            AfterTrapezoid, CmdLock, CmdPrepare, CmdUnlock, CmdPublish,
            CmdQueueHead, CmdStalled, CmdJogMode, CmdJogStart, CmdJogRun,
            CmdJogStop, CmdJogFree, CmdLoop, MoveReturns, At, flagVars
    <2>2. ~flush' /\ ~hold_queue' /\ UNCHANGED <<running, moving, haltVars>>
        BY <1>1, <1>6
        DEF CmdStep, CmdNone, CmdWaitEmpty, CmdWaitMotors, CmdCheck, CmdClear,
            CmdRecalculate, CmdReverse, CmdForward, CmdTrapezoid,
            AfterTrapezoid, CmdLock, CmdPrepare, CmdUnlock, CmdPublish,
            CmdQueueHead, CmdStalled, CmdJogMode, CmdJogStart, CmdJogRun,
            CmdJogStop, CmdJogFree, CmdLoop, At, flagVars, tickVars, motorVars
    <2> QED
        BY <1>1, <2>1, <2>2 DEF haltVars
<1> QED
    BY <1>2, <1>3, <1>4, <1>5, <1>6
    DEF Next, StepTick, vars, flagVars, haltVars, tickVars, motorVars, cmdVars

\* The same steps, with the same number of them done.
SameDue(c, b) == /\ c.steps = b.steps
                 /\ c.steps_to_move = b.steps_to_move
                 /\ c.step_count = b.step_count

\* Fetching a block outside continuous mode leaves its tick info.
LEMMA FetchedSame ==
    ASSUME NEW b \in Blocks
    PROVE  SameDue(Fetched(b, 0), b)
BY DEF Fetched, Blocks, SameDue

\* The tick info is written by the pulses, by prepare, and at the head.
LEMMA DueKept ==
    ASSUME IInv, QuietInv, [Next]_vars, ~TickStep, ~TickEnd, ~CmdPrepare,
           NEW s \in Slots, s = m_wIndex => ~CmdClear
    PROVE  SameDue(block'[s], block[s])
<1>1. /\ block \in [Slots -> Blocks] /\ continuous_mode = 0
      /\ m_rIndex \in Slots /\ ~module_halted
    BY DEF IInv, TypeOK, BlockOK, IndexOK, QuietInv
<1>2. CASE UNCHANGED block
    BY <1>2 DEF SameDue
<1>3. CASE TickStart
    BY <1>1, <1>3, FetchedSame DEF TickStart, SameDue
<1>4. CASE CmdClear
    BY <1>1, <1>4 DEF CmdClear, SameDue
<1>5. CASE CmdPublish
    BY <1>1, <1>5 DEF CmdPublish, SameDue, Blocks
<1>6. CASE CmdStalled
    BY <1>1, <1>6 DEF CmdStalled, SameDue
<1>7. CASE CmdForward
    BY <1>1, <1>7 DEF CmdForward, Blocks, SameDue
<1>8. CASE CmdLock \/ CmdUnlock
    BY <1>1, <1>8 DEF CmdLock, CmdUnlock, Blocks, SameDue
<1>9. CASE CmdQueueHead
    BY <1>1, <1>9 DEF CmdQueueHead, Blocks, SameDue
<1> QED
    BY <1>2, <1>3, <1>4, <1>5, <1>6, <1>7, <1>8, <1>9
    DEF Next, CmdLoop, HaltBegin, StepTick, TickIdle, TickHalted, CmdRequest,
        CmdMove, CmdFlush, CmdWait, CmdStep, CmdNone, CmdWaitEmpty,
        CmdWaitMotors, CmdCheck, CmdRecalculate, CmdReverse, CmdTrapezoid,
        CmdJogMode, CmdJogStart, CmdJogRun, CmdJogStop, CmdJogFree, HaltStep,
        HaltConveyor, HaltRobot, HaltPosition, vars, ringVars

\* The last pulse of a block releases it; nothing else on the queue changes.
LEMMA LastPulse ==
    ASSUME IInv, QuietInv, TickEnd
    PROVE  /\ ~empty(m_rIndex, m_wIndex)
           /\ m_rIndex' = next(m_rIndex)
           /\ UNCHANGED <<m_wIndex, last_milestone, pc, previous>>
           /\ step_position' = step_position + 1
           /\ StepsDue(block[m_rIndex]) = 1
           /\ \A s \in Slots \ {m_rIndex} : SameDue(block'[s], block[s])
<1>1. /\ block \in [Slots -> Blocks] /\ continuous_mode = 0
      /\ m_rIndex \in Slots /\ next(m_rIndex) \in Slots
      /\ next(m_rIndex) # m_rIndex
      /\ running /\ moving /\ ~flush
      /\ current_block = m_rIndex /\ ~empty(m_rIndex, m_wIndex)
    BY NextPrev
    DEF IInv, TypeOK, BlockOK, IndexOK, QuietInv, TickEnd, ExecutesTail
<1> DEFINE r == next(m_rIndex)
           done == [block EXCEPT ![m_rIndex] = Ended(@, 1)]
<1>2. /\ step_position' = step_position + 1
      /\ block[m_rIndex].step_count + 1 = block[m_rIndex].steps_to_move
      /\ m_rIndex' = r
      /\ block' = done \/ block' = [done EXCEPT ![r] = Fetched(@, 0)]
    BY <1>1 DEF TickEnd, FinishedTail, FinishedMode, FlushedTail
<1>3. \A s \in Slots \ {m_rIndex} : done[s] = block[s]
    BY <1>1
<1>4. done[r] = block[r] /\ r \in Slots /\ r # m_rIndex /\ DOMAIN done = Slots
    BY <1>1
<1>5. SameDue(Fetched(done[r], 0), block[r])
    BY <1>1, <1>4, FetchedSame
<1>6. ASSUME NEW s \in Slots \ {m_rIndex}
      PROVE  SameDue(block'[s], block[s])
    <2> HIDE DEF r, done
    <2>1. block'[s] = done[s] \/ (s = r /\ block'[s] = Fetched(done[r], 0))
        BY <1>2, <1>4
    <2> QED
        BY <1>3, <1>5, <2>1 DEF SameDue
<1>7. StepsDue(block[m_rIndex]) = 1
    BY <1>1, <1>2 DEF StepsDue, Blocks
<1> QED
    BY <1>1, <1>2, <1>6, <1>7 DEF TickEnd, cmdVars

\* Every step keeps the tick info within the steps of the move.
LEMMA DueStep ==
    ASSUME IInv, IInv', QuietInv, DueInv, [Next]_vars
    PROVE  DueInv'
<1> DEFINE Q == Queued(m_rIndex, m_wIndex)
           B == {"publish", "queue_head", "stalled"}
<1>1. /\ m_rIndex \in Slots /\ m_wIndex \in Slots /\ previous \in Slots
      /\ block \in [Slots -> Blocks] /\ ~module_halted
      /\ Q \subseteq Slots /\ m_wIndex \notin Q
    BY HeadAndTail DEF IInv, TypeOK, IndexOK, BlockOK, QuietInv
<1>2. CASE TickEnd
    <2>1. /\ Queued(m_rIndex', m_wIndex) = Q \ {m_rIndex}
          /\ m_rIndex # m_wIndex
        BY <1>1, <1>2, LastPulse, QueuedAfterRelease DEF empty
    <2> QED
        BY <1>1, <1>2, <2>1, LastPulse DEF DueInv, SameDue
<1>3. CASE TickStep
    <2>1. /\ UNCHANGED <<m_rIndex, m_wIndex, pc, previous>>
          /\ current_block = m_rIndex /\ m_rIndex # m_wIndex
        BY <1>3 DEF TickStep, cmdVars, IInv, ExecutesTail, empty
    <2>2. \A s \in Slots : /\ block'[s].steps = block[s].steps
                           /\ block'[s].steps_to_move = block[s].steps_to_move
        BY <1>1, <1>3, <2>1 DEF TickStep, Blocks
    <2>3. block'[m_wIndex] = block[m_wIndex]
        BY <1>1, <1>3, <2>1 DEF TickStep
    <2> QED
        BY <1>1, <2>1, <2>2, <2>3 DEF DueInv
<1>4. CASE CmdPrepare
    <2>1. /\ UNCHANGED <<m_rIndex, m_wIndex, previous>> /\ pc' = "unlock"
        BY <1>4 DEF CmdPrepare
    <2>2. \A s \in Slots :
            /\ block'[s].steps = block[s].steps
            /\ block'[s].steps_to_move = IF s = previous THEN block[s].steps
                                         ELSE block[s].steps_to_move
            /\ s = previous => block'[s].step_count = 0
        BY <1>1, <1>4 DEF CmdPrepare, Blocks
    <2>3. \A s \in Slots : block[s].steps \in Nat
        BY <1>1 DEF Blocks
    <2> QED
        BY <1>1, <2>1, <2>2, <2>3 DEF DueInv
<1>5. CASE ~TickEnd /\ ~TickStep /\ ~CmdPrepare
    <2>1. \A s \in Q : SameDue(block'[s], block[s])
        BY <1>1, <1>5, DueKept
    <2>2. CASE CmdQueueHead /\ ~full(m_rIndex, m_wIndex)
        <3>1. /\ Queued(m_rIndex', m_wIndex') = Q \cup {m_wIndex}
              /\ pc = "queue_head"
              /\ pc' \notin B \cup {"unlock"}
            BY <1>1, <2>2, QueuedAfterCommit
            DEF CmdQueueHead, At, MoveReturns
        <3>2. SameDue(block'[m_wIndex], block[m_wIndex])
            BY <1>1, <1>5, <2>2, DueKept DEF CmdQueueHead, CmdClear, At
        <3>3. block[m_wIndex].steps \in Nat
            BY <1>1 DEF Blocks
        <3> QED
            BY <2>1, <3>1, <3>2, <3>3 DEF DueInv, SameDue
    <2>3. CASE ~(CmdQueueHead /\ ~full(m_rIndex, m_wIndex))
        <3>1. /\ m_wIndex' = m_wIndex
              /\ Queued(m_rIndex', m_wIndex) \subseteq Q
            BY <2>3, QueueChange
        <3>2. pc' \in B \/ (pc' = "unlock" /\ previous' = m_wIndex)
                => /\ ~CmdClear
                   /\ pc \in B \/ (pc = "unlock" /\ previous = m_wIndex)
            <4>1. CASE CmdTrapezoid
                <5>1. pc = "trapezoid" /\ ~block[m_wIndex].is_ticking
                    BY <4>1 DEF CmdTrapezoid, At, IInv, HeadInv, Building
                <5> QED
                    BY <4>1, <5>1 DEF CmdTrapezoid, AfterTrapezoid
            <4>2. CASE CmdUnlock
                BY <4>2 DEF CmdUnlock, AfterTrapezoid, At, CmdClear
            <4> QED
            BY <1>5, <4>1, <4>2
            DEF Next, CmdLoop, HaltBegin, StepTick, TickIdle, TickStart,
                TickHalted, CmdRequest, CmdMove, CmdFlush, CmdWait, CmdStep,
                CmdNone, CmdWaitEmpty, CmdWaitMotors, CmdCheck, CmdClear,
                CmdRecalculate, CmdReverse, CmdForward,
                CmdLock, CmdPublish, CmdQueueHead,
                CmdStalled, CmdJogMode, CmdJogStart, CmdJogRun, CmdJogStop,
                CmdJogFree, HaltStep, HaltConveyor, HaltRobot, HaltPosition,
                MoveReturns, At, vars, cmdVars
        <3>3. pc' \in B \/ (pc' = "unlock" /\ previous' = m_wIndex)
                => SameDue(block'[m_wIndex], block[m_wIndex])
            BY <1>1, <1>5, <3>2, DueKept
        <3> QED
            BY <2>1, <3>1, <3>2, <3>3 DEF DueInv, SameDue
    <2> QED
        BY <2>2, <2>3
<1> QED
    BY <1>2, <1>3, <1>4, <1>5

\* Every step keeps the steps planned accounted for.
LEMMA LossStep ==
    ASSUME IInv, IInv', QuietInv, QuietInv', DueInv, NoStepsLost, [Next]_vars
    PROVE  NoStepsLost'
<1> DEFINE Q == Queued(m_rIndex, m_wIndex)
           owed == StepsFrom(m_rIndex, block)[Depth(m_rIndex, m_wIndex)]
           head == IF pc \in Building THEN block[m_wIndex].steps ELSE 0
           owing == StepsFrom(m_rIndex', block')[Depth(m_rIndex', m_wIndex')]
           headed == IF pc' \in Building THEN block'[m_wIndex'].steps ELSE 0
<1>1. /\ m_rIndex \in Slots /\ m_wIndex \in Slots /\ previous \in Slots
      /\ m_rIndex' \in Slots /\ m_wIndex' \in Slots
      /\ block \in [Slots -> Blocks] /\ block' \in [Slots -> Blocks]
      /\ Q \subseteq Slots /\ m_wIndex \notin Q
    BY HeadAndTail DEF IInv, TypeOK, IndexOK, BlockOK
<1>2. /\ owed \in Int /\ owing \in Int /\ head \in Nat /\ headed \in Nat
      /\ step_position \in Nat /\ last_milestone \in Nat
    <2>1. owed \in Int /\ owing \in Int
        BY <1>1, SumIsInt
    <2>2. head \in Nat /\ headed \in Nat
        BY <1>1 DEF Blocks
    <2> QED
        BY <2>1, <2>2 DEF IInv, TypeOK, CountOK
<1>3. step_position + (owed + head) >= last_milestone
    BY DEF NoStepsLost, StepsPending
<1>4. \A s \in Slots : SameDue(block'[s], block[s])
                         => StepsDue(block'[s]) = StepsDue(block[s])
    BY DEF SameDue, StepsDue
<1>5. \A s \in Slots : /\ StepsDue(block[s]) \in Int
                       /\ StepsDue(block'[s]) \in Int
    BY <1>1 DEF StepsDue, Blocks
<1> SUFFICES step_position' + (owing + headed) >= last_milestone'
    BY DEF NoStepsLost, StepsPending
<1>6. CASE TickEnd
    <2>1. owing + 1 >= owed
        BY <1>1, <1>4, <1>5, <1>6, LastPulse, SumAfterRelease
    <2>2. headed = head /\ last_milestone' = last_milestone
        <3>1. m_wIndex # m_rIndex /\ m_wIndex' = m_wIndex /\ pc' = pc
            BY <1>6, LastPulse DEF empty
        <3>2. block'[m_wIndex].steps = block[m_wIndex].steps
            BY <1>1, <1>6, <3>1, LastPulse DEF SameDue
        <3> QED
            BY <1>6, <3>1, <3>2, LastPulse
    <2>3. step_position' = step_position + 1
        BY <1>6, LastPulse
    <2> HIDE DEF owed, head, owing, headed
    <2> QED
        BY <1>2, <1>3, <2>1, <2>2, <2>3
<1>7. CASE TickStep
    <2>1. /\ UNCHANGED <<m_rIndex, m_wIndex, pc, last_milestone>>
          /\ current_block = m_rIndex /\ m_rIndex # m_wIndex
          /\ step_position' = step_position + 1
          /\ block' = [block EXCEPT ![m_rIndex].step_count = @ + 1]
        BY <1>7 DEF TickStep, cmdVars, IInv, ExecutesTail, empty
    <2>2. \A s \in Q : StepsDue(block'[s]) + (IF s = m_rIndex THEN 1 ELSE 0)
                         >= StepsDue(block[s])
        BY <1>1, <1>5, <2>1 DEF StepsDue, Blocks
    <2>3. owing + 1 >= owed
        BY <1>1, <2>1, <2>2, SumKept
    <2>4. headed = head
        BY <1>1, <2>1
    <2> HIDE DEF owed, head, owing, headed
    <2> QED
        BY <1>2, <1>3, <2>1, <2>3, <2>4
<1>8. CASE CmdPrepare
    <2>1. /\ UNCHANGED <<m_rIndex, m_wIndex, last_milestone, step_position>>
          /\ pc \in Building /\ pc' \in Building
        BY <1>8 DEF CmdPrepare, At, Building, motorVars
    <2>2. \A s \in Slots :
            /\ block'[s].steps = block[s].steps
            /\ s # previous => StepsDue(block'[s]) = StepsDue(block[s])
            /\ s = previous => StepsDue(block'[s]) = block[s].steps
        BY <1>1, <1>8 DEF CmdPrepare, Blocks, StepsDue
    <2>3. \A s \in Q : StepsDue(block[s]) <= block[s].steps
        BY <1>1 DEF DueInv, StepsDue, Blocks
    <2>4. \A s \in Q : StepsDue(block'[s]) >= StepsDue(block[s])
        BY <1>1, <1>5, <2>2, <2>3
    <2>5. owing + 0 >= owed
        BY <1>1, <1>5, <2>1, <2>4, SumKept
    <2>6. headed = head
        BY <1>1, <2>1, <2>2
    <2> HIDE DEF owed, head, owing, headed
    <2> QED
        BY <1>2, <1>3, <2>1, <2>5, <2>6
<1>9. CASE CmdClear
    <2>1. /\ UNCHANGED <<m_rIndex, m_wIndex, step_position>>
          /\ pc \notin Building
          /\ \A s \in Q : block'[s] = block[s]
        BY <1>1, <1>9 DEF CmdClear, At, Building
    <2>2. owing + 0 >= owed
        BY <1>1, <1>5, <2>1, SumKept
    <2>3. last_milestone' = last_milestone + headed
        <3>1. PICK n \in 0 .. MaxSteps :
                /\ block' = [block EXCEPT ![m_wIndex] = NewBlock(n)]
                /\ last_milestone' = last_milestone + n
                /\ IF n = 0 THEN pc' \notin Building
                            ELSE pc' = "recalculate"
            BY <1>9 DEF CmdClear, MoveReturns, Building
        <3>2. n # 0 => NewBlock(n).steps = n
            BY DEF NewBlock, ClearBlock
        <3>3. n # 0 => headed = n
            BY <1>1, <2>1, <3>1, <3>2 DEF Building
        <3>4. n = 0 => headed = 0
            BY <3>1
        <3> HIDE DEF headed
        <3> QED
            BY <1>2, <3>1, <3>3, <3>4, MotionAssumption
    <2>4. head = 0 /\ last_milestone' \in Nat /\ step_position' = step_position
        BY <2>1 DEF IInv, TypeOK, CountOK
    <2> HIDE DEF owed, head, owing, headed
    <2> QED
        BY <1>2, <1>3, <2>2, <2>3, <2>4
<1>10. CASE CmdQueueHead /\ ~full(m_rIndex, m_wIndex)
    <2>1. /\ UNCHANGED <<m_rIndex, last_milestone, step_position>>
          /\ m_wIndex' = next(m_wIndex) /\ pc = "queue_head"
          /\ pc' \notin Building
        BY <1>10 DEF CmdQueueHead, MoveReturns, At, Building, motorVars
    <2>2. \A s \in Q \cup {m_wIndex} : SameDue(block'[s], block[s])
        <3>1. ~TickEnd /\ ~TickStep /\ ~CmdPrepare /\ ~CmdClear
            BY <2>1
            DEF CmdPrepare, TickStep, TickEnd, CmdClear, At, cmdVars, Building
        <3> QED
            BY <1>1, <3>1, DueKept
    <2>3. StepsDue(block'[m_wIndex]) = head
        BY <1>1, <2>1, <2>2 DEF DueInv, SameDue, StepsDue, Building, Blocks
    <2>4. owing >= owed + StepsDue(block'[m_wIndex])
        BY <1>1, <1>4, <1>5, <1>10, <2>1, <2>2, SumAfterCommit
    <2>5. headed = 0
        BY <2>1
    <2> HIDE DEF owed, head, owing, headed
    <2> QED
        BY <1>2, <1>3, <2>1, <2>3, <2>4, <2>5
<1>11. CASE /\ ~TickEnd /\ ~TickStep /\ ~CmdPrepare /\ ~CmdClear
            /\ ~(CmdQueueHead /\ ~full(m_rIndex, m_wIndex))
    <2>1. \A s \in Slots : SameDue(block'[s], block[s])
        BY <1>11, DueKept
    <2>2. /\ UNCHANGED <<m_rIndex, m_wIndex, last_milestone, step_position>>
          /\ pc' \in Building <=> pc \in Building
        BY <1>11
        DEF QuietInv, Next, CmdLoop, HaltBegin, StepTick, TickIdle,
            FlushedTail, TickStart, TickHalted, CmdRequest, CmdMove,
            CmdFlush, CmdWait, CmdStep, CmdNone, CmdWaitEmpty, CmdWaitMotors,
            CmdCheck, CmdRecalculate, CmdReverse, CmdForward, CmdTrapezoid,
            AfterTrapezoid, CmdLock, CmdUnlock, CmdPublish, CmdQueueHead,
            CmdStalled, CmdJogMode, CmdJogStart, CmdJogRun, CmdJogStop,
            CmdJogFree, HaltStep, HaltConveyor, HaltRobot, HaltPosition,
            MoveReturns, At, Building, vars, cmdVars, ringVars, motorVars
    <2>3. owing + 0 >= owed
        BY <1>1, <1>4, <1>5, <2>1, <2>2, SumKept
    <2>4. headed = head
        BY <1>1, <2>1, <2>2 DEF SameDue
    <2> HIDE DEF owed, head, owing, headed
    <2> QED
        BY <1>2, <1>3, <2>2, <2>3, <2>4
<1> QED
    BY <1>6, <1>7, <1>8, <1>9, <1>10, <1>11

\* While only moves and waits are asked for and nobody halts, every step taken
\* into the planner's position has been issued or is still due on the queue,
\* although a block may start while its tick info is being prepared.
THEOREM StreamLosesNoStep ==
    ASSUME Streaming
    PROVE  Spec => []NoStepsLost
<1>1. Init => QuietInv /\ DueInv /\ NoStepsLost
    <2> SUFFICES ASSUME Init PROVE QuietInv /\ DueInv /\ NoStepsLost
        OBVIOUS
    <2>1. QuietInv /\ DueInv
        BY SizeAssumption DEF Init, QuietInv, DueInv, NoHalter, Queued, Slots
    <2>2. StepsFrom(0, block)[0] = 0
        <3>1. 0 \in Slots /\ block \in [Slots -> Blocks]
            BY SizeAssumption, ClearedBlock DEF Init, Slots
        <3> QED
            BY <3>1, StepsAreSum DEF IsSum
    <2>3. Depth(0, 0) = 0
        BY DEF Depth
    <2> QED
        BY <2>1, <2>2, <2>3 DEF Init, NoStepsLost, StepsPending, Building
<1>2. /\ IInv /\ IInv' /\ QuietInv /\ DueInv /\ NoStepsLost /\ [Next]_vars
        => (QuietInv /\ DueInv /\ NoStepsLost)'
    BY QuietStep, DueStep, LossStep
<1> QED
    BY Invariance, <1>1, <1>2, PTL DEF Spec
=============================================================================
