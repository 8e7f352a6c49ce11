----------------------------- MODULE MemoryPool -----------------------------
(***************************************************************************)
(* libs/MemoryPool.cpp: the pools the blocks, the step ticker and the USB  *)
(* buffers live in (_DTCMRAM, _SRAM_1).                                    *)
(*                                                                         *)
(* Sizes and addresses are in words of four bytes from the pool's base:    *)
(* alloc rounds a request up to words, and a region's header is one word.  *)
(* The headers are the domain of heap; a header swallowed by its neighbour *)
(* is no longer reached by any walk and leaves the domain.  alloc and      *)
(* dealloc are single steps: they suspend no other task, whatever          *)
(* "AutoLock lock();" looks like, but the firmware calls them from one     *)
(* task at a time.                                                         *)
(***************************************************************************)
EXTENDS Integers, FiniteSets

CONSTANTS
    Size,         \* the pool's words
    Requests      \* the sizes asked for, in bytes

ASSUME PoolAssumption ==
    /\ Size \in Nat \ {0}
    /\ Requests \subseteq Nat \ {0}

VARIABLES
    heap,         \* header offset -> [next, used]
    live          \* history: the blocks the callers hold, [at, len]

vars == <<heap, live>>

Words == 0 .. Size - 1
Heads == DOMAIN heap
End(h) == h + heap[h].next            \* the header after h's region
IsFree(h) == ~heap[h].used

TypeOK ==
    /\ Heads \subseteq Words
    /\ heap \in [Heads -> [next : 1 .. Size, used : BOOLEAN]]
    /\ live \subseteq [at : 1 .. Size - 1, len : 1 .. Size - 1]

\* MemoryPool::MemoryPool: one free region, the whole pool.
Init ==
    /\ heap = [h \in {0} |-> [next |-> Size, used |-> FALSE]]
    /\ live = {}

-----------------------------------------------------------------------------
\* nbytes rounded up to words.
Rounded(nbytes) == (nbytes + 3) \div 4

\* A mistake the checks must notice: the header is forgotten.
FitsData(n) == {h \in Heads : IsFree(h) /\ heap[h].next >= n}

\* The free regions that hold n words and their header.
Fits(n) == {h \in Heads : IsFree(h) /\ heap[h].next >= n + 1}

\* The length of what is left of region p.
Rest(p, n) == heap[p].next - (n + 1)

\* Region p is used for n words; what is left of it becomes a region.
Take(p, n) ==
    [h \in Heads \cup (IF heap[p].next > n + 1 THEN {p + n + 1} ELSE {}) |->
        IF h = p THEN [next |-> n + 1, used |-> TRUE]
        ELSE IF h \in Heads THEN heap[h]
        ELSE [next |-> Rest(p, n), used |-> FALSE]]

\* alloc: the first region that fits.
alloc(nbytes) ==
    LET n == Rounded(nbytes)
    IN  \E p \in Fits(n) :
            /\ \A q \in Fits(n) : p <= q
            /\ heap' = Take(p, n)
            /\ live' = live \cup {[at |-> p + 1, len |-> n]}

\* The free neighbours dealloc combines p with.  The last region of the pool
\* is left as it is: dealloc returns before it looks for the previous one.
NextFree(p) == {q \in Heads : q = End(p) /\ IsFree(q)}

\* A mistake the checks must notice: the walk from the base is left out.
PrevNever(p) == {}

PrevFree(p) == {q \in Heads : End(q) = p /\ IsFree(q) /\ End(p) # Size}

\* p's length once it has been combined with the region after it.
Combined(p) ==
    heap[p].next + (IF NextFree(p) = {} THEN 0 ELSE heap[End(p)].next)

\* The heap after p is freed and combined.
Freed(p) ==
    [h \in Heads \ (NextFree(p) \cup IF PrevFree(p) = {} THEN {} ELSE {p}) |->
        IF h \in PrevFree(p)
          THEN [next |-> heap[h].next + Combined(p), used |-> FALSE]
        ELSE IF h = p THEN [next |-> Combined(p), used |-> FALSE]
        ELSE heap[h]]

\* bool has(void* p): the pool operator delete gives the block back to.
has(d) == d >= 0 /\ d < Size

\* operator delete of a block in use.
dealloc(b) ==
    /\ has(b.at)
    /\ heap' = Freed(b.at - 1)
    /\ live' = live \ {b}

Next ==
    \/ \E nbytes \in Requests : alloc(nbytes)
    \/ \E b \in live : dealloc(b)

Spec == Init /\ [][Next]_vars

-----------------------------------------------------------------------------
(***************************************************************************)
(* What the pool promises.                                                 *)
(***************************************************************************)

\* The words a block takes, its header included.
Extent(b) == b.at - 1 .. b.at + b.len - 1
Occupied == UNION {Extent(b) : b \in live}

\* However blocks were split and combined before, two blocks in use never
\* share a word, none reaches out of the pool, and no header a walk goes by
\* lies in the data of one.
NoOverlap ==
    \A b \in live :
        /\ Extent(b) \subseteq Words
        /\ \A c \in live \ {b} : Extent(b) \cap Extent(c) = {}
        /\ \A h \in Heads : h \notin b.at .. b.at + b.len - 1

\* A run of words from lo to hi that no block in use has.
Unoccupied(lo, hi) == lo <= hi /\ (lo .. hi) \cap Occupied = {}

\* alloc gives up only when there is no room: a request it refuses is larger
\* than every gap between the blocks in use.  The gap at the end of the pool
\* is the exception, for dealloc never combines the last region with the one
\* before it: it may be almost twice too large.
RoomIsFound ==
    \A nbytes \in Requests : Fits(Rounded(nbytes)) = {} =>
        \A lo, hi \in Words : Unoccupied(lo, hi) =>
            /\ hi + 1 \in Occupied => hi - lo + 1 <= Rounded(nbytes)
            /\ hi = Size - 1 => hi - lo + 1 <= 2 * Rounded(nbytes)
=============================================================================
