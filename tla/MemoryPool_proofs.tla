-------------------------- MODULE MemoryPool_proofs --------------------------
(***************************************************************************)
(* Proofs about MemoryPool, for pools and requests of any size.            *)
(*                                                                         *)
(* The inductive invariant says that the regions tile the pool (Tiled),    *)
(* that the used ones are the blocks the callers hold (Held), and that two *)
(* free regions are neighbours only at the pool's end (Merged).            *)
(***************************************************************************)
EXTENDS MemoryPool, TLAPS

Headed ==
    /\ heap \in [Heads -> [next : Nat \ {0}, used : BOOLEAN]]
    /\ Heads \subseteq Words
    /\ \A h \in Heads : End(h) = Size \/ End(h) \in Heads

Apart == \A g, h \in Heads : g < h => End(g) <= h

Covered == \A w \in Words : \E h \in Heads : h <= w /\ w < End(h)

Tiled == Headed /\ Apart /\ Covered

Block(h) == [at |-> h + 1, len |-> heap[h].next - 1]

Held ==
    /\ \A h \in Heads : heap[h].used => heap[h].next > 1
    /\ live = {Block(h) : h \in {g \in Heads : heap[g].used}}

Merged ==
    \A g, h \in Heads :
        h = End(g) /\ IsFree(g) /\ IsFree(h) => End(h) = Size

IInv == Tiled /\ Held /\ Merged

-----------------------------------------------------------------------------
(***************************************************************************)
(* What the two operations do to the headers.                              *)
(***************************************************************************)

\* The size of a request is a positive number of words.
LEMMA RoundedSize ==
    ASSUME NEW nbytes \in Requests
    PROVE  Rounded(nbytes) \in Nat \ {0}
BY PoolAssumption DEF Rounded

\* alloc without the rounding: region p is split, or used whole.
LEMMA TakeHeap ==
    ASSUME Headed, NEW n \in Nat \ {0}, NEW p \in Fits(n),
           heap' = Take(p, n)
    PROVE  /\ DOMAIN heap' = Heads \cup (IF heap[p].next > n + 1
                                          THEN {p + n + 1} ELSE {})
           /\ heap'[p].next = n + 1 /\ heap'[p].used = TRUE
           /\ \A h \in Heads \ {p} : heap'[h] = heap[h]
           /\ heap[p].next > n + 1 /\ p + n + 1 \notin Heads =>
                 /\ heap'[p + n + 1].next = heap[p].next - (n + 1)
                 /\ heap'[p + n + 1].used = FALSE
<1>1. p \in Heads /\ p \in Int /\ p + n + 1 # p
  BY DEF Headed, Fits, Words
<1> DEFINE D == Heads \cup (IF heap[p].next > n + 1 THEN {p + n + 1} ELSE {})
<1>2. DOMAIN heap' = D
  BY DEF Take
<1>3. heap'[p] = [next |-> n + 1, used |-> TRUE]
  BY <1>1 DEF Take
<1>4. \A h \in Heads \ {p} : heap'[h] = heap[h]
  BY DEF Take
<1>5. heap[p].next > n + 1 /\ p + n + 1 \notin Heads =>
         heap'[p + n + 1] = [next |-> heap[p].next - (n + 1), used |-> FALSE]
  BY <1>1 DEF Take, Rest
<1> QED BY <1>2, <1>3, <1>4, <1>5

\* The initial pool is one region.
LEMMA PoolInit == Init => IInv
<1> SUFFICES ASSUME Init PROVE IInv
  OBVIOUS
<1>1. /\ Heads = {0} /\ heap[0].next = Size /\ heap[0].used = FALSE
      /\ heap[0] = [next |-> Size, used |-> FALSE]
      /\ heap \in [Heads -> [next : Nat \ {0}, used : BOOLEAN]]
  BY PoolAssumption DEF Init, Heads
<1>2. Tiled
  BY <1>1, PoolAssumption DEF Tiled, Headed, Apart, Covered, Words, End
<1>3. Held
  BY <1>1 DEF Held, Init
<1>4. Merged
  BY <1>1, PoolAssumption DEF Merged, End
<1> QED BY <1>2, <1>3, <1>4 DEF IInv

\* Splitting a region leaves a tiled pool.
LEMMA AllocTiled ==
    ASSUME IInv, NEW n \in Nat \ {0}, NEW p \in Fits(n), heap' = Take(p, n),
           live' = live \cup {[at |-> p + 1, len |-> n]}
    PROVE  IInv'
<1> DEFINE q == p + n + 1
<1> USE PoolAssumption DEF Heads
<1>0. /\ p \in Heads /\ p \in Nat /\ IsFree(p) /\ heap[p].next >= n + 1
      /\ heap[p].next \in Nat
      /\ \A h \in Heads : h \in Nat /\ heap[h].next \in Nat \ {0}
  BY DEF IInv, Tiled, Headed, Fits, Words
<1>1. heap[p].next > n + 1 => q \notin Heads
  BY <1>0 DEF IInv, Tiled, Apart, End
<1>2. /\ DOMAIN heap' = Heads \cup (IF heap[p].next > n + 1 THEN {q} ELSE {})
      /\ heap'[p].next = n + 1 /\ heap'[p].used = TRUE
      /\ \A h \in Heads \ {p} : heap'[h] = heap[h]
      /\ heap[p].next > n + 1 =>
            /\ heap'[q].next = heap[p].next - (n + 1)
            /\ heap'[q].used = FALSE
  BY TakeHeap, <1>1 DEF IInv, Tiled
<1>3. CASE heap[p].next > n + 1
  <2>1. /\ Heads' = Heads \cup {q} /\ q \notin Heads /\ q # p
        /\ End(p)' = q /\ End(q)' = End(p)
        /\ \A h \in Heads \ {p} : End(h)' = End(h)
    BY <1>0, <1>1, <1>2, <1>3 DEF End
  <2>2. Headed'
    <3>1. heap' \in [Heads' -> [next : Nat \ {0}, used : BOOLEAN]]
      BY <1>0, <1>3 DEF IInv, Tiled, Headed, Take, Rest
    <3>2. q \in Words
      BY <1>0, <1>3 DEF IInv, Tiled, Headed, Words, End
    <3>3. \A h \in Heads' : End(h)' = Size \/ End(h)' \in Heads'
      BY <1>0, <2>1 DEF IInv, Tiled, Headed
    <3> QED BY <2>1, <3>1, <3>2, <3>3 DEF IInv, Tiled, Headed
  <2>3. Apart'
    BY <1>0, <1>3, <2>1 DEF IInv, Tiled, Apart, End
  <2>4. Covered'
    BY <1>0, <1>3, <2>1 DEF IInv, Tiled, Covered, End, Words
  <2>5. Held'
    <3>1. Block(p)' = [at |-> p + 1, len |-> n]
      BY <1>0, <1>2 DEF Block
    <3>2. \A h \in Heads \ {p} : Block(h)' = Block(h)
      BY <1>2 DEF Block
    <3>3. {g \in Heads' : heap'[g].used} = {g \in Heads : heap[g].used} \cup {p}
      BY <1>0, <1>2, <1>3, <2>1 DEF IsFree
    <3>4. p \notin {g \in Heads : heap[g].used}
      BY <1>0 DEF IsFree
    <3>5. live' = {Block(h)' : h \in {g \in Heads' : heap'[g].used}}
      BY <3>1, <3>2, <3>3, <3>4 DEF IInv, Held
    <3>6. \A h \in Heads' : heap'[h].used => heap'[h].next > 1
      BY <1>0, <1>2, <1>3, <2>1 DEF IInv, Held
    <3> QED BY <3>5, <3>6 DEF Held, Block
  <2>6. Merged'
    <3>1. \A h \in Heads \ {p} : IsFree(h)' = IsFree(h)
      BY <1>2 DEF IsFree
    <3>2. ~IsFree(p)' /\ End(p) # p /\ End(p) # q
      BY <1>0, <1>2, <1>3 DEF IsFree, End
    <3>3. SUFFICES ASSUME NEW g \in Heads', NEW h \in Heads',
                          h = End(g)', IsFree(g)', IsFree(h)'
                   PROVE  End(h)' = Size
      BY DEF Merged
    <3>4. CASE g = q
      BY <1>0, <2>1, <3>1, <3>2, <3>3, <3>4 DEF IInv, Merged
    <3>5. CASE g \in Heads \ {p}
      <4>1. h \in Words
        BY <2>2, <3>3 DEF Headed
      <4>2. h = End(g) /\ h \in Heads /\ h # p
        BY <2>1, <3>2, <3>3, <3>5, <4>1 DEF IInv, Tiled, Headed, Words
      <4> QED BY <2>1, <3>1, <3>3, <3>5, <4>2 DEF IInv, Merged
    <3> QED BY <2>1, <3>2, <3>3, <3>4, <3>5
  <2> QED BY <2>2, <2>3, <2>4, <2>5, <2>6 DEF IInv, Tiled
<1>4. CASE ~(heap[p].next > n + 1)
  <2>1. /\ Heads' = Heads
        /\ \A h \in Heads : heap'[h].next = heap[h].next
        /\ \A h \in Heads : End(h)' = End(h)
    BY <1>0, <1>2, <1>4 DEF End
  <2>2. heap' \in [Heads' -> [next : Nat \ {0}, used : BOOLEAN]]
    BY <1>0, <1>4 DEF IInv, Tiled, Headed, Take, Rest
  <2>3. Tiled'
    BY <2>1, <2>2 DEF IInv, Tiled, Headed, Apart, Covered
  <2>4. Held'
    <3>1. Block(p)' = [at |-> p + 1, len |-> n]
      BY <1>0, <1>2 DEF Block
    <3>2. \A h \in Heads \ {p} : Block(h)' = Block(h)
      BY <1>2 DEF Block
    <3>3. {g \in Heads' : heap'[g].used} = {g \in Heads : heap[g].used} \cup {p}
      BY <1>0, <1>2, <2>1
    <3>4. p \notin {g \in Heads : heap[g].used}
      BY <1>0 DEF IsFree
    <3>5. live' = {Block(h)' : h \in {g \in Heads' : heap'[g].used}}
      BY <3>1, <3>2, <3>3, <3>4 DEF IInv, Held
    <3>6. \A h \in Heads' : heap'[h].used => heap'[h].next > 1
      BY <1>0, <1>2, <2>1 DEF IInv, Held
    <3> QED BY <3>5, <3>6 DEF Held, Block
  <2>5. Merged'
    BY <1>0, <1>2, <2>1 DEF IInv, Merged, IsFree
  <2> QED BY <2>3, <2>4, <2>5 DEF IInv
<1> QED BY <1>3, <1>4

\* The regions from header b up to e become one free region.
Joined(b, e) ==
    [h \in {g \in Heads : g <= b \/ e <= g} |->
        IF h = b THEN [next |-> e - b, used |-> FALSE] ELSE heap[h]]

\* Two neighbouring regions made one, as dealloc does: the pool is still tiled ...
LEMMA JoinedTiled ==
    ASSUME Tiled, NEW b \in Heads, NEW e \in Heads \cup {Size}, b < e,
           heap' = Joined(b, e)
    PROVE  Tiled'
<1> USE PoolAssumption DEF Heads
<1>0. /\ b \in Nat /\ e \in Nat /\ e <= Size
      /\ \A h \in Heads : h \in Nat /\ h < Size
                        /\ heap[h].next \in Nat \ {0} /\ End(h) \in Nat
      /\ \A g, h \in Heads : g < h => End(g) <= h
  BY DEF Tiled, Headed, Apart, Words, End
<1>1. /\ Heads' = {g \in Heads : g <= b \/ e <= g} /\ b \in Heads'
      /\ End(b)' = e
      /\ \A h \in Heads' \ {b} : heap'[h] = heap[h] /\ End(h)' = End(h)
  BY <1>0 DEF Joined, End
<1>2. Headed'
  <2>1. heap' \in [Heads' -> [next : Nat \ {0}, used : BOOLEAN]]
    BY <1>0 DEF Joined, Tiled, Headed
  <2>2. \A h \in Heads' : End(h)' = Size \/ End(h)' \in Heads'
    <3> TAKE h \in Heads'
    <3>1. CASE h = b
      BY <1>0, <1>1, <3>1
    <3>2. CASE h # b
      <4>1. End(h) = Size \/ End(h) \in Heads
        BY <1>1 DEF Tiled, Headed
      <4>2. h < b => End(h) <= b
        BY <1>0, <1>1
      <4>3. e <= h => e <= End(h)
        BY <1>0, <1>1 DEF End
      <4> QED BY <1>0, <1>1, <3>2, <4>1, <4>2, <4>3
    <3> QED BY <3>1, <3>2
  <2> QED BY <1>1, <2>1, <2>2 DEF Tiled, Headed
<1>3. Apart'
  BY <1>0, <1>1 DEF Apart
<1>4. Covered'
  <2> SUFFICES ASSUME NEW w \in Words
               PROVE  \E h \in Heads' : h <= w /\ w < End(h)'
    BY DEF Covered, Words
  <2>1. PICK h \in Heads : h <= w /\ w < End(h)
    BY DEF Tiled, Covered
  <2>2. CASE b <= w /\ w < e
    BY <1>1, <2>2
  <2>3. CASE ~(b <= w /\ w < e)
    <3>1. h # b /\ h \in Heads'
      <4>1. CASE w < b
        BY <1>0, <1>1, <2>1, <4>1 DEF Words
      <4>2. CASE e <= w
        BY <1>0, <1>1, <2>1, <4>2 DEF Words
      <4> QED BY <1>0, <2>3, <4>1, <4>2 DEF Words
    <3> QED BY <1>1, <2>1, <3>1
  <2> QED BY <2>2, <2>3
<1> QED BY <1>2, <1>3, <1>4 DEF Tiled

-----------------------------------------------------------------------------
(***************************************************************************)
(* dealloc: p and its free neighbours, from base(p) up to top(p), become   *)
(* one free region.                                                        *)
(***************************************************************************)

top(p) == IF NextFree(p) = {} THEN End(p) ELSE End(End(p))

\* ... and the blocks in use are still those of the used regions.
LEMMA JoinedInv ==
    ASSUME IInv, NEW p \in Heads, heap[p].used, live' = live \ {Block(p)},
           NEW b \in Heads, NEW e \in Heads \cup {Size}, b <= p, p < e,
           heap' = Joined(b, e),
           \A h \in Heads : b <= h /\ h < e /\ h # p => IsFree(h),
           e \in Heads /\ IsFree(e) => End(e) = Size,
           \A g \in Heads : End(g) = b /\ IsFree(g) => e = Size
    PROVE  IInv'
<1> USE PoolAssumption DEF Heads
<1>0. /\ b \in Nat /\ e \in Nat /\ p \in Nat /\ b < e
      /\ \A h \in Heads : h \in Nat /\ h < Size
                        /\ heap[h].next \in Nat \ {0} /\ End(h) \in Nat
      /\ \A h \in Heads : heap[h] \in [next : Nat \ {0}, used : BOOLEAN]
  BY DEF IInv, Tiled, Headed, Words, End
<1>1. Tiled'
  BY <1>0, JoinedTiled DEF IInv
<1>2. /\ Heads' = {g \in Heads : g <= b \/ e <= g} /\ b \in Heads'
      /\ heap'[b] = [next |-> e - b, used |-> FALSE] /\ End(b)' = e
      /\ \A h \in Heads' \ {b} : heap'[h] = heap[h] /\ End(h)' = End(h)
  BY <1>0 DEF Joined, End
<1>3. Held'
  <2>1. {g \in Heads' : heap'[g].used} = {g \in Heads : heap[g].used} \ {p}
    BY <1>0, <1>2 DEF IsFree
  <2>2. \A h \in {g \in Heads' : heap'[g].used} : Block(h)' = Block(h)
    BY <1>2 DEF Block
  <2>3. \A g, h \in Heads : Block(g) = Block(h) => g = h
    BY <1>0 DEF Block
  <2>4. live' = {Block(h)' : h \in {g \in Heads' : heap'[g].used}}
    BY <2>1, <2>2, <2>3 DEF IInv, Held
  <2>5. \A h \in Heads' : heap'[h].used => heap'[h].next > 1
    BY <1>2 DEF IInv, Held
  <2> QED BY <2>4, <2>5 DEF Held, Block
<1>4. Merged'
  <2>1. SUFFICES ASSUME NEW g \in Heads', NEW h \in Heads',
                        h = End(g)', IsFree(g)', IsFree(h)'
                 PROVE  End(h)' = Size
    BY DEF Merged
  <2>2. \A x \in Heads' \ {b} : IsFree(x)' = IsFree(x)
    BY <1>2 DEF IsFree
  <2>3. CASE g = b
    BY <1>0, <1>2, <2>1, <2>2, <2>3
  <2>4. CASE g # b /\ h = b
    <3>1. g \in Heads /\ End(g) = b /\ IsFree(g)
      BY <1>2, <2>1, <2>2, <2>4
    <3>2. e = Size
      BY <3>1
    <3> QED BY <1>2, <2>4, <3>2
  <2>5. CASE g # b /\ h # b
    BY <1>0, <1>2, <2>1, <2>2, <2>5 DEF IInv, Merged
  <2> QED BY <2>3, <2>4, <2>5
<1> QED BY <1>1, <1>3, <1>4 DEF IInv

\* What Freed leaves: the region alone or combined on either side.
LEMMA FreedTiled ==
    ASSUME IInv, NEW p \in Heads, heap[p].used, heap' = Freed(p),
           live' = live \ {Block(p)}
    PROVE  IInv'
<1> USE PoolAssumption DEF Heads
<1> DEFINE q == End(p)
           e == top(p)
<1>0. /\ p \in Nat
      /\ \A h \in Heads : h \in Nat /\ heap[h].next \in Nat \ {0}
                        /\ heap[h].used \in BOOLEAN
                        /\ h < Size /\ End(h) \in Nat
                        /\ h < End(h)
                        /\ End(h) \in Heads \cup {Size}
      /\ \A g, h \in Heads : g < h => End(g) <= h
      /\ \A g, h \in Heads : End(g) = End(h) => g = h
  BY DEF IInv, Tiled, Headed, Apart, Words, End
<1>1. \/ NextFree(p) = {}
      \/ NextFree(p) = {q} /\ q \in Heads /\ IsFree(q)
  BY DEF NextFree
<1>2. /\ e \in Heads \cup {Size} /\ e \in Nat /\ p < e /\ q <= e
      /\ Combined(p) = e - p
      /\ \A h \in Heads : p < h /\ h < e <=> h \in NextFree(p)
      /\ e \in Heads /\ IsFree(e) => End(e) = Size
  <2>1. CASE NextFree(p) = {}
    <3>1. e = q /\ Combined(p) = heap[p].next
      BY <1>0, <2>1 DEF top, Combined
    <3>2. ~(e \in Heads /\ IsFree(e))
      BY <2>1, <3>1 DEF NextFree
    <3> QED BY <1>0, <2>1, <3>1, <3>2 DEF End
  <2>2. CASE NextFree(p) # {}
    <3>1. e = End(q) /\ Combined(p) = heap[p].next + heap[q].next
      BY <1>0, <2>2 DEF top, Combined
    <3>2. NextFree(p) = {q} /\ q \in Heads /\ IsFree(q)
      BY <1>1, <2>2
    <3>3. e \in Heads /\ IsFree(e) => End(e) = Size
      BY <3>1, <3>2 DEF IInv, Merged
    <3> QED BY <1>0, <3>1, <3>2, <3>3 DEF End
  <2> QED BY <2>1, <2>2
<1>3. CASE PrevFree(p) = {}
  <2>1. heap' = Joined(p, e)
    <3>1. {h \in Heads : h <= p \/ e <= h} = Heads \ NextFree(p)
      BY <1>0, <1>2
    <3> QED BY <1>0, <1>2, <1>3, <3>1 DEF Freed, Joined
  <2>2. \A g \in Heads : End(g) = p /\ IsFree(g) => e = Size
    BY <1>0, <1>2, <1>3 DEF PrevFree, top, NextFree
  <2> QED BY <1>0, <1>2, <2>1, <2>2, <1>1, JoinedInv
<1>4. CASE PrevFree(p) # {}
  <2>1. PICK b \in PrevFree(p) : TRUE
    BY <1>4
  <2>2. b \in Heads /\ End(b) = p /\ IsFree(b) /\ b < p
    BY <1>0, <2>1 DEF PrevFree
  <2>3. PrevFree(p) = {b}
    BY <1>0, <2>1 DEF PrevFree
  <2>4. \A h \in Heads : ~(b < h /\ h < p)
    BY <1>0, <2>2
  <2>5. heap' = Joined(b, e)
    <3>1. {h \in Heads : h <= b \/ e <= h} = Heads \ (NextFree(p) \cup {p})
      BY <1>0, <1>2, <2>2, <2>4
    <3>2. heap[b].next + Combined(p) = e - b
      BY <1>0, <1>2, <2>2 DEF End
    <3> QED BY <2>2, <2>3, <3>1, <3>2 DEF Freed, Joined
  <2>6. \A g \in Heads : End(g) = b /\ IsFree(g) => e = Size
    BY <1>0, <2>2 DEF IInv, Merged
  <2>7. \A h \in Heads : b <= h /\ h < e /\ h # p => IsFree(h)
    BY <1>0, <1>1, <1>2, <2>2, <2>4
  <2> QED BY <1>0, <1>2, <2>2, <2>5, <2>6, <2>7, JoinedInv
<1> QED BY <1>3, <1>4

-----------------------------------------------------------------------------
(***************************************************************************)
(* The theorems.                                                           *)
(***************************************************************************)

\* alloc and dealloc keep the invariant.
LEMMA PoolStep == IInv /\ [Next]_vars => IInv'
<1> SUFFICES ASSUME IInv, [Next]_vars PROVE IInv'
  OBVIOUS
<1>1. ASSUME NEW nbytes \in Requests, alloc(nbytes) PROVE IInv'
  <2>1. Rounded(nbytes) \in Nat \ {0}
    BY RoundedSize
  <2> QED BY <1>1, <2>1, AllocTiled DEF alloc
<1>2. ASSUME NEW b \in live, dealloc(b) PROVE IInv'
  <2>1. PICK p \in Heads : heap[p].used /\ b = Block(p)
    BY DEF IInv, Held
  <2>2. b.at - 1 = p
    BY <2>1 DEF Block, IInv, Tiled, Headed, Words
  <2> QED BY <1>2, <2>1, <2>2, FreedTiled DEF dealloc
<1>3. CASE UNCHANGED vars
  BY <1>3 DEF vars, IInv, Tiled, Headed, Apart, Covered, Held, Merged, Heads,
              End, IsFree, Block
<1> QED BY <1>1, <1>2, <1>3 DEF Next

\* Whatever is allocated and freed, in whatever order: the regions tile the
\* pool, and no two neighbours are free but at its end.
THEOREM PoolInvariant == Spec => []IInv
BY PoolInit, PoolStep, PTL DEF Spec

\* ... the header, the length and the data of every block are in the pool.
THEOREM PoolTypeCorrect == Spec => []TypeOK
<1>1. IInv => TypeOK
  <2> SUFFICES ASSUME IInv PROVE TypeOK
    OBVIOUS
  <2>1. \A h \in Heads :
           /\ h \in Words /\ h \in Nat /\ h < Size /\ End(h) <= Size
           /\ heap[h] \in [next : Nat \ {0}, used : BOOLEAN]
           /\ heap[h].used => heap[h].next > 1
    <3> TAKE h \in Heads
    <3>1. heap[h] \in [next : Nat \ {0}, used : BOOLEAN]
      BY DEF IInv, Tiled, Headed
    <3>2. h \in Words /\ (End(h) = Size \/ End(h) \in Words)
      BY DEF IInv, Tiled, Headed
    <3>4. h \in Nat /\ h < Size /\ End(h) <= Size
      BY <3>2, PoolAssumption DEF Words
    <3>3. heap[h].used => heap[h].next > 1
      BY DEF IInv, Held
    <3> QED BY <3>1, <3>2, <3>3, <3>4
  <2>2. \A h \in Heads : heap[h].next \in 1 .. Size
    BY <2>1, PoolAssumption DEF End
  <2>3. \A h \in Heads : heap[h].used =>
           h + 1 \in 1 .. Size - 1 /\ heap[h].next - 1 \in 1 .. Size - 1
    BY <2>1, <2>2, PoolAssumption DEF End
  <2>4. live \subseteq [at : 1 .. Size - 1, len : 1 .. Size - 1]
    <3> SUFFICES ASSUME NEW b \in live
                 PROVE  b \in [at : 1 .. Size - 1, len : 1 .. Size - 1]
      OBVIOUS
    <3>1. PICK h \in Heads : heap[h].used /\ b = Block(h)
      BY DEF IInv, Held
    <3> QED BY <2>3, <3>1 DEF Block
  <2>5. heap \in [Heads -> [next : 1 .. Size, used : BOOLEAN]]
    <3> DEFINE S == [next : Nat \ {0}, used : BOOLEAN]
               T == [next : 1 .. Size, used : BOOLEAN]
    <3>1. \A h \in Heads : heap[h] \in T
      BY <2>1, <2>2
    <3>2. heap \in [Heads -> S]
      BY DEF IInv, Tiled, Headed
    <3> HIDE DEF S, T
    <3>3. heap \in [Heads -> T]
      BY <3>1, <3>2
    <3> QED BY <3>3 DEF T
  <2>6. Heads \subseteq Words
    BY DEF IInv, Tiled, Headed
  <2> QED BY <2>4, <2>5, <2>6 DEF TypeOK
<1> QED BY <1>1, PoolInvariant, PTL

\* Tiled regions do not overlap, so blocks in them do not either.
LEMMA BlocksApart == IInv => NoOverlap
<1> SUFFICES ASSUME IInv, NEW b \in live
             PROVE  /\ Extent(b) \subseteq Words
                    /\ \A c \in live \ {b} : Extent(b) \cap Extent(c) = {}
                    /\ \A h \in Heads : h \notin b.at .. b.at + b.len - 1
  BY DEF NoOverlap
<1>1. \A c \in live : \E h \in Heads : c = Block(h)
  BY DEF IInv, Held
<1>2. PICK p \in Heads : b = Block(p)
  BY <1>1
<1>3. \A h \in Heads : /\ h \in Nat /\ heap[h].next \in Nat \ {0}
                      /\ End(h) <= Size
                      /\ Extent(Block(h)) = h .. End(h) - 1
  BY PoolAssumption DEF IInv, Tiled, Headed, Words, Extent, Block, End
<1>4. \A g, h \in Heads : g < h => End(g) <= h
  BY DEF IInv, Tiled, Apart
<1>5. Extent(b) \subseteq Words
  BY <1>2, <1>3, PoolAssumption DEF Words, End
<1>6. ASSUME NEW c \in live \ {b} PROVE Extent(b) \cap Extent(c) = {}
  <2>1. PICK h \in Heads : c = Block(h)
    BY <1>1
  <2>2. End(p) <= h \/ End(h) <= p
    BY <1>2, <1>3, <1>4, <1>6, <2>1
  <2>3. (p .. End(p) - 1) \cap (h .. End(h) - 1) = {}
    BY <1>3, <2>2 DEF End
  <2> QED BY <1>2, <1>3, <2>1, <2>3
<1>7. ASSUME NEW h \in Heads, h \in b.at .. b.at + b.len - 1 PROVE FALSE
  BY <1>2, <1>3, <1>4, <1>7 DEF Block, End
<1> QED BY <1>5, <1>6, <1>7

\* Two blocks in use never share a word, in a pool of any size.
THEOREM BlocksNeverOverlap == Spec => []NoOverlap
BY BlocksApart, PoolInvariant, PTL

\* The words no block in use has are those of the free regions.
LEMMA OccupiedWords ==
    ASSUME IInv, NEW h \in Heads, NEW w \in h .. End(h) - 1
    PROVE  w \in Occupied <=> heap[h].used
<1>1. \A g \in Heads : /\ g \in Nat /\ heap[g].next \in Nat \ {0}
                      /\ End(g) \in Nat
                      /\ Extent(Block(g)) = g .. End(g) - 1
  BY DEF IInv, Tiled, Headed, Words, Extent, Block, End
<1>2. \A g, k \in Heads : g < k => End(g) <= k
  BY DEF IInv, Tiled, Apart
<1>3. ASSUME heap[h].used PROVE w \in Occupied
  <2>1. Block(h) \in live
    BY <1>3 DEF IInv, Held
  <2> QED BY <1>1, <2>1 DEF Occupied
<1>4. ASSUME w \in Occupied PROVE heap[h].used
  <2>1. PICK b \in live : w \in Extent(b)
    BY <1>4 DEF Occupied
  <2>2. PICK g \in Heads : heap[g].used /\ b = Block(g)
    BY DEF IInv, Held
  <2>3. w \in g .. End(g) - 1
    BY <1>1, <2>1, <2>2
  <2>4. g = h
    BY <1>1, <1>2, <2>3
  <2> QED BY <2>2, <2>4
<1> QED BY <1>3, <1>4

\* When no free region fits, no gap between blocks in use does.
LEMMA RefusedIsFull == IInv => RoomIsFound
<1> SUFFICES ASSUME IInv, NEW nbytes \in Requests, Fits(Rounded(nbytes)) = {},
                    NEW lo \in Words, NEW hi \in Words, Unoccupied(lo, hi)
             PROVE  /\ hi + 1 \in Occupied => hi - lo + 1 <= Rounded(nbytes)
                    /\ hi = Size - 1 => hi - lo + 1 <= 2 * Rounded(nbytes)
  BY DEF RoomIsFound
<1> DEFINE n == Rounded(nbytes)
<1>1. n \in Nat \ {0} /\ lo \in Nat /\ hi \in Nat /\ lo <= hi /\ hi < Size
  BY RoundedSize, PoolAssumption DEF Words, Unoccupied
<1>2. \A h \in Heads : /\ h \in Nat /\ heap[h].next \in Nat \ {0}
                      /\ heap[h].used \in BOOLEAN
                      /\ End(h) \in Heads \cup {Size} /\ End(h) \in Nat
                      /\ End(h) = h + heap[h].next
  BY PoolAssumption DEF IInv, Tiled, Headed, Words, End
<1>3. PICK g \in Heads : g <= lo /\ lo < End(g)
  BY DEF IInv, Tiled, Covered
<1>4. \A h \in Heads, w \in Words :
         h <= w /\ w < End(h) => (w \in Occupied <=> heap[h].used)
  BY <1>2, OccupiedWords DEF Words
<1>5. \A h \in Heads : IsFree(h) => heap[h].next <= n
  BY <1>1, <1>2 DEF Fits
<1>6. lo \notin Occupied /\ \A w \in lo .. hi : w \notin Occupied
  BY <1>1 DEF Unoccupied
<1>7. IsFree(g) /\ heap[g].next <= n
  BY <1>3, <1>4, <1>5, <1>6 DEF IsFree
<1>8. CASE hi < End(g)
  BY <1>1, <1>2, <1>3, <1>7, <1>8
<1>9. CASE End(g) <= hi
  <2> DEFINE h == End(g)
  <2>1. h \in Heads /\ h \in lo .. hi /\ h \in Words
    <3>1. h \in Nat /\ lo < h /\ h <= hi /\ h < Size /\ h # Size
      BY <1>1, <1>2, <1>3, <1>9, PoolAssumption
    <3>2. h \in Heads
      BY <1>2, <3>1
    <3> QED BY <1>1, <3>1, <3>2, PoolAssumption DEF Words
  <2>2. IsFree(h) /\ heap[h].next <= n
    BY <1>2, <1>4, <1>5, <1>6, <2>1 DEF IsFree
  <2>3. End(h) = Size
    BY <1>7, <2>1, <2>2 DEF IInv, Merged
  <2>4. hi - lo + 1 <= 2 * n
    BY <1>1, <1>2, <1>3, <1>7, <2>1, <2>2, <2>3
  <2>5. hi + 1 \notin Occupied
    <3>1. CASE hi + 1 < Size
      BY <1>1, <1>2, <1>4, <2>1, <2>2, <2>3, <3>1 DEF Words, IsFree
    <3>2. CASE hi + 1 = Size
      <4>1. \A b \in live : Extent(b) \subseteq Words
        BY BlocksApart DEF NoOverlap
      <4> QED BY <1>1, <3>2, <4>1, PoolAssumption DEF Occupied, Words
    <3> QED BY <1>1, <3>1, <3>2, PoolAssumption
  <2> QED BY <2>4, <2>5
<1> QED BY <1>1, <1>2, <1>8, <1>9

\* A request is refused only when no gap between the blocks is large enough,
\* the one at the end of the pool excepted.
THEOREM RoomIsAlwaysFound == Spec => []RoomIsFound
BY RefusedIsFull, PoolInvariant, PTL
=============================================================================
