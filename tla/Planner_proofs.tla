---------------------------- MODULE Planner_proofs ----------------------------
(***************************************************************************)
(* The plan is feasible for every queue of moves and however the step      *)
(* ticker interrupts the planner; as long as it does not, the plan is      *)
(* continuous and the fastest there is.  minimum_planner_speed is 0, its   *)
(* default: above that an end speed may be out of a block's reach.         *)
(***************************************************************************)
EXTENDS Planner, FiniteSets, Sequences, FiniteSetTheorems, SequenceTheorems,
        WellFoundedInduction, TLAPS

Numbers == 1 .. Len(block)

\* Where the planner is.
PlaceInv ==
    /\ Len(block) = IF pc = "idle" THEN queued ELSE head
    /\ pc \in {"reverse", "forward"} => iter \in 1 .. head
    /\ pc \in {"trapezoid", "write"} =>
          \/ previous = head /\ iter = head
          \/ previous \in 1 .. queued /\ iter = previous + 1
    /\ pc \in {"recalculate", "reverse"} => block[head].recalculate_flag

\* Which blocks have been fetched: all before the tail, perhaps the tail, and
\* none of them is planned again.
FetchedInv ==
    \A i \in Numbers :
        /\ i < tail => block[i].is_ticking
        /\ block[i].is_ticking => /\ i <= tail /\ i <= queued
                                  /\ ~block[i].recalculate_flag

\* What append_block computes for good.
MoveInv ==
    \A i \in Numbers :
        LET b == block[i]
        IN  /\ b.entry_speed <= b.max_entry_speed
            /\ b.max_entry_speed <= b.nominal_speed
            /\ b.nominal_length_flag => b.nominal_speed <= b.gain
            /\ i + 1 \in Numbers =>
                  block[i + 1].max_entry_speed <= b.nominal_speed

\* The entry speed that follows block i: the one planned for the next block,
\* the slowest after the last.
After(i) == IF i = Len(block) THEN MinSpeed ELSE block[i + 1].entry_speed

\* Block i can brake from its entry speed to the next one's.
Brakes(i) == block[i].entry_speed <= After(i) + block[i].gain

\* Block i can accelerate from its entry speed to the next one's.
Accelerates(i) == After(i) <= block[i].entry_speed + block[i].gain

\* Every block still to be planned can brake in time; the one whose trapezoid
\* is being written can do both; the exit speed the planner carries forward is
\* in reach of the block it belongs to.
EntryInv ==
    /\ \A i \in Numbers : ~block[i].is_ticking => Brakes(i)
    /\ pc = "reverse" =>
          speed = IF iter = head THEN MinSpeed ELSE block[iter + 1].entry_speed
    /\ pc \in {"forward", "trapezoid", "write"} /\ ~block[iter].is_ticking =>
          /\ speed <= block[iter].entry_speed + block[iter].gain
          /\ block[iter].entry_speed <= speed + block[iter].gain
    /\ pc = "trapezoid" /\ ~block[previous].is_ticking => Accelerates(previous)
    /\ pc = "write" => Brakes(previous) /\ Accelerates(previous)

\* The profile of every block that is queued is feasible.
ProfileInv ==
    /\ \A i \in 1 .. queued :
          LET b == block[i]
          IN  /\ b.initial_rate <= b.max_entry_speed
              /\ b.exit_speed <= b.initial_rate + b.gain
              /\ b.initial_rate <= b.exit_speed + b.gain
              /\ b.exit_speed <= b.nominal_speed
    /\ pc \in {"idle", "recalculate", "reverse"} /\ queued > 0 =>
          block[queued].exit_speed = MinSpeed

\* Without interruptions: between two plans the profiles are continuous and
\* start at the entry speeds; the reverse pass raises entry speeds behind
\* itself; the forward pass leaves continuity behind itself again, and it
\* starts from the block that executes with the exit speed of that one.
ContinuousInv ==
    preempts = 0 =>
        /\ pc \in {"reverse", "forward"} => iter >= tail
        /\ pc \in {"trapezoid", "write"} => previous >= tail
        /\ pc \in {"idle", "recalculate", "reverse"} =>
              /\ \A i \in tail .. queued - 1 :
                    block[i].exit_speed = block[i + 1].initial_rate
              /\ \A i \in tail + 1 .. queued :
                    IF pc = "reverse" /\ i > iter
                      THEN block[i].initial_rate <= block[i].entry_speed
                      ELSE block[i].initial_rate = block[i].entry_speed
        /\ pc \in {"forward", "trapezoid", "write"} =>
              LET this == IF pc = "forward" THEN iter ELSE previous
              IN  /\ \A i \in tail .. this - 1 :
                        block[i].exit_speed = block[i + 1].entry_speed
                  /\ \A i \in tail + 1 .. this - 1 :
                        block[i].initial_rate = block[i].entry_speed
        /\ pc = "forward" /\ block[iter].is_ticking =>
              /\ block[iter].exit_speed <= block[iter + 1].entry_speed
              /\ speed = block[iter].exit_speed
        /\ pc \in {"trapezoid", "write"} /\ block[previous].is_ticking =>
              /\ pc = "trapezoid"
              /\ block[previous].exit_speed = block[previous + 1].entry_speed

\* What holds for every minimum_planner_speed.
Shape ==
    /\ TypeOK
    /\ PlaceInv
    /\ FetchedInv

\* What takes a minimum_planner_speed of 0.
Plan ==
    /\ MoveInv
    /\ EntryInv
    /\ ProfileInv
    /\ ContinuousInv

IInv == Shape /\ Plan

-----------------------------------------------------------------------------
(***************************************************************************)
(* What each action does to the blocks.                                    *)
(***************************************************************************)

\* What append_block computes, the profile and the flags of a block.
SameMove(b, c) ==
    /\ c.gain = b.gain /\ c.nominal_speed = b.nominal_speed
    /\ c.max_entry_speed = b.max_entry_speed
    /\ c.nominal_length_flag = b.nominal_length_flag

SameProfile(b, c) ==
    c.initial_rate = b.initial_rate /\ c.exit_speed = b.exit_speed

SameFlags(b, c) ==
    c.recalculate_flag = b.recalculate_flag /\ c.is_ticking = b.is_ticking

\* The blocks after a step that changes none of their number.
Kept == block' \in Seq(Blocks) /\ Len(block') = Len(block)

\* A block is a record of typed fields.
LEMMA BlockFields ==
    ASSUME NEW b \in Blocks
    PROVE  /\ b.gain \in Nat /\ b.nominal_speed \in Nat
           /\ b.max_entry_speed \in Nat /\ b.entry_speed \in Nat
           /\ b.initial_rate \in Nat /\ b.exit_speed \in Nat
           /\ b.nominal_length_flag \in BOOLEAN
           /\ b.recalculate_flag \in BOOLEAN /\ b.is_ticking \in BOOLEAN
BY DEF Blocks

\* So are the blocks on the queue.
LEMMA QueueFields ==
    ASSUME block \in Seq(Blocks)
    PROVE  /\ Len(block) \in Nat
           /\ \A i \in Numbers :
                 /\ block[i] \in Blocks
                 /\ block[i].gain \in Nat /\ block[i].nominal_speed \in Nat
                 /\ block[i].max_entry_speed \in Nat
                 /\ block[i].entry_speed \in Nat
                 /\ block[i].initial_rate \in Nat
                 /\ block[i].exit_speed \in Nat
                 /\ block[i].nominal_length_flag \in BOOLEAN
                 /\ block[i].recalculate_flag \in BOOLEAN
                 /\ block[i].is_ticking \in BOOLEAN
<1>1. \A i \in Numbers : block[i] \in Blocks
  BY DEF Numbers
<1>2. Len(block) \in Nat
  OBVIOUS
<1> QED
  BY <1>1, <1>2, BlockFields

\* reverse_pass gives a speed; it never lowers an entry speed that was in
\* reach, and leaves it in reach and within the junction's limit.
LEMMA ReversePass ==
    ASSUME NEW b \in Blocks, NEW exit \in Nat
    PROVE  /\ reverse_pass(b, exit) \in Nat
           /\ /\ b.entry_speed <= b.max_entry_speed
              /\ b.max_entry_speed <= b.nominal_speed
              /\ b.nominal_length_flag => b.nominal_speed <= b.gain
              /\ b.entry_speed <= exit + b.gain
              => /\ b.entry_speed <= reverse_pass(b, exit)
                 /\ reverse_pass(b, exit) <= b.max_entry_speed
                 /\ reverse_pass(b, exit) <= exit + b.gain
BY BlockFields DEF reverse_pass, least, max_allowable_speed

\* max_exit_speed gives a speed; that of a block that is not executing is in
\* reach of its entry speed, both ways.
LEMMA MaxExitSpeed ==
    ASSUME NEW b \in Blocks
    PROVE  /\ max_exit_speed(b) \in Nat
           /\ b.is_ticking => max_exit_speed(b) = b.exit_speed
           /\ /\ ~b.is_ticking
              /\ b.entry_speed <= b.max_entry_speed
              /\ b.max_entry_speed <= b.nominal_speed
              /\ b.nominal_length_flag => b.nominal_speed <= b.gain
              => /\ max_exit_speed(b) <= b.entry_speed + b.gain
                 /\ b.entry_speed <= max_exit_speed(b) + b.gain
BY BlockFields DEF max_exit_speed, least, max_allowable_speed

\* The entry speed forward_pass leaves.
Followed(b, exit) ==
    LET new == least(exit, least(b.nominal_speed, b.max_entry_speed))
    IN  IF new <= b.entry_speed THEN new ELSE b.entry_speed

\* It follows the exit speed before it downwards only.
LEMMA FollowedSpeed ==
    ASSUME NEW b \in Blocks, NEW exit \in Nat
    PROVE  /\ Followed(b, exit) \in Nat
           /\ Followed(b, exit) <= b.entry_speed
           /\ Followed(b, exit) <= exit
           /\ /\ b.entry_speed <= b.max_entry_speed
              /\ b.max_entry_speed <= b.nominal_speed
              => Followed(b, exit) = least(exit, b.entry_speed)
BY BlockFields DEF Followed, least

\* forward_pass changes the entry speed and perhaps the recalculate flag.
LEMMA ForwardPass ==
    ASSUME NEW b \in Blocks, NEW exit \in Nat
    PROVE  LET c == forward_pass(b, exit)
           IN  /\ c \in Blocks
               /\ SameMove(b, c) /\ SameProfile(b, c)
               /\ c.is_ticking = b.is_ticking
               /\ c.recalculate_flag => b.recalculate_flag
               /\ c.entry_speed = Followed(b, exit)
<1> DEFINE new == least(exit, least(b.nominal_speed, b.max_entry_speed))
           c == [b EXCEPT !.entry_speed = new, !.recalculate_flag = FALSE]
<1>1. new \in Nat
  BY BlockFields DEF least
<1>2. CASE new <= b.entry_speed
  <2>1. forward_pass(b, exit) = c /\ Followed(b, exit) = new
    BY <1>2 DEF forward_pass, Followed
  <2> HIDE DEF new
  <2>2. c \in Blocks
    BY <1>1 DEF Blocks
  <2>3. /\ SameMove(b, c) /\ SameProfile(b, c)
        /\ c.is_ticking = b.is_ticking
        /\ ~c.recalculate_flag /\ c.entry_speed = new
    BY DEF Blocks, SameMove, SameProfile
  <2> QED
    BY <2>1, <2>2, <2>3
<1>3. CASE ~(new <= b.entry_speed)
  <2>1. forward_pass(b, exit) = b /\ Followed(b, exit) = b.entry_speed
    BY <1>3 DEF forward_pass, Followed
  <2> QED
    BY <2>1 DEF SameMove, SameProfile
<1> QED
  BY <1>2, <1>3

\* One block is replaced.
LEMMA ReplaceBlock ==
    ASSUME block \in Seq(Blocks), NEW k \in Numbers, NEW b \in Blocks,
           block' = [block EXCEPT ![k] = b]
    PROVE  /\ Kept
           /\ block'[k] = b
           /\ \A i \in Numbers : i # k => block'[i] = block[i]
BY ExceptSeq DEF Numbers, Kept

\* A step replaces one block with one of the same move.
LEMMA ReverseEffect ==
    ASSUME Shape, Reverse
    PROVE  LET entry == reverse_pass(block[iter], speed)
           IN  /\ Kept /\ entry \in Nat /\ speed' = entry
               /\ iter \in Numbers
               /\ \A i \in Numbers :
                     /\ SameMove(block[i], block'[i])
                     /\ SameProfile(block[i], block'[i])
                     /\ SameFlags(block[i], block'[i])
                     /\ block'[i].entry_speed =
                           IF i = iter THEN entry ELSE block[i].entry_speed
<1> DEFINE entry == reverse_pass(block[iter], speed)
           b == [block[iter] EXCEPT !.entry_speed = entry]
<1>1. block \in Seq(Blocks) /\ speed \in Nat /\ queued \in Nat
  BY DEF Shape, TypeOK
<1>2. iter \in Numbers
  BY <1>1 DEF Shape, PlaceInv, Reverse, Numbers, head
<1>3. block[iter] \in Blocks
  BY <1>1, <1>2 DEF Numbers
<1>4. entry \in Nat
  BY <1>1, <1>3, ReversePass
<1>5. b \in Blocks
  <2> HIDE DEF entry
  <2> QED
    BY <1>3, <1>4 DEF Blocks
<1>6. block' = [block EXCEPT ![iter] = b] /\ speed' = entry
  BY DEF Reverse
<1>7. /\ SameMove(block[iter], b) /\ SameProfile(block[iter], b)
      /\ SameFlags(block[iter], b) /\ b.entry_speed = entry
  <2> HIDE DEF entry
  <2> QED
    BY <1>3 DEF SameMove, SameProfile, SameFlags, Blocks
<1>8. /\ Kept /\ block'[iter] = b
      /\ \A i \in Numbers : i # iter => block'[i] = block[i]
  <2> HIDE DEF b
  <2> QED
    BY <1>1, <1>2, <1>5, <1>6, ReplaceBlock
<1> HIDE DEF b, entry
<1>9. /\ SameMove(block[iter], block'[iter])
      /\ SameProfile(block[iter], block'[iter])
      /\ SameFlags(block[iter], block'[iter])
      /\ block'[iter].entry_speed = entry
  BY <1>7, <1>8
<1>10. ASSUME NEW i \in Numbers, i # iter
       PROVE  /\ SameMove(block[i], block'[i])
              /\ SameProfile(block[i], block'[i])
              /\ SameFlags(block[i], block'[i])
              /\ block'[i].entry_speed = block[i].entry_speed
  <2>1. block'[i] = block[i]
    BY <1>8, <1>10
  <2> QED
    BY <2>1 DEF SameMove, SameProfile, SameFlags
<1> QED
  BY <1>2, <1>4, <1>6, <1>8, <1>9, <1>10 DEF entry

\* The entry speed of the block ahead follows.
LEMMA ForwardEffect ==
    ASSUME Shape, Forward, iter # head
    PROVE  LET n == iter + 1
           IN  /\ Kept /\ speed' = max_exit_speed(block'[n])
               /\ n \in Numbers /\ iter \in Numbers /\ iter' = n
               /\ \A i \in Numbers :
                     /\ SameMove(block[i], block'[i])
                     /\ SameProfile(block[i], block'[i])
                     /\ block'[i].is_ticking = block[i].is_ticking
                     /\ block'[i].recalculate_flag
                           => block[i].recalculate_flag
                     /\ block'[i].entry_speed =
                           IF i = n THEN Followed(block[i], speed)
                                    ELSE block[i].entry_speed
<1> DEFINE n == iter + 1
           b == forward_pass(block[n], speed)
<1>1. block \in Seq(Blocks) /\ speed \in Nat /\ queued \in Nat
  BY DEF Shape, TypeOK
<1>2. iter \in Numbers /\ n \in Numbers
  BY <1>1 DEF Shape, PlaceInv, Forward, Numbers, head
<1>3. block[n] \in Blocks
  BY <1>1, <1>2 DEF Numbers
<1>4. block' = [block EXCEPT ![n] = b] /\ speed' = max_exit_speed(b)
      /\ iter' = n
  BY DEF Forward
<1>5. /\ b \in Blocks
      /\ SameMove(block[n], b) /\ SameProfile(block[n], b)
      /\ b.is_ticking = block[n].is_ticking
      /\ b.recalculate_flag => block[n].recalculate_flag
      /\ b.entry_speed = Followed(block[n], speed)
  BY <1>1, <1>3, ForwardPass
<1> HIDE DEF b
<1>6. /\ Kept /\ block'[n] = b
      /\ \A i \in Numbers : i # n => block'[i] = block[i]
  BY <1>1, <1>2, <1>4, <1>5, ReplaceBlock
<1>7. /\ SameMove(block[n], block'[n])
      /\ SameProfile(block[n], block'[n])
      /\ block'[n].is_ticking = block[n].is_ticking
      /\ block'[n].recalculate_flag => block[n].recalculate_flag
      /\ block'[n].entry_speed = Followed(block[n], speed)
  BY <1>5, <1>6
<1>8. ASSUME NEW i \in Numbers, i # n
      PROVE  /\ SameMove(block[i], block'[i])
             /\ SameProfile(block[i], block'[i])
             /\ block'[i].is_ticking = block[i].is_ticking
             /\ block'[i].recalculate_flag => block[i].recalculate_flag
             /\ block'[i].entry_speed = block[i].entry_speed
  <2>1. block'[i] = block[i]
    BY <1>6, <1>8
  <2> QED
    BY <2>1 DEF SameMove, SameProfile
<1> HIDE DEF n
<1>9. \A i \in Numbers :
         /\ SameMove(block[i], block'[i])
         /\ SameProfile(block[i], block'[i])
         /\ block'[i].is_ticking = block[i].is_ticking
         /\ block'[i].recalculate_flag => block[i].recalculate_flag
         /\ block'[i].entry_speed =
               IF i = n THEN Followed(block[i], speed)
                        ELSE block[i].entry_speed
  BY <1>7, <1>8
<1> QED
  BY <1>2, <1>4, <1>6, <1>9 DEF n

\* The profile of the block behind becomes what its entry speeds ask for.
LEMMA WriteEffect ==
    ASSUME Shape, WriteTrapezoid
    PROVE  /\ Kept /\ previous \in Numbers
           /\ \A i \in Numbers :
                 /\ SameMove(block[i], block'[i])
                 /\ SameFlags(block[i], block'[i])
                 /\ block'[i].entry_speed = block[i].entry_speed
                 /\ block'[i].initial_rate =
                       IF i = previous THEN block[i].entry_speed
                                       ELSE block[i].initial_rate
                 /\ block'[i].exit_speed =
                       IF i = previous THEN After(i) ELSE block[i].exit_speed
<1> DEFINE exit == After(previous)
           b == [block[previous] EXCEPT
                    !.initial_rate = block[previous].entry_speed,
                    !.exit_speed = exit]
<1>1. block \in Seq(Blocks) /\ queued \in Nat /\ MinSpeed \in Nat
  BY PlannerAssumption DEF Shape, TypeOK
<1>2. previous \in Numbers /\ Len(block) = head
  BY <1>1 DEF Shape, PlaceInv, WriteTrapezoid, Numbers, head
<1>3. block[previous] \in Blocks
  BY <1>1, <1>2 DEF Numbers
<1>4. exit \in Nat
  <2>1. previous # Len(block) => block[previous + 1] \in Blocks
    BY <1>1, <1>2 DEF Numbers
  <2>2. previous # Len(block) => block[previous + 1].entry_speed \in Nat
    BY <2>1, BlockFields
  <2> QED
    BY <1>1, <2>2 DEF After
<1>5. block' = [block EXCEPT ![previous] = b]
  BY <1>2 DEF WriteTrapezoid, After
<1>6. block[previous].entry_speed \in Nat
  BY <1>3, BlockFields
<1> HIDE DEF exit
<1>7. /\ b \in Blocks
      /\ SameMove(block[previous], b) /\ SameFlags(block[previous], b)
      /\ b.entry_speed = block[previous].entry_speed
      /\ b.initial_rate = block[previous].entry_speed
      /\ b.exit_speed = exit
  BY <1>3, <1>4, <1>6 DEF Blocks, SameMove, SameFlags
<1> HIDE DEF b
<1>8. /\ Kept /\ block'[previous] = b
      /\ \A i \in Numbers : i # previous => block'[i] = block[i]
  BY <1>1, <1>2, <1>5, <1>7, ReplaceBlock
<1>9. ASSUME NEW i \in Numbers
      PROVE  /\ SameMove(block[i], block'[i])
             /\ SameFlags(block[i], block'[i])
             /\ block'[i].entry_speed = block[i].entry_speed
             /\ block'[i].initial_rate =
                   IF i = previous THEN block[i].entry_speed
                                   ELSE block[i].initial_rate
             /\ block'[i].exit_speed =
                   IF i = previous THEN After(i) ELSE block[i].exit_speed
  <2>1. CASE i = previous
    BY <1>7, <1>8, <2>1 DEF exit
  <2>2. CASE i # previous
    <3>1. block'[i] = block[i]
      BY <1>8, <2>2
    <3> QED
      BY <2>2, <3>1 DEF SameMove, SameFlags
  <2> QED
    BY <2>1, <2>2
<1> QED
  BY <1>2, <1>8, <1>9

\* The step ticker fetches one block, or none, of those that are queued.
Fetches(k) ==
    /\ Kept
    /\ \A i \in Numbers :
          /\ SameMove(block[i], block'[i])
          /\ SameProfile(block[i], block'[i])
          /\ block'[i].entry_speed = block[i].entry_speed
          /\ (block'[i].is_ticking <=> i = k \/ block[i].is_ticking)
          /\ (block'[i].recalculate_flag <=>
                 i # k /\ block[i].recalculate_flag)

LEMMA FetchOne ==
    ASSUME block \in Seq(Blocks), NEW k \in Numbers,
           block' = [block EXCEPT ![k] = Fetched(@)]
    PROVE  Fetches(k)
<1> DEFINE b == Fetched(block[k])
<1>1. block[k] \in Blocks
  BY DEF Numbers
<1>2. /\ b \in Blocks
      /\ SameMove(block[k], b) /\ SameProfile(block[k], b)
      /\ b.entry_speed = block[k].entry_speed
      /\ b.is_ticking /\ ~b.recalculate_flag
      /\ b.is_ticking \in BOOLEAN /\ b.recalculate_flag \in BOOLEAN
  BY <1>1 DEF Blocks, Fetched, SameMove, SameProfile
<1>3. block' = [block EXCEPT ![k] = b]
  OBVIOUS
<1> HIDE DEF b
<1>4. /\ Kept /\ block'[k] = b
      /\ \A i \in Numbers : i # k => block'[i] = block[i]
  BY <1>2, <1>3, ReplaceBlock
<1>5. ASSUME NEW i \in Numbers
      PROVE  /\ SameMove(block[i], block'[i])
             /\ SameProfile(block[i], block'[i])
             /\ block'[i].entry_speed = block[i].entry_speed
             /\ (block'[i].is_ticking <=> i = k \/ block[i].is_ticking)
             /\ (block'[i].recalculate_flag <=>
                   i # k /\ block[i].recalculate_flag)
  <2>1. CASE i = k
    BY <1>2, <1>4, <2>1
  <2>2. CASE i # k
    <3>1. block'[i] = block[i]
      BY <1>4, <2>2
    <3>2. block[i].is_ticking \in BOOLEAN
          /\ block[i].recalculate_flag \in BOOLEAN
      BY QueueFields
    <3> QED
      BY <2>2, <3>1, <3>2 DEF SameMove, SameProfile
  <2> QED
    BY <2>1, <2>2
<1> QED
  BY <1>4, <1>5 DEF Fetches

LEMMA StartEffect ==
    ASSUME Shape, StartBlock
    PROVE  Fetches(tail) /\ tail \in Numbers /\ tail <= queued
<1>1. block \in Seq(Blocks) /\ queued \in Nat /\ tail \in 1 .. head
  BY DEF Shape, TypeOK
<1>2. tail \in Numbers /\ tail <= queued
  BY <1>1 DEF Shape, PlaceInv, StartBlock, isEmpty, Numbers, head
<1> QED
  BY <1>1, <1>2, FetchOne DEF StartBlock

LEMMA FinishEffect ==
    ASSUME Shape, FinishBlock
    PROVE  /\ Fetches(IF tail + 1 = head THEN 0 ELSE tail + 1)
           /\ tail \in 1 .. queued
<1>1. block \in Seq(Blocks) /\ queued \in Nat /\ tail \in 1 .. head
  BY DEF Shape, TypeOK
<1>2. tail \in 1 .. queued
  BY <1>1 DEF FinishBlock, isEmpty, head
<1>3. CASE tail + 1 = head
  <2>1. block' = block
    BY <1>3 DEF FinishBlock, head
  <2>2. Kept
    BY <1>1, <2>1 DEF Kept
  <2>3. ASSUME NEW i \in Numbers
        PROVE  /\ SameMove(block[i], block'[i])
               /\ SameProfile(block[i], block'[i])
               /\ block'[i].entry_speed = block[i].entry_speed
               /\ (block'[i].is_ticking <=> i = 0 \/ block[i].is_ticking)
               /\ (block'[i].recalculate_flag <=>
                     i # 0 /\ block[i].recalculate_flag)
    <3>1. i # 0
      BY <1>1 DEF Numbers
    <3>2. block[i].is_ticking \in BOOLEAN
          /\ block[i].recalculate_flag \in BOOLEAN
      BY <1>1, QueueFields
    <3> QED
      BY <2>1, <3>1, <3>2 DEF SameMove, SameProfile
  <2> QED
    BY <1>2, <1>3, <2>2, <2>3 DEF Fetches
<1>4. CASE tail + 1 # head
  <2>1. tail + 1 \in Numbers
    BY <1>1, <1>2, <1>4 DEF Shape, PlaceInv, Numbers, head
  <2>2. block' = [block EXCEPT ![tail + 1] = Fetched(@)]
    BY <1>1, <1>4 DEF FinishBlock, head
  <2> QED
    BY <1>1, <1>2, <1>4, <2>1, <2>2, FetchOne
<1> QED
  BY <1>3, <1>4

\* The block append_block puts behind the others.
LEMMA AppendEffect ==
    ASSUME Shape,
           NEW gain \in Gains, NEW nominal \in Nominals,
           Append_block(gain, nominal)
    PROVE  LET new == block'[head]
           IN  /\ block' \in Seq(Blocks) /\ Len(block') = head
               /\ Len(block) = queued
               /\ \A i \in Numbers : block'[i] = block[i]
               /\ new.max_entry_speed \in Junctions(nominal)
               /\ new.gain = gain /\ new.nominal_speed = nominal
               /\ new.entry_speed =
                     least(new.max_entry_speed, MinSpeed + gain)
               /\ new.nominal_length_flag = (nominal <= MinSpeed + gain)
               /\ new.recalculate_flag /\ ~new.is_ticking
<1>1. /\ block \in Seq(Blocks) /\ queued \in Nat /\ Len(block) = queued
      /\ MinSpeed \in Nat /\ gain \in Nat /\ nominal \in Nat
  BY PlannerAssumption DEF Shape, TypeOK, PlaceInv, Append_block
<1>2. PICK vmax \in Junctions(nominal) :
         block' = Append(block,
            [gain |-> gain, nominal_speed |-> nominal,
             max_entry_speed |-> vmax,
             entry_speed |-> least(vmax, MinSpeed + gain),
             initial_rate |-> 0, exit_speed |-> 0,
             nominal_length_flag |-> nominal <= MinSpeed + gain,
             recalculate_flag |-> TRUE, is_ticking |-> FALSE])
  BY DEF Append_block, max_allowable_speed
<1> DEFINE entry == least(vmax, MinSpeed + gain)
           flag == nominal <= MinSpeed + gain
           b == [gain |-> gain, nominal_speed |-> nominal,
                 max_entry_speed |-> vmax, entry_speed |-> entry,
                 initial_rate |-> 0, exit_speed |-> 0,
                 nominal_length_flag |-> flag,
                 recalculate_flag |-> TRUE, is_ticking |-> FALSE]
<1>3. vmax \in Nat
  <2>1. CASE isEmpty
    BY <1>1, <1>2, <2>1 DEF Junctions
  <2>2. CASE ~isEmpty
    <3>1. queued \in Numbers
      BY <1>1, <2>2 DEF Shape, TypeOK, isEmpty, head, Numbers
    <3>2. block[queued].nominal_speed \in Nat
      BY <1>1, <3>1, QueueFields
    <3>3. least(block[queued].nominal_speed, nominal) \in Nat
      BY <1>1, <3>2 DEF least
    <3> QED
      BY <1>1, <1>2, <2>2, <3>3 DEF Junctions
  <2> QED
    BY <2>1, <2>2
<1>4. entry \in Nat /\ flag \in BOOLEAN
  BY <1>1, <1>3 DEF least
<1>5. block' = Append(block, b)
  BY <1>2
<1> HIDE DEF entry, flag
<1>6. /\ b \in Blocks
      /\ b.gain = gain /\ b.nominal_speed = nominal
      /\ b.max_entry_speed = vmax /\ b.entry_speed = entry
      /\ b.nominal_length_flag = flag
      /\ b.recalculate_flag /\ ~b.is_ticking
  BY <1>1, <1>3, <1>4 DEF Blocks
<1> HIDE DEF b
<1>7. /\ block' \in Seq(Blocks) /\ Len(block') = queued + 1
      /\ \A i \in Numbers : block'[i] = block[i]
      /\ block'[queued + 1] = b
  BY <1>1, <1>5, <1>6, AppendProperties DEF Numbers
<1> QED
  BY <1>1, <1>2, <1>6, <1>7 DEF entry, flag, head

-----------------------------------------------------------------------------
(***************************************************************************)
(* Where the planner is and which blocks are fetched.                      *)
(***************************************************************************)

\* Init establishes it.
LEMMA InitShape == Init => Shape
<1> SUFFICES ASSUME Init PROVE Shape
  OBVIOUS
<1>1. block = <<>> /\ Len(block) = 0 /\ block \in Seq(Blocks)
  BY DEF Init
<1>2. TypeOK
  BY <1>1, PlannerAssumption DEF Init, TypeOK, head
<1>3. PlaceInv
  BY <1>1 DEF Init, PlaceInv
<1>4. FetchedInv
  BY <1>1 DEF FetchedInv, Numbers
<1> QED
  BY <1>2, <1>3, <1>4 DEF Shape

\* Every step keeps it.
LEMMA StepShape == Shape /\ [Next]_vars => Shape'
<1> SUFFICES ASSUME Shape, [Next]_vars PROVE Shape'
  OBVIOUS
<1>1. /\ block \in Seq(Blocks) /\ Len(block) \in Nat
      /\ tail \in 1 .. head /\ queued \in Nat /\ head = queued + 1
      /\ iter \in 1 .. Len(block) + 1 /\ previous \in 1 .. Len(block) + 1
      /\ speed \in Nat /\ preempts \in 0 .. MaxPreempts
      /\ MaxPreempts \in Nat /\ MinSpeed \in Nat
      /\ head' = queued' + 1
  BY PlannerAssumption DEF Shape, TypeOK, head
<1>2. ASSUME NEW gain \in Gains, NEW nominal \in Nominals,
             Append_block(gain, nominal)
      PROVE  Shape'
  <2>1. /\ pc = "idle" /\ pc' = "recalculate"
        /\ UNCHANGED <<tail, queued, iter, previous, speed, preempts>>
    BY <1>2 DEF Append_block
  <2>2. /\ block' \in Seq(Blocks) /\ Len(block') = head
        /\ Len(block) = queued
        /\ \A i \in Numbers : block'[i] = block[i]
        /\ block'[head].recalculate_flag /\ ~block'[head].is_ticking
    BY <1>2, AppendEffect
  <2>3. TypeOK'
    BY <1>1, <2>1, <2>2 DEF TypeOK
  <2>4. PlaceInv'
    BY <1>1, <2>1, <2>2 DEF PlaceInv
  <2>5. FetchedInv'
    BY <1>1, <2>1, <2>2 DEF Shape, FetchedInv, Numbers
  <2> QED
    BY <2>3, <2>4, <2>5 DEF Shape
<1>3. CASE Recalculate
  <2>1. /\ pc = "recalculate" /\ iter' = head /\ previous' = head
        /\ speed' = MinSpeed
        /\ UNCHANGED <<block, tail, queued, preempts>>
        /\ pc' = IF isEmpty THEN "trapezoid" ELSE "reverse"
    BY <1>3 DEF Recalculate
  <2>2. Len(block) = head
    BY <2>1 DEF Shape, PlaceInv
  <2>3. TypeOK'
    BY <1>1, <2>1, <2>2 DEF TypeOK
  <2>4. PlaceInv'
    BY <1>1, <2>1, <2>2 DEF Shape, PlaceInv
  <2>5. FetchedInv'
    BY <2>1 DEF Shape, FetchedInv, Numbers
  <2> QED
    BY <2>3, <2>4, <2>5 DEF Shape
<1>4. CASE Reverse
  <2>1. /\ pc = "reverse" /\ iter # tail /\ block[iter].recalculate_flag
        /\ iter' = iter - 1
        /\ UNCHANGED <<tail, queued, pc, previous, preempts>>
    BY <1>4 DEF Reverse
  <2>2. /\ Kept /\ speed' \in Nat /\ iter \in Numbers
        /\ \A i \in Numbers : SameFlags(block[i], block'[i])
    BY <1>4, ReverseEffect
  <2>3. Len(block) = head /\ head \in Numbers
    BY <1>1, <2>1 DEF Shape, PlaceInv, Numbers
  <2>4. iter >= 2
    <3>1. ~(iter < tail)
      BY <2>1, <2>2 DEF Shape, FetchedInv
    <3> QED
      BY <1>1, <2>1, <3>1
  <2>5. TypeOK'
    BY <1>1, <2>1, <2>2, <2>3, <2>4 DEF TypeOK, Shape, Kept
  <2>6. PlaceInv'
    BY <1>1, <2>1, <2>2, <2>3, <2>4
    DEF Shape, PlaceInv, Kept, SameFlags, Numbers
  <2>7. FetchedInv'
    BY <1>1, <2>1, <2>2, <2>3
    DEF Shape, FetchedInv, Kept, SameFlags, Numbers
  <2> QED
    BY <2>5, <2>6, <2>7 DEF Shape
<1>5. CASE Turn
  <2>1. /\ pc = "reverse" /\ pc' = "forward"
        /\ speed' = max_exit_speed(block[iter])
        /\ UNCHANGED <<block, tail, queued, iter, previous, preempts>>
    BY <1>5 DEF Turn
  <2>2. Len(block) = head /\ iter \in Numbers
    BY <1>1, <2>1 DEF Shape, PlaceInv, Numbers
  <2>3. speed' \in Nat
    BY <1>1, <2>1, <2>2, MaxExitSpeed, QueueFields
  <2>4. TypeOK'
    BY <1>1, <2>1, <2>2, <2>3 DEF TypeOK
  <2>5. PlaceInv'
    BY <1>1, <2>1, <2>2 DEF Shape, PlaceInv
  <2>6. FetchedInv'
    BY <2>1 DEF Shape, FetchedInv, Numbers
  <2> QED
    BY <2>4, <2>5, <2>6 DEF Shape
<1>6. CASE Forward
  <2>1. /\ pc = "forward" /\ previous' = iter /\ pc' = "trapezoid"
        /\ UNCHANGED <<tail, queued, preempts>>
    BY <1>6 DEF Forward
  <2>2. Len(block) = head /\ iter \in 1 .. head
    BY <1>1, <2>1 DEF Shape, PlaceInv
  <2>3. CASE iter = head
    <3>1. UNCHANGED <<block, iter, speed>>
      BY <1>6, <2>3 DEF Forward
    <3>2. TypeOK'
      BY <1>1, <2>1, <2>2, <3>1 DEF TypeOK
    <3>3. PlaceInv'
      BY <1>1, <2>1, <2>2, <2>3, <3>1 DEF PlaceInv
    <3>4. FetchedInv'
      BY <2>1, <3>1 DEF Shape, FetchedInv, Numbers
    <3> QED
      BY <3>2, <3>3, <3>4 DEF Shape
  <2>4. CASE iter # head
    <3>1. /\ Kept /\ speed' = max_exit_speed(block'[iter + 1])
          /\ iter + 1 \in Numbers /\ iter' = iter + 1
          /\ \A i \in Numbers :
                /\ block'[i].is_ticking = block[i].is_ticking
                /\ block'[i].recalculate_flag => block[i].recalculate_flag
      BY <1>6, <2>4, ForwardEffect
    <3>2. speed' \in Nat
      <4>1. block'[iter + 1] \in Blocks
        BY <3>1 DEF Kept, Numbers
      <4> QED
        BY <3>1, <4>1, MaxExitSpeed
    <3>3. TypeOK'
      BY <1>1, <2>1, <2>2, <3>1, <3>2 DEF TypeOK, Kept, Numbers
    <3>4. PlaceInv'
      BY <1>1, <2>1, <2>2, <2>4, <3>1 DEF PlaceInv, Kept
    <3>5. FetchedInv'
      BY <1>1, <2>1, <3>1 DEF Shape, FetchedInv, Kept, Numbers
    <3> QED
      BY <3>3, <3>4, <3>5 DEF Shape
  <2> QED
    BY <2>3, <2>4
<1>7. CASE Trapezoid
  <2>1. /\ pc = "trapezoid"
        /\ UNCHANGED <<block, tail, iter, previous, speed, preempts>>
    BY <1>7 DEF Trapezoid
  <2>2. /\ Len(block) = head /\ head \in Numbers
        /\ \/ previous = head /\ iter = head
           \/ previous \in 1 .. queued /\ iter = previous + 1
    BY <1>1, <2>1 DEF Shape, PlaceInv, Numbers
  <2>3. /\ queued' = queued
        /\ pc' = "write" \/ pc' = "forward"
    <3>1. ~block[head].is_ticking
      BY <1>1, <2>2 DEF Shape, FetchedInv
    <3> QED
      BY <1>7, <3>1 DEF Trapezoid, AfterTrapezoid
  <2>4. TypeOK'
    BY <1>1, <2>1, <2>2, <2>3 DEF TypeOK, head
  <2>5. PlaceInv'
    BY <1>1, <2>1, <2>2, <2>3 DEF PlaceInv
  <2>6. FetchedInv'
    BY <2>1, <2>3 DEF Shape, FetchedInv, Numbers
  <2> QED
    BY <2>4, <2>5, <2>6 DEF Shape
<1>8. CASE WriteTrapezoid
  <2>1. /\ pc = "write"
        /\ UNCHANGED <<tail, iter, previous, speed, preempts>>
        /\ IF previous = head THEN pc' = "idle" /\ queued' = queued + 1
                              ELSE pc' = "forward" /\ queued' = queued
    BY <1>8 DEF WriteTrapezoid, AfterTrapezoid
  <2>2. /\ Len(block) = head
        /\ \/ previous = head /\ iter = head
           \/ previous \in 1 .. queued /\ iter = previous + 1
    BY <1>1, <2>1 DEF Shape, PlaceInv
  <2>3. /\ Kept
        /\ \A i \in Numbers : SameFlags(block[i], block'[i])
    BY <1>8, WriteEffect
  <2>4. TypeOK'
    BY <1>1, <2>1, <2>2, <2>3 DEF TypeOK, Kept
  <2>5. PlaceInv'
    BY <1>1, <2>1, <2>2, <2>3 DEF PlaceInv, Kept
  <2>6. FetchedInv'
    BY <1>1, <2>1, <2>3 DEF Shape, FetchedInv, Kept, SameFlags, Numbers
  <2> QED
    BY <2>4, <2>5, <2>6 DEF Shape
<1>9. CASE StartBlock
  <2>1. UNCHANGED <<tail, queued, pc, iter, previous, speed>>
    BY <1>9 DEF StartBlock
  <2>2. Fetches(tail) /\ tail \in Numbers /\ tail <= queued
    BY <1>9, StartEffect
  <2>3. preempts' \in 0 .. MaxPreempts
    BY <1>1, <1>9 DEF StartBlock, Interrupts
  <2>4. TypeOK'
    BY <1>1, <2>1, <2>2, <2>3 DEF Shape, TypeOK, Fetches, Kept
  <2>5. PlaceInv'
    BY <1>1, <2>1, <2>2 DEF Shape, PlaceInv, Fetches, Kept, Numbers
  <2>6. FetchedInv'
    BY <1>1, <2>1, <2>2 DEF Shape, FetchedInv, Fetches, Kept, Numbers
  <2> QED
    BY <2>4, <2>5, <2>6 DEF Shape
<1>10. CASE FinishBlock
  <2>1. /\ tail' = tail + 1 /\ block[tail].is_ticking
        /\ UNCHANGED <<queued, pc, iter, previous, speed>>
    BY <1>10 DEF FinishBlock
  <2>2. /\ Fetches(IF tail + 1 = head THEN 0 ELSE tail + 1)
        /\ tail \in 1 .. queued
    BY <1>10, FinishEffect
  <2>3. preempts' \in 0 .. MaxPreempts
    BY <1>1, <1>10 DEF FinishBlock, Interrupts
  <2>4. TypeOK'
    BY <1>1, <2>1, <2>2, <2>3 DEF Shape, TypeOK, Fetches, Kept
  <2>5. PlaceInv'
    BY <1>1, <2>1, <2>2 DEF Shape, PlaceInv, Fetches, Kept, Numbers
  <2>6. FetchedInv'
    BY <1>1, <2>1, <2>2 DEF Shape, FetchedInv, Fetches, Kept, Numbers
  <2> QED
    BY <2>4, <2>5, <2>6 DEF Shape
<1>11. CASE UNCHANGED vars
  <2>1. TypeOK' /\ PlaceInv' /\ FetchedInv'
    BY <1>11 DEF vars, Shape, TypeOK, PlaceInv, FetchedInv, Numbers, head
  <2> QED
    BY <2>1 DEF Shape
<1> QED
  BY <1>2, <1>3, <1>4, <1>5, <1>6, <1>7, <1>8, <1>9, <1>10, <1>11 DEF Next

-----------------------------------------------------------------------------
(***************************************************************************)
(* The entry speeds and the profiles.                                      *)
(***************************************************************************)

\* The types the following proofs compute with.
Typed ==
    /\ queued \in Nat /\ tail \in 1 .. queued + 1 /\ head = queued + 1
    /\ Len(block) \in Nat /\ iter \in Int /\ previous \in Int
    /\ speed \in Nat /\ preempts \in Nat
    /\ \A i \in Numbers :
          /\ block[i] \in Blocks
          /\ block[i].gain \in Nat /\ block[i].nominal_speed \in Nat
          /\ block[i].max_entry_speed \in Nat
          /\ block[i].entry_speed \in Nat
          /\ block[i].initial_rate \in Nat
          /\ block[i].exit_speed \in Nat

LEMMA ShapeTyped == Shape => Typed
<1> SUFFICES ASSUME Shape PROVE Typed
  OBVIOUS
<1>1. /\ block \in Seq(Blocks) /\ queued \in Nat /\ tail \in 1 .. head
      /\ iter \in 1 .. Len(block) + 1 /\ previous \in 1 .. Len(block) + 1
      /\ speed \in Nat /\ preempts \in 0 .. MaxPreempts /\ MaxPreempts \in Nat
  BY PlannerAssumption DEF Shape, TypeOK
<1> QED
  BY <1>1, QueueFields DEF Typed, head

\* Init establishes the plan.
LEMMA InitPlan == Init => Plan
<1> SUFFICES ASSUME Init PROVE Plan
  OBVIOUS
<1>1. /\ block = <<>> /\ Len(block) = 0 /\ queued = 0 /\ tail = 1
      /\ pc = "idle"
  BY DEF Init
<1>2. MoveInv
  BY <1>1 DEF MoveInv, Numbers
<1>3. EntryInv
  BY <1>1 DEF EntryInv, Numbers
<1>4. ProfileInv
  BY <1>1 DEF ProfileInv
<1>5. ContinuousInv
  BY <1>1 DEF ContinuousInv
<1> QED
  BY <1>2, <1>3, <1>4, <1>5 DEF Plan

\* A new block keeps it: it is slow enough at its entry to stop within its
\* own length.
LEMMA AppendPlan ==
    ASSUME MinSpeed = 0, Shape, Plan,
           NEW gain \in Gains, NEW nominal \in Nominals,
           Append_block(gain, nominal)
    PROVE  Plan'
<1> DEFINE new == block'[head]
           e == block'[head].entry_speed
           m == block'[head].max_entry_speed
<1>1. Typed /\ MoveInv /\ EntryInv /\ ProfileInv /\ ContinuousInv
  BY ShapeTyped DEF Plan
<1>2. /\ pc = "idle" /\ pc' = "recalculate"
      /\ UNCHANGED <<tail, queued, iter, previous, speed, preempts>>
      /\ head' = queued + 1
  BY DEF Append_block, head
<1>3. /\ block' \in Seq(Blocks) /\ Len(block') = queued + 1
      /\ Len(block) = queued
      /\ \A i \in Numbers : block'[i] = block[i]
      /\ m \in Junctions(nominal)
      /\ new.gain = gain /\ new.nominal_speed = nominal
      /\ e = least(m, gain)
      /\ new.nominal_length_flag = (nominal <= gain)
      /\ gain \in Nat /\ nominal \in Nat
  BY AppendEffect, <1>1, PlannerAssumption DEF Typed
<1>4. /\ m \in Nat /\ m <= nominal
      /\ queued \in Numbers => m <= block[queued].nominal_speed
  <2>1. CASE isEmpty
    <3>1. m = 0
      BY <1>3, <2>1 DEF Junctions
    <3>2. queued \in Numbers => 0 <= block[queued].nominal_speed
      BY <1>1 DEF Typed
    <3> QED
      BY <1>3, <3>1, <3>2
  <2>2. CASE ~isEmpty
    <3>1. queued \in Numbers
      BY <1>1, <1>3, <2>2 DEF Typed, isEmpty, Numbers
    <3>2. block[queued].nominal_speed \in Nat
      BY <1>1, <3>1 DEF Typed
    <3>3. \/ m = 0
          \/ m \in 0 .. least(block[queued].nominal_speed, nominal)
      BY <1>3, <2>2 DEF Junctions
    <3> QED
      BY <1>3, <3>2, <3>3 DEF least
  <2> QED
    BY <2>1, <2>2
<1>5. e \in Nat /\ e <= m /\ e <= gain
  BY <1>3, <1>4 DEF least
<1>6. MoveInv'
  <2>1. ASSUME NEW i \in Numbers'
        PROVE  /\ block'[i].entry_speed <= block'[i].max_entry_speed
               /\ block'[i].max_entry_speed <= block'[i].nominal_speed
               /\ block'[i].nominal_length_flag =>
                     block'[i].nominal_speed <= block'[i].gain
    <3>1. CASE i = head
      BY <1>3, <1>4, <1>5, <3>1
    <3>2. CASE i # head
      <4>1. i \in Numbers
        BY <1>1, <1>3, <3>2 DEF Numbers, Typed
      <4> QED
        BY <1>1, <1>3, <4>1 DEF MoveInv
    <3> QED
      BY <3>1, <3>2
  <2>2. ASSUME NEW i \in Numbers', i + 1 \in Numbers'
        PROVE  block'[i + 1].max_entry_speed <= block'[i].nominal_speed
    <3>1. i \in Numbers /\ i + 1 \in 1 .. queued + 1
      BY <1>1, <1>3, <2>2 DEF Numbers, Typed
    <3>2. CASE i = queued
      <4>1. i + 1 = head
        BY <1>1, <3>2 DEF Typed
      <4> QED
        BY <1>3, <1>4, <3>1, <3>2, <4>1
    <3>3. CASE i # queued
      <4>1. i + 1 \in Numbers
        BY <1>1, <1>3, <3>1, <3>3 DEF Numbers, Typed
      <4> QED
        BY <1>1, <1>3, <3>1, <4>1 DEF MoveInv
    <3> QED
      BY <3>2, <3>3
  <2> QED
    BY <2>1, <2>2 DEF MoveInv
<1>7. EntryInv'
  <2>1. ASSUME NEW i \in Numbers', ~block'[i].is_ticking
        PROVE  Brakes(i)'
    <3>1. CASE i = head
      <4>1. After(i)' = 0
        BY <1>1, <1>3, <3>1 DEF After, Typed
      <4> QED
        BY <1>3, <1>5, <3>1, <4>1 DEF Brakes
    <3>2. CASE i # head
      <4>1. i \in Numbers /\ i \in Nat
        BY <1>1, <1>3, <3>2 DEF Numbers, Typed
      <4>2. Brakes(i) /\ block'[i] = block[i]
        BY <1>1, <1>3, <2>1, <4>1 DEF EntryInv
      <4>3. After(i) \in Nat /\ After(i)' \in Nat /\ After(i) <= After(i)'
        <5>1. CASE i = queued
          <6>1. After(i)' = e /\ After(i) = 0
            BY <1>1, <1>3, <5>1 DEF After, Typed
          <6> QED
            BY <1>5, <6>1
        <5>2. CASE i # queued
          <6>1. i + 1 \in Numbers
            BY <1>1, <1>3, <4>1, <5>2 DEF Numbers, Typed
          <6>2. After(i)' = block[i + 1].entry_speed
                /\ After(i) = block[i + 1].entry_speed
            BY <1>1, <1>3, <4>1, <5>2, <6>1 DEF After, Typed, Numbers
          <6> QED
            BY <1>1, <6>1, <6>2 DEF Typed
        <5> QED
          BY <5>1, <5>2
      <4> QED
        BY <1>1, <4>1, <4>2, <4>3 DEF Brakes, Typed
    <3> QED
      BY <3>1, <3>2
  <2> QED
    BY <1>2, <2>1 DEF EntryInv
<1>8. \A i \in 1 .. queued : block'[i] = block[i]
  BY <1>3 DEF Numbers
<1>9. ProfileInv'
  <2>1. queued > 0 => queued \in 1 .. queued
    BY <1>1 DEF Typed
  <2> QED
    BY <1>1, <1>2, <1>8, <2>1 DEF ProfileInv
<1>10. ContinuousInv'
  <2>1. /\ \A i \in tail .. queued - 1 :
              block'[i] = block[i] /\ block'[i + 1] = block[i + 1]
        /\ \A i \in tail + 1 .. queued : block'[i] = block[i]
    BY <1>1, <1>8 DEF Typed
  <2> QED
    BY <1>1, <1>2, <2>1 DEF ContinuousInv
<1> QED
  BY <1>6, <1>7, <1>9, <1>10 DEF Plan

\* recalculate() starts at the head.
LEMMA RecalculatePlan ==
    ASSUME MinSpeed = 0, Shape, Plan, Recalculate
    PROVE  Plan'
<1>1. Typed /\ MoveInv /\ EntryInv /\ ProfileInv /\ ContinuousInv
  BY ShapeTyped DEF Plan
<1>2. /\ pc = "recalculate" /\ iter' = head /\ previous' = head
      /\ speed' = 0
      /\ UNCHANGED <<block, tail, queued, preempts>> /\ head' = head
      /\ pc' = IF tail = head THEN "trapezoid" ELSE "reverse"
  BY DEF Recalculate, isEmpty, head
<1>3. /\ Len(block) = head /\ head \in Numbers /\ ~block[head].is_ticking
  BY <1>1, <1>2 DEF Shape, PlaceInv, FetchedInv, Typed, Numbers
<1>4. Numbers' = Numbers /\ \A i : /\ After(i)' = After(i)
                                   /\ (Brakes(i)' <=> Brakes(i))
                                   /\ (Accelerates(i)' <=> Accelerates(i))
  BY <1>2 DEF Numbers, After, Brakes, Accelerates
<1>5. MoveInv'
  BY <1>1, <1>2, <1>4 DEF MoveInv
<1>6. /\ block[head].entry_speed <= 0 + block[head].gain
      /\ Accelerates(head) /\ Brakes(head)
  <2>1. Brakes(head) /\ After(head) = 0
    BY <1>1, <1>3 DEF EntryInv, After
  <2> QED
    BY <1>1, <1>3, <2>1 DEF Brakes, Accelerates, Typed
<1>7. EntryInv'
  BY <1>1, <1>2, <1>3, <1>4, <1>6 DEF EntryInv, Typed
<1>8. ProfileInv'
  BY <1>1, <1>2 DEF ProfileInv
<1>9. ContinuousInv'
  BY <1>1, <1>2, <1>3 DEF ContinuousInv, Typed
<1> QED
  BY <1>5, <1>7, <1>8, <1>9 DEF Plan

\* The moves stay what they are when every block keeps its move and its entry
\* speed stays within the junction's limit.
LEMMA MovesKept ==
    ASSUME Typed, MoveInv, Kept,
           \A i \in Numbers :
              /\ SameMove(block[i], block'[i])
              /\ block'[i].entry_speed <= block'[i].max_entry_speed
    PROVE  MoveInv'
<1>1. Numbers' = Numbers
  BY DEF Kept, Numbers
<1> QED
  BY <1>1 DEF MoveInv, SameMove

\* The profiles stay feasible when no step writes one.
LEMMA ProfilesKept ==
    ASSUME Typed, ProfileInv, Kept, queued' = queued, queued <= Len(block),
           pc' \in {"idle", "recalculate", "reverse"} =>
              pc \in {"idle", "recalculate", "reverse"},
           \A i \in Numbers : /\ SameMove(block[i], block'[i])
                              /\ SameProfile(block[i], block'[i])
    PROVE  ProfileInv'
<1>1. \A i \in 1 .. queued : i \in Numbers
  BY DEF Typed, Numbers
<1>2. queued > 0 => queued \in 1 .. queued
  BY DEF Typed
<1> QED
  BY <1>1, <1>2 DEF ProfileInv, SameMove, SameProfile

\* The reverse pass raises an entry speed, and no further than the block can
\* brake from.
LEMMA ReversePlan ==
    ASSUME MinSpeed = 0, Shape, Plan, Reverse
    PROVE  Plan'
<1> DEFINE entry == reverse_pass(block[iter], speed)
<1>1. Typed /\ MoveInv /\ EntryInv /\ ProfileInv /\ ContinuousInv
  BY ShapeTyped DEF Plan
<1>2. /\ pc = "reverse" /\ iter # tail /\ block[iter].recalculate_flag
      /\ iter' = iter - 1
      /\ UNCHANGED <<tail, queued, pc, previous, preempts>> /\ head' = head
  BY DEF Reverse, head
<1>3. /\ Kept /\ entry \in Nat /\ speed' = entry /\ iter \in Numbers
      /\ \A i \in Numbers :
            /\ SameMove(block[i], block'[i])
            /\ SameProfile(block[i], block'[i])
            /\ SameFlags(block[i], block'[i])
            /\ block'[i].entry_speed =
                  IF i = iter THEN entry ELSE block[i].entry_speed
  BY ReverseEffect
<1>4. Len(block) = head /\ head \in Numbers /\ iter \in 1 .. head
  BY <1>1, <1>2 DEF Shape, PlaceInv, Typed, Numbers
<1>5. ~block[iter].is_ticking /\ ~(iter < tail)
  BY <1>2, <1>3 DEF Shape, FetchedInv
<1>6. After(iter) = speed
  BY <1>1, <1>2, <1>4 DEF EntryInv, After
<1>7. /\ block[iter].entry_speed <= entry
      /\ entry <= block[iter].max_entry_speed
      /\ entry <= speed + block[iter].gain
  <2>1. block[iter].entry_speed <= speed + block[iter].gain
    BY <1>1, <1>3, <1>5, <1>6 DEF EntryInv, Brakes
  <2>2. block[iter] \in Blocks /\ speed \in Nat
    BY <1>1, <1>3 DEF Typed
  <2>3. /\ block[iter].entry_speed <= block[iter].max_entry_speed
        /\ block[iter].max_entry_speed <= block[iter].nominal_speed
        /\ block[iter].nominal_length_flag =>
              block[iter].nominal_speed <= block[iter].gain
    BY <1>1, <1>3 DEF MoveInv
  <2> QED
    BY <2>1, <2>2, <2>3, ReversePass
<1> HIDE DEF entry
<1>8. MoveInv'
  <2>1. \A i \in Numbers : block'[i].entry_speed <= block'[i].max_entry_speed
    BY <1>1, <1>3, <1>7 DEF MoveInv, SameMove
  <2> QED
    BY <1>1, <1>3, <2>1, MovesKept
<1>9. EntryInv'
  <2>1. ASSUME NEW i \in Numbers
        PROVE  /\ After(i) \in Nat /\ After(i)' \in Nat
               /\ After(i) <= After(i)'
    <3>1. CASE i = head
      BY <1>3, <1>4, <3>1 DEF After, Kept
    <3>2. CASE i # head
      <4>1. i + 1 \in Numbers /\ i # Len(block)
        BY <1>1, <1>4, <3>2 DEF Typed, Numbers
      <4>2. /\ block[i + 1].entry_speed \in Nat
            /\ block'[i + 1].entry_speed \in Nat
            /\ block[i + 1].entry_speed <= block'[i + 1].entry_speed
        BY <1>1, <1>3, <1>7, <4>1 DEF Typed
      <4> QED
        BY <1>3, <4>1, <4>2 DEF After, Kept
    <3> QED
      BY <3>1, <3>2
  <2>2. ASSUME NEW i \in Numbers, ~block'[i].is_ticking
        PROVE  Brakes(i)'
    <3>1. ~block[i].is_ticking /\ block'[i].gain = block[i].gain
      BY <1>3, <2>2 DEF SameMove, SameFlags
    <3>2. CASE i = iter
      BY <1>1, <1>3, <1>6, <1>7, <2>1, <3>1, <3>2 DEF Brakes, Typed
    <3>3. CASE i # iter
      <4>1. block[i].entry_speed <= After(i) + block[i].gain
        BY <1>1, <3>1 DEF EntryInv, Brakes
      <4>2. /\ block'[i].entry_speed = block[i].entry_speed
            /\ block[i].entry_speed \in Nat /\ block[i].gain \in Nat
        BY <1>1, <1>3, <3>3 DEF Typed
      <4>3. block'[i].entry_speed <= After(i)' + block'[i].gain
        BY <2>1, <3>1, <4>1, <4>2
      <4> QED
        BY <4>3 DEF Brakes
    <3> QED
      BY <3>2, <3>3
  <2>3. iter' # head /\ speed' = block'[iter' + 1].entry_speed
    <3>1. iter' + 1 = iter /\ iter' # head
      BY <1>2, <1>4
    <3> QED
      BY <1>3, <3>1
  <2>4. Numbers' = Numbers
    BY <1>3 DEF Kept, Numbers
  <2> QED
    BY <1>2, <2>2, <2>3, <2>4 DEF EntryInv
<1>10. ProfileInv'
  <2>1. queued <= Len(block)
    BY <1>1, <1>4 DEF Typed
  <2> QED
    BY <1>1, <1>2, <1>3, <2>1, ProfilesKept
<1>11. ContinuousInv'
  <2> SUFFICES ASSUME preempts = 0 PROVE ContinuousInv'
    BY <1>2 DEF ContinuousInv
  <2>1. /\ iter >= tail
        /\ \A i \in tail .. queued - 1 :
              block[i].exit_speed = block[i + 1].initial_rate
        /\ \A i \in tail + 1 .. queued :
              IF i > iter
                THEN block[i].initial_rate <= block[i].entry_speed
                ELSE block[i].initial_rate = block[i].entry_speed
    BY <1>1, <1>2 DEF ContinuousInv
  <2>2. \A i \in tail .. queued : i \in Numbers
    BY <1>1, <1>4 DEF Typed, Numbers
  <2>3. \A i \in tail .. queued - 1 :
           block'[i].exit_speed = block'[i + 1].initial_rate
    <3>1. \A i \in tail .. queued - 1 : i \in Numbers /\ i + 1 \in Numbers
      BY <1>1, <1>4 DEF Typed, Numbers
    <3> QED
      BY <1>3, <2>1, <3>1 DEF SameProfile
  <2>4. ASSUME NEW i \in tail + 1 .. queued
        PROVE  IF i > iter'
                 THEN block'[i].initial_rate <= block'[i].entry_speed
                 ELSE block'[i].initial_rate = block'[i].entry_speed
    <3>1. i \in Numbers
      BY <1>1, <2>2, <2>4 DEF Typed
    <3>2. /\ block'[i].initial_rate = block[i].initial_rate
          /\ block[i].initial_rate \in Nat /\ block[i].entry_speed \in Nat
          /\ block'[i].entry_speed =
                  IF i = iter THEN entry ELSE block[i].entry_speed
      BY <1>1, <1>3, <3>1 DEF SameProfile, Typed
    <3> QED
      BY <1>1, <1>2, <1>3, <1>4, <1>7, <2>1, <2>4, <3>2
  <2>5. iter' >= tail
    BY <1>1, <1>2, <1>4, <2>1 DEF Typed
  <2> QED
    BY <1>2, <2>3, <2>4, <2>5 DEF ContinuousInv
<1> QED
  BY <1>8, <1>9, <1>10, <1>11 DEF Plan

\* Between the passes the exit speed that is carried forward is in reach, and
\* where the walk ended the profiles are the planned ones.
LEMMA TurnPlan ==
    ASSUME MinSpeed = 0, Shape, Plan, Turn
    PROVE  Plan'
<1>1. Typed /\ MoveInv /\ EntryInv /\ ProfileInv /\ ContinuousInv
  BY ShapeTyped DEF Plan
<1>2. /\ pc = "reverse" /\ pc' = "forward"
      /\ iter = tail \/ ~block[iter].recalculate_flag
      /\ speed' = max_exit_speed(block[iter])
      /\ UNCHANGED <<block, tail, queued, iter, previous, preempts>>
      /\ head' = head
  BY DEF Turn, head
<1>3. /\ Len(block) = head /\ head \in Numbers /\ iter \in Numbers
      /\ iter \in 1 .. head /\ block[head].recalculate_flag
  BY <1>1, <1>2 DEF Shape, PlaceInv, Typed, Numbers
<1>4. Numbers' = Numbers /\ \A i : /\ After(i)' = After(i)
                                   /\ (Brakes(i)' <=> Brakes(i))
                                   /\ (Accelerates(i)' <=> Accelerates(i))
  BY <1>2 DEF Numbers, After, Brakes, Accelerates
<1>5. MoveInv'
  BY <1>1, <1>2, <1>4 DEF MoveInv
<1>6. ~block[iter].is_ticking =>
         /\ speed' <= block[iter].entry_speed + block[iter].gain
         /\ block[iter].entry_speed <= speed' + block[iter].gain
  BY <1>1, <1>2, <1>3, MaxExitSpeed DEF MoveInv, Typed
<1>7. EntryInv'
  BY <1>1, <1>2, <1>4, <1>6 DEF EntryInv
<1>8. ProfileInv'
  BY <1>1, <1>2 DEF ProfileInv
<1>9. ContinuousInv'
  <2> SUFFICES ASSUME preempts = 0 PROVE ContinuousInv'
    BY <1>2 DEF ContinuousInv
  <2>1. /\ iter >= tail
        /\ \A i \in tail .. queued - 1 :
              block[i].exit_speed = block[i + 1].initial_rate
        /\ \A i \in tail + 1 .. queued :
              IF i > iter
                THEN block[i].initial_rate <= block[i].entry_speed
                ELSE block[i].initial_rate = block[i].entry_speed
    BY <1>1, <1>2 DEF ContinuousInv
  <2>2. iter = head => tail = head
    BY <1>2, <1>3
  <2>3. \A i \in tail + 1 .. iter - 1 :
           block[i].initial_rate = block[i].entry_speed
    BY <1>1, <1>3, <2>1 DEF Typed
  <2>4. ASSUME NEW i \in tail .. iter - 1
        PROVE  block[i].exit_speed = block[i + 1].entry_speed
    <3>1. /\ i \in tail .. queued - 1 /\ i + 1 \in tail + 1 .. queued
          /\ ~(i + 1 > iter)
      BY <1>1, <1>3, <2>2, <2>4 DEF Typed
    <3> QED
      BY <2>1, <3>1
  <2>5. ASSUME block[iter].is_ticking
        PROVE  /\ block[iter].exit_speed <= block[iter + 1].entry_speed
               /\ speed' = block[iter].exit_speed
    <3>1. iter = tail /\ iter <= queued /\ block[iter] \in Blocks
      BY <1>1, <1>3, <2>1, <2>5 DEF Shape, FetchedInv, Typed
    <3>2. speed' = block[iter].exit_speed
      BY <1>2, <2>5, <3>1, MaxExitSpeed
    <3>3. iter + 1 \in Numbers
      BY <1>1, <1>3, <3>1 DEF Typed, Numbers
    <3>4. CASE iter = queued
      <4>1. block[iter].exit_speed = 0
        BY <1>1, <1>2, <1>3, <3>4 DEF ProfileInv
      <4> QED
        BY <1>1, <3>2, <3>3, <4>1 DEF Typed
    <3>5. CASE iter # queued
      <4>1. /\ iter \in tail .. queued - 1 /\ iter + 1 \in tail + 1 .. queued
            /\ iter + 1 > iter
        BY <1>1, <3>1, <3>5 DEF Typed
      <4> QED
        BY <2>1, <3>2, <4>1
    <3> QED
      BY <3>4, <3>5
  <2> QED
    BY <1>2, <2>1, <2>3, <2>4, <2>5 DEF ContinuousInv
<1> QED
  BY <1>5, <1>7, <1>8, <1>9 DEF Plan

\* The forward pass lowers an entry speed to an exit speed that is in reach.
LEMMA ForwardPlan ==
    ASSUME MinSpeed = 0, Shape, Plan, Forward
    PROVE  Plan'
<1>1. Typed /\ MoveInv /\ EntryInv /\ ProfileInv /\ ContinuousInv
  BY ShapeTyped DEF Plan
<1>2. /\ pc = "forward" /\ previous' = iter /\ pc' = "trapezoid"
      /\ UNCHANGED <<tail, queued, preempts>> /\ head' = head
  BY DEF Forward, head
<1>3. /\ Len(block) = head /\ head \in Numbers /\ iter \in Numbers
      /\ iter \in 1 .. head /\ ~block[head].is_ticking
  BY <1>1, <1>2 DEF Shape, PlaceInv, FetchedInv, Typed, Numbers
<1>4. /\ preempts = 0 =>
            /\ iter >= tail
            /\ \A i \in tail .. iter - 1 :
                  block[i].exit_speed = block[i + 1].entry_speed
            /\ \A i \in tail + 1 .. iter - 1 :
                  block[i].initial_rate = block[i].entry_speed
      /\ preempts = 0 /\ block[iter].is_ticking =>
            /\ block[iter].exit_speed <= block[iter + 1].entry_speed
            /\ speed = block[iter].exit_speed
  BY <1>1, <1>2 DEF ContinuousInv
<1>5. CASE iter = head
  <2>1. UNCHANGED <<block, iter, speed>>
    BY <1>5 DEF Forward
  <2>2. Numbers' = Numbers /\ \A i : /\ After(i)' = After(i)
                                     /\ (Brakes(i)' <=> Brakes(i))
                                     /\ (Accelerates(i)' <=> Accelerates(i))
    BY <2>1 DEF Numbers, After, Brakes, Accelerates
  <2>3. MoveInv'
    BY <1>1, <2>1, <2>2 DEF MoveInv
  <2>4. Accelerates(iter)
    BY <1>1, <1>3, <1>5 DEF Accelerates, After, Typed
  <2>5. EntryInv'
    BY <1>1, <1>2, <2>1, <2>2, <2>4 DEF EntryInv
  <2>6. ProfileInv'
    BY <1>1, <1>2, <2>1 DEF ProfileInv
  <2>7. ContinuousInv'
    BY <1>2, <1>3, <1>4, <1>5, <2>1 DEF ContinuousInv
  <2> QED
    BY <2>3, <2>5, <2>6, <2>7 DEF Plan
<1>6. CASE iter # head
  <2> DEFINE n == iter + 1
             e == Followed(block[n], speed)
  <2>1. /\ Kept /\ speed' = max_exit_speed(block'[n])
        /\ n \in Numbers /\ iter' = n
        /\ \A i \in Numbers :
              /\ SameMove(block[i], block'[i])
              /\ SameProfile(block[i], block'[i])
              /\ block'[i].is_ticking = block[i].is_ticking
              /\ block'[i].entry_speed =
                    IF i = n THEN e ELSE block[i].entry_speed
    BY <1>6, ForwardEffect
  <2>2. /\ block[n].entry_speed <= block[n].max_entry_speed
        /\ block[n].max_entry_speed <= block[n].nominal_speed
    BY <1>1, <2>1 DEF MoveInv
  <2>3. /\ e \in Nat /\ e <= block[n].entry_speed /\ e <= speed
        /\ e = least(speed, block[n].entry_speed)
        /\ block[n].entry_speed \in Nat /\ speed \in Nat
        /\ block[n].max_entry_speed \in Nat
    BY <1>1, <2>1, <2>2, FollowedSpeed DEF Typed
  <2> HIDE DEF e
  <2>4. MoveInv'
    <3>1. ASSUME NEW i \in Numbers
          PROVE  block'[i].entry_speed <= block'[i].max_entry_speed
      <4>1. CASE i = n
        BY <2>1, <2>2, <2>3, <4>1 DEF SameMove
      <4>2. CASE i # n
        BY <1>1, <2>1, <4>2 DEF MoveInv, SameMove
      <4> QED
        BY <4>1, <4>2
    <3> QED
      BY <1>1, <2>1, <3>1, MovesKept
  <2>5. After(iter) = block[n].entry_speed /\ After(previous)' = e
    BY <1>2, <1>3, <1>6, <2>1 DEF After, Kept
  <2>6. /\ block[iter].entry_speed \in Nat /\ block[iter].gain \in Nat
        /\ block'[iter].entry_speed = block[iter].entry_speed
        /\ block'[iter].gain = block[iter].gain
        /\ block'[iter].is_ticking = block[iter].is_ticking
        /\ block'[iter].exit_speed = block[iter].exit_speed
    <3>1. iter # n
      BY <1>3
    <3> QED
      BY <1>1, <1>3, <2>1, <3>1 DEF SameMove, SameProfile, Typed
  <2>7. ~block[iter].is_ticking =>
           Brakes(previous)' /\ Accelerates(previous)'
    <3> SUFFICES ASSUME ~block[iter].is_ticking
                 PROVE  Brakes(previous)' /\ Accelerates(previous)'
      OBVIOUS
    <3>1. /\ speed <= block[iter].entry_speed + block[iter].gain
          /\ block[iter].entry_speed <= speed + block[iter].gain
      BY <1>1, <1>2 DEF EntryInv
    <3>2. block[iter].entry_speed <= block[n].entry_speed + block[iter].gain
      BY <1>1, <1>3, <2>5 DEF EntryInv, Brakes
    <3>3. /\ block'[iter].entry_speed <= e + block'[iter].gain
          /\ e <= block'[iter].entry_speed + block'[iter].gain
      BY <2>3, <2>6, <3>1, <3>2 DEF least
    <3> QED
      BY <1>2, <2>5, <3>3 DEF Brakes, Accelerates
  <2>8. EntryInv'
    <3>1. ASSUME NEW i \in Numbers, ~block'[i].is_ticking
          PROVE  Brakes(i)'
      <4>1. ~block[i].is_ticking
        BY <2>1, <3>1
      <4>2. CASE i = iter
        BY <1>2, <2>7, <4>1, <4>2
      <4>3. CASE i # iter
        <5>1. After(i)' = After(i) /\ After(i) \in Nat
          <6>1. CASE i = head
            BY <1>3, <2>1, <6>1 DEF After, Kept
          <6>2. CASE i # head
            <7>1. i + 1 \in Numbers /\ i + 1 # n /\ i # Len(block)
              BY <1>1, <1>3, <4>3, <6>2 DEF Typed, Numbers
            <7> QED
              BY <1>1, <2>1, <7>1 DEF After, Kept, Typed
          <6> QED
            BY <6>1, <6>2
        <5>2. block[i].entry_speed <= After(i) + block[i].gain
          BY <1>1, <4>1 DEF EntryInv, Brakes
        <5>3. /\ block'[i].entry_speed \in Nat
              /\ block'[i].entry_speed <= block[i].entry_speed
              /\ block'[i].gain = block[i].gain
              /\ block[i].entry_speed \in Nat /\ block[i].gain \in Nat
          BY <1>1, <2>1, <2>3 DEF SameMove, Typed
        <5>4. block'[i].entry_speed <= After(i)' + block'[i].gain
          BY <5>1, <5>2, <5>3
        <5> QED
          BY <5>4 DEF Brakes
      <4> QED
        BY <4>2, <4>3
    <3>2. ~block'[n].is_ticking =>
             /\ speed' <= block'[n].entry_speed + block'[n].gain
             /\ block'[n].entry_speed <= speed' + block'[n].gain
      <4>1. block'[n] \in Blocks
        BY <2>1 DEF Kept, Numbers
      <4>2. /\ block'[n].entry_speed <= block'[n].max_entry_speed
            /\ block'[n].max_entry_speed <= block'[n].nominal_speed
            /\ block'[n].nominal_length_flag =>
                  block'[n].nominal_speed <= block'[n].gain
        <5>1. n \in Numbers'
          BY <2>1 DEF Kept, Numbers
        <5> QED
          BY <2>4, <5>1 DEF MoveInv
      <4> QED
        BY <2>1, <4>1, <4>2, MaxExitSpeed
    <3>3. Numbers' = Numbers
      BY <2>1 DEF Kept, Numbers
    <3>4. (~block[previous].is_ticking => Accelerates(previous))'
      BY <1>2, <2>6, <2>7
    <3> HIDE DEF n
    <3> QED
      BY <1>2, <2>1, <3>1, <3>2, <3>3, <3>4 DEF EntryInv
  <2>9. ProfileInv'
    <3>1. queued <= Len(block)
      BY <1>1, <1>3 DEF Typed
    <3> QED
      BY <1>1, <1>2, <2>1, <3>1, ProfilesKept
  <2>10. ContinuousInv'
    <3> SUFFICES ASSUME preempts = 0 PROVE ContinuousInv'
      BY <1>2 DEF ContinuousInv
    <3>1. ASSUME NEW i \in tail .. iter - 1
          PROVE  block'[i].exit_speed = block'[i + 1].entry_speed
      <4>1. i \in Numbers /\ i + 1 \in Numbers /\ i + 1 # n
        BY <1>1, <1>3, <3>1 DEF Typed, Numbers
      <4> QED
        BY <1>4, <2>1, <3>1, <4>1 DEF SameProfile
    <3>2. ASSUME NEW i \in tail + 1 .. iter - 1
          PROVE  block'[i].initial_rate = block'[i].entry_speed
      <4>1. i \in Numbers /\ i # n
        BY <1>1, <1>3, <3>2 DEF Typed, Numbers
      <4> QED
        BY <1>4, <2>1, <3>2, <4>1 DEF SameProfile
    <3>3. ASSUME block'[iter].is_ticking
          PROVE  block'[iter].exit_speed = block'[n].entry_speed
      <4>1. /\ block[iter].exit_speed <= block[n].entry_speed
            /\ speed = block[iter].exit_speed
        BY <1>4, <2>6, <3>3
      <4>2. e = speed
        BY <2>3, <4>1 DEF least
      <4> QED
        BY <2>1, <2>6, <4>1, <4>2
    <3> QED
      BY <1>2, <1>4, <3>1, <3>2, <3>3 DEF ContinuousInv
  <2> QED
    BY <2>4, <2>8, <2>9, <2>10 DEF Plan
<1> QED
  BY <1>5, <1>6

\* A block that executes keeps its profile, any other is locked for its own.
LEMMA TrapezoidPlan ==
    ASSUME MinSpeed = 0, Shape, Plan, Trapezoid
    PROVE  Plan'
<1>1. Typed /\ MoveInv /\ EntryInv /\ ProfileInv /\ ContinuousInv
  BY ShapeTyped DEF Plan
<1>2. /\ pc = "trapezoid"
      /\ UNCHANGED <<block, tail, iter, previous, speed, preempts>>
  BY DEF Trapezoid
<1>3. /\ Len(block) = head /\ head \in Numbers /\ ~block[head].is_ticking
      /\ \/ previous = head /\ iter = head
         \/ previous \in 1 .. queued /\ iter = previous + 1
  BY <1>1, <1>2 DEF Shape, PlaceInv, FetchedInv, Typed, Numbers
<1>4. /\ queued' = queued /\ head' = head
      /\ pc' = IF block[previous].is_ticking THEN "forward" ELSE "write"
      /\ block[previous].is_ticking => previous # head
  BY <1>3 DEF Trapezoid, AfterTrapezoid, head
<1>5. Numbers' = Numbers /\ \A i : /\ After(i)' = After(i)
                                   /\ (Brakes(i)' <=> Brakes(i))
                                   /\ (Accelerates(i)' <=> Accelerates(i))
  BY <1>2 DEF Numbers, After, Brakes, Accelerates
<1>6. MoveInv'
  BY <1>1, <1>2, <1>5 DEF MoveInv
<1>7. EntryInv'
  <2>1. previous \in Numbers
    BY <1>1, <1>3 DEF Typed, Numbers
  <2> QED
    BY <1>1, <1>2, <1>4, <1>5, <2>1 DEF EntryInv
<1>8. ProfileInv'
  BY <1>1, <1>2, <1>4 DEF ProfileInv
<1>9. ContinuousInv'
  <2> SUFFICES ASSUME preempts = 0 PROVE ContinuousInv'
    BY <1>2 DEF ContinuousInv
  <2>1. /\ previous >= tail
        /\ \A i \in tail .. previous - 1 :
              block[i].exit_speed = block[i + 1].entry_speed
        /\ \A i \in tail + 1 .. previous - 1 :
              block[i].initial_rate = block[i].entry_speed
        /\ block[previous].is_ticking =>
              block[previous].exit_speed = block[previous + 1].entry_speed
    BY <1>1, <1>2 DEF ContinuousInv
  <2>2. CASE block[previous].is_ticking
    <3>1. /\ previous \in Numbers /\ previous \in 1 .. queued
          /\ iter = previous + 1 /\ iter \in Numbers
      BY <1>1, <1>3, <1>4, <2>2 DEF Typed, Numbers
    <3>2. previous = tail
      BY <1>1, <2>1, <2>2, <3>1 DEF Shape, FetchedInv, Typed
    <3>3. ~block[iter].is_ticking
      BY <1>1, <3>1, <3>2 DEF Shape, FetchedInv, Typed
    <3>4. \A i \in tail .. iter - 1 :
             block[i].exit_speed = block[i + 1].entry_speed
      BY <1>1, <2>1, <2>2, <3>1, <3>2 DEF Typed
    <3>5. \A i \in tail + 1 .. iter - 1 :
             block[i].initial_rate = block[i].entry_speed
      BY <1>1, <3>1, <3>2 DEF Typed
    <3>6. iter >= tail /\ pc' = "forward"
      BY <1>1, <1>4, <2>2, <3>1, <3>2 DEF Typed
    <3> QED
      BY <1>2, <1>4, <3>3, <3>4, <3>5, <3>6 DEF ContinuousInv
  <2>3. CASE ~block[previous].is_ticking
    BY <1>2, <1>4, <2>1, <2>3 DEF ContinuousInv
  <2> QED
    BY <2>2, <2>3
<1> QED
  BY <1>6, <1>7, <1>8, <1>9 DEF Plan

\* The profile that is written is the planned one, and the head is committed
\* with it.
LEMMA WritePlan ==
    ASSUME MinSpeed = 0, Shape, Plan, WriteTrapezoid
    PROVE  Plan'
<1> DEFINE p == previous
<1>1. Typed /\ MoveInv /\ EntryInv /\ ProfileInv /\ ContinuousInv
  BY ShapeTyped DEF Plan
<1>2. /\ pc = "write"
      /\ UNCHANGED <<tail, iter, previous, speed, preempts>>
      /\ IF p = head THEN pc' = "idle" /\ queued' = queued + 1
                     ELSE pc' = "forward" /\ queued' = queued
  BY DEF WriteTrapezoid, AfterTrapezoid
<1>3. /\ Len(block) = head /\ p \in Numbers /\ p \in 1 .. head
      /\ \/ p = head /\ iter = head
         \/ p \in 1 .. queued /\ iter = p + 1
  BY <1>1, <1>2 DEF Shape, PlaceInv, Typed, Numbers
<1>4. /\ Kept
      /\ \A i \in Numbers :
            /\ SameMove(block[i], block'[i])
            /\ SameFlags(block[i], block'[i])
            /\ block'[i].entry_speed = block[i].entry_speed
            /\ block'[i].initial_rate =
                  IF i = p THEN block[i].entry_speed
                           ELSE block[i].initial_rate
            /\ block'[i].exit_speed =
                  IF i = p THEN After(i) ELSE block[i].exit_speed
  BY WriteEffect
<1>5. /\ Numbers' = Numbers
      /\ \A i \in Numbers : /\ After(i)' = After(i)
                            /\ (Brakes(i)' <=> Brakes(i))
  <2>1. Numbers' = Numbers /\ Len(block') = Len(block)
    BY <1>4 DEF Kept, Numbers
  <2>2. ASSUME NEW i \in Numbers
        PROVE  After(i)' = After(i)
    <3>1. i # Len(block) => i + 1 \in Numbers
      BY <1>1 DEF Typed, Numbers
    <3> QED
      BY <1>4, <2>1, <3>1 DEF After
  <2> QED
    BY <1>4, <2>1, <2>2 DEF Brakes, SameMove
<1>6. MoveInv'
  <2>1. \A i \in Numbers : block'[i].entry_speed <= block'[i].max_entry_speed
    BY <1>1, <1>4 DEF MoveInv, SameMove
  <2> QED
    BY <1>1, <1>4, <2>1, MovesKept
<1>7. EntryInv'
  <2>1. \A i \in Numbers : ~block'[i].is_ticking => Brakes(i)'
    BY <1>1, <1>4, <1>5 DEF EntryInv, SameFlags
  <2>2. ~block'[iter].is_ticking =>
           /\ speed <= block'[iter].entry_speed + block'[iter].gain
           /\ block'[iter].entry_speed <= speed + block'[iter].gain
    <3>1. iter \in Numbers
      BY <1>1, <1>3 DEF Typed, Numbers
    <3> QED
      BY <1>1, <1>2, <1>4, <3>1 DEF EntryInv, SameFlags, SameMove
  <2>3. pc' = "idle" \/ pc' = "forward"
    BY <1>2
  <2> QED
    BY <1>2, <1>5, <2>1, <2>2, <2>3 DEF EntryInv
<1>8. /\ After(p) \in Nat /\ After(p) <= block[p].nominal_speed
      /\ p = head => After(p) = 0
      /\ p # head => p + 1 \in Numbers /\ After(p) = block[p + 1].entry_speed
  <2>1. CASE p = head
    BY <1>1, <1>3, <2>1 DEF After, Typed
  <2>2. CASE p # head
    <3>1. p + 1 \in Numbers /\ After(p) = block[p + 1].entry_speed
      BY <1>1, <1>3, <2>2 DEF After, Typed, Numbers
    <3>2. /\ block[p + 1].entry_speed <= block[p + 1].max_entry_speed
          /\ block[p + 1].max_entry_speed <= block[p].nominal_speed
          /\ block[p + 1].entry_speed \in Nat
          /\ block[p + 1].max_entry_speed \in Nat
          /\ block[p].nominal_speed \in Nat
      BY <1>1, <1>3, <3>1 DEF MoveInv, Typed
    <3> QED
      BY <2>2, <3>1, <3>2
  <2> QED
    BY <2>1, <2>2
<1>9. ProfileInv'
  <2>1. ASSUME NEW i \in 1 .. queued'
        PROVE  /\ block'[i].initial_rate <= block'[i].max_entry_speed
               /\ block'[i].exit_speed <=
                     block'[i].initial_rate + block'[i].gain
               /\ block'[i].initial_rate <=
                     block'[i].exit_speed + block'[i].gain
               /\ block'[i].exit_speed <= block'[i].nominal_speed
    <3>1. i \in Numbers
      BY <1>1, <1>2, <1>3, <2>1 DEF Typed, Numbers
    <3>2. CASE i = p
      <4>1. /\ block[i].entry_speed <= After(i) + block[i].gain
            /\ After(i) <= block[i].entry_speed + block[i].gain
        BY <1>1, <1>2, <3>2 DEF EntryInv, Brakes, Accelerates
      <4>2. block[i].entry_speed <= block[i].max_entry_speed
        BY <1>1, <3>1 DEF MoveInv
      <4> QED
        BY <1>4, <1>8, <3>1, <3>2, <4>1, <4>2 DEF SameMove
    <3>3. CASE i # p
      <4>1. i \in 1 .. queued
        BY <1>1, <1>2, <1>3, <2>1, <3>3 DEF Typed
      <4> QED
        BY <1>1, <1>4, <3>1, <3>3, <4>1 DEF ProfileInv, SameMove
    <3> QED
      BY <3>2, <3>3
  <2>2. pc' \in {"idle", "recalculate", "reverse"} =>
           block'[queued'].exit_speed = 0
    <3> SUFFICES ASSUME pc' = "idle" PROVE block'[queued'].exit_speed = 0
      BY <1>2
    <3>1. p = head /\ queued' = p
      BY <1>1, <1>2 DEF Typed
    <3> QED
      BY <1>3, <1>4, <1>8, <3>1
  <2> QED
    BY <2>1, <2>2 DEF ProfileInv
<1>10. ContinuousInv'
  <2> SUFFICES ASSUME preempts = 0 PROVE ContinuousInv'
    BY <1>2 DEF ContinuousInv
  <2>1. /\ p >= tail /\ ~block[p].is_ticking
        /\ \A i \in tail .. p - 1 :
              block[i].exit_speed = block[i + 1].entry_speed
        /\ \A i \in tail + 1 .. p - 1 :
              block[i].initial_rate = block[i].entry_speed
    BY <1>1, <1>2 DEF ContinuousInv
  <2>2. ASSUME NEW i \in tail .. p, i + 1 \in Numbers
        PROVE  /\ block'[i].exit_speed = block[i + 1].entry_speed
               /\ block'[i + 1].entry_speed = block[i + 1].entry_speed
    <3>1. i \in Numbers
      BY <1>1, <1>3, <2>2 DEF Typed, Numbers
    <3>2. CASE i = p
      <4>1. p # head
        BY <1>1, <1>3, <2>2, <3>2 DEF Typed, Numbers
      <4> QED
        BY <1>4, <1>8, <2>2, <3>1, <3>2, <4>1
    <3>3. CASE i # p
      <4>1. i \in tail .. p - 1
        BY <1>1, <1>3, <2>2, <3>3 DEF Typed
      <4> QED
        BY <1>4, <2>1, <2>2, <3>1, <3>3, <4>1
    <3> QED
      BY <3>2, <3>3
  <2>3. ASSUME NEW i \in tail + 1 .. p
        PROVE  block'[i].initial_rate = block'[i].entry_speed
    <3>1. i \in Numbers /\ (i = p \/ i \in tail + 1 .. p - 1)
      BY <1>1, <1>3, <2>3 DEF Typed, Numbers
    <3> QED
      BY <1>4, <2>1, <3>1
  <2>4. CASE p = head
    <3>1. pc' = "idle" /\ queued' = p /\ tail' = tail
      BY <1>1, <1>2, <2>4 DEF Typed
    <3>2. ASSUME NEW i \in tail .. p - 1
          PROVE  block'[i].exit_speed = block'[i + 1].initial_rate
      <4>1. i \in tail .. p /\ i + 1 \in Numbers /\ i + 1 \in tail + 1 .. p
        BY <1>1, <1>3, <3>2 DEF Typed, Numbers
      <4> QED
        BY <2>2, <2>3, <4>1
    <3> HIDE DEF p
    <3> QED
      BY <2>3, <3>1, <3>2 DEF ContinuousInv
  <2>5. CASE p # head
    <3>1. /\ pc' = "forward" /\ tail' = tail /\ iter' = p + 1 /\ p \in Nat
          /\ p + 1 \in Numbers
      BY <1>1, <1>2, <1>3, <2>5 DEF Typed, Numbers
    <3>2. ~block'[p + 1].is_ticking
      BY <1>1, <1>4, <2>1, <3>1
      DEF Shape, FetchedInv, SameFlags, Typed
    <3>3. \A i \in tail .. p + 1 - 1 :
             block'[i].exit_speed = block'[i + 1].entry_speed
      <4>1. \A i \in tail .. p : i + 1 \in Numbers
        BY <1>1, <1>3, <3>1 DEF Typed, Numbers
      <4> QED
        BY <2>2, <3>1, <4>1
    <3>4. \A i \in tail + 1 .. p + 1 - 1 :
             block'[i].initial_rate = block'[i].entry_speed
      BY <2>3, <3>1
    <3>5. p + 1 >= tail
      BY <1>1, <2>1, <3>1 DEF Typed
    <3> HIDE DEF p
    <3> QED
      BY <3>1, <3>2, <3>3, <3>4, <3>5 DEF ContinuousInv
  <2> QED
    BY <2>4, <2>5
<1> QED
  BY <1>6, <1>7, <1>9, <1>10 DEF Plan

\* A block that is fetched keeps its speeds. While recalculate() runs, it is
\* an interruption.
LEMMA FetchPlan ==
    ASSUME MinSpeed = 0, Shape, Plan, StartBlock \/ FinishBlock
    PROVE  Plan'
<1>1. Typed /\ MoveInv /\ EntryInv /\ ProfileInv /\ ContinuousInv
  BY ShapeTyped DEF Plan
<1>2. /\ UNCHANGED <<queued, pc, iter, previous, speed>>
      /\ tail' = tail \/ tail' = tail + 1
      /\ Interrupts /\ head' = head /\ queued <= Len(block)
  BY <1>1 DEF StartBlock, FinishBlock, head, Shape, PlaceInv, Typed
<1>3. PICK k \in Int : Fetches(k)
  <2>1. CASE StartBlock
    BY <1>1, <2>1, StartEffect DEF Typed
  <2>2. CASE FinishBlock
    BY <1>1, <2>2, FinishEffect DEF Typed
  <2> QED
    BY <2>1, <2>2
<1>4. /\ Kept
      /\ \A i \in Numbers :
            /\ SameMove(block[i], block'[i])
            /\ SameProfile(block[i], block'[i])
            /\ block'[i].entry_speed = block[i].entry_speed
            /\ block[i].is_ticking => block'[i].is_ticking
  BY <1>3 DEF Fetches
<1>5. /\ Numbers' = Numbers
      /\ \A i \in Numbers : /\ After(i)' = After(i)
                            /\ (Brakes(i)' <=> Brakes(i))
                            /\ (Accelerates(i)' <=> Accelerates(i))
  <2>1. Numbers' = Numbers /\ Len(block') = Len(block)
    BY <1>4 DEF Kept, Numbers
  <2>2. ASSUME NEW i \in Numbers
        PROVE  After(i)' = After(i)
    <3>1. i # Len(block) => i + 1 \in Numbers
      BY <1>1 DEF Typed, Numbers
    <3> QED
      BY <1>4, <2>1, <3>1 DEF After
  <2> QED
    BY <1>4, <2>1, <2>2 DEF Brakes, Accelerates, SameMove
<1>6. MoveInv'
  <2>1. \A i \in Numbers : block'[i].entry_speed <= block'[i].max_entry_speed
    BY <1>1, <1>4 DEF MoveInv, SameMove
  <2> QED
    BY <1>1, <1>4, <2>1, MovesKept
<1>7. /\ pc \in {"reverse", "forward", "trapezoid", "write"} =>
            iter \in Numbers /\ head \in Numbers
      /\ pc = "reverse" /\ iter # head => iter + 1 \in Numbers
      /\ pc \in {"trapezoid", "write"} => previous \in Numbers
  BY <1>1 DEF Shape, PlaceInv, Typed, Numbers
<1>8. EntryInv'
  <2>1. \A i \in Numbers : ~block'[i].is_ticking => Brakes(i)'
    BY <1>1, <1>4, <1>5 DEF EntryInv
  <2>2. pc = "reverse" =>
           speed = IF iter = head THEN 0 ELSE block'[iter + 1].entry_speed
    BY <1>1, <1>4, <1>7 DEF EntryInv
  <2>3. pc \in {"forward", "trapezoid", "write"} /\ ~block'[iter].is_ticking =>
           /\ speed <= block'[iter].entry_speed + block'[iter].gain
           /\ block'[iter].entry_speed <= speed + block'[iter].gain
    BY <1>1, <1>4, <1>7 DEF EntryInv, SameMove
  <2>4. /\ pc = "trapezoid" /\ ~block'[previous].is_ticking =>
              Accelerates(previous)'
        /\ pc = "write" => Brakes(previous)' /\ Accelerates(previous)'
    BY <1>1, <1>2, <1>4, <1>5, <1>7 DEF EntryInv
  <2> QED
    BY <1>2, <1>5, <2>1, <2>2, <2>3, <2>4 DEF EntryInv
<1>9. ProfileInv'
  BY <1>1, <1>2, <1>4, ProfilesKept
<1>10. ContinuousInv'
  <2> SUFFICES ASSUME preempts' = 0 PROVE ContinuousInv'
    BY DEF ContinuousInv
  <2>1. pc = "idle" /\ preempts = 0 /\ Len(block) = queued
    BY <1>1, <1>2 DEF Interrupts, Shape, PlaceInv, Typed
  <2>2. /\ \A i \in tail .. queued - 1 :
              block[i].exit_speed = block[i + 1].initial_rate
        /\ \A i \in tail + 1 .. queued :
              block[i].initial_rate = block[i].entry_speed
    BY <1>1, <2>1 DEF ContinuousInv
  <2>3. ASSUME NEW i \in tail' .. queued - 1
        PROVE  block'[i].exit_speed = block'[i + 1].initial_rate
    <3>1. /\ i \in tail .. queued - 1 /\ i \in Numbers /\ i + 1 \in Numbers
      BY <1>1, <1>2, <2>1, <2>3 DEF Typed, Numbers
    <3> QED
      BY <1>4, <2>2, <3>1 DEF SameProfile
  <2>4. ASSUME NEW i \in tail' + 1 .. queued
        PROVE  block'[i].initial_rate = block'[i].entry_speed
    <3>1. i \in tail + 1 .. queued /\ i \in Numbers
      BY <1>1, <1>2, <2>1, <2>4 DEF Typed, Numbers
    <3> QED
      BY <1>4, <2>2, <3>1 DEF SameProfile
  <2> QED
    BY <1>2, <2>1, <2>3, <2>4 DEF ContinuousInv
<1> QED
  BY <1>6, <1>8, <1>9, <1>10 DEF Plan

\* Every step keeps the plan.
LEMMA StepPlan ==
    ASSUME MinSpeed = 0, Shape, Plan, [Next]_vars
    PROVE  Plan'
<1>1. CASE UNCHANGED vars
  <2>1. Numbers' = Numbers /\ \A i : /\ (Brakes(i)' <=> Brakes(i))
                                     /\ (Accelerates(i)' <=> Accelerates(i))
    BY <1>1 DEF vars, Numbers, After, Brakes, Accelerates
  <2>2. MoveInv' /\ EntryInv' /\ ProfileInv' /\ ContinuousInv'
    BY <1>1, <2>1
    DEF Plan, vars, MoveInv, EntryInv, ProfileInv, ContinuousInv, head
  <2> QED
    BY <2>2 DEF Plan
<1> QED
  BY <1>1, AppendPlan, RecalculatePlan, ReversePlan, TurnPlan, ForwardPlan,
     TrapezoidPlan, WritePlan, FetchPlan
  DEF Next

-----------------------------------------------------------------------------
(***************************************************************************)
(* The fastest plan.                                                       *)
(***************************************************************************)

\* What fixes the speed at a junction: its own limit, full acceleration
\* through the block before it or full braking through the block itself.
AtLimit(i) == block[i].entry_speed = block[i].max_entry_speed

Pushed(i) ==
    block[i].entry_speed = block[i - 1].entry_speed + block[i - 1].gain

Braked(i) == block[i].entry_speed = After(i) + block[i].gain

\* The junctions after a block that has yet to start.
Behind == {i \in Numbers : i > 1 /\ ~block[i - 1].is_ticking}

\* The reverse pass has been there.
RaisedInv ==
    \A i \in Numbers : i > iter =>
        block[i].recalculate_flag /\ (AtLimit(i) \/ Braked(i))

\* Without its flag a block enters as fast as it may whatever follows it.
SettledInv(last) ==
    \A i \in Behind : i <= last /\ ~block[i].recalculate_flag =>
        AtLimit(i) \/ Pushed(i)

TightInv(last) ==
    \A i \in Behind : i <= last => AtLimit(i) \/ Pushed(i) \/ Braked(i)

\* Without interruptions: a tail that has not started starts at rest; every
\* speed is fixed by something, but for those around the place of a walk.
FastestInv ==
    /\ \A i \in Numbers : block[i].gain > 0
    /\ preempts = 0 =>
        /\ tail \in Numbers /\ ~block[tail].is_ticking =>
              block[tail].max_entry_speed = MinSpeed
        /\ pc = "idle" => SettledInv(queued) /\ TightInv(queued)
        /\ pc = "recalculate" => SettledInv(queued) /\ TightInv(queued - 1)
        /\ pc = "reverse" =>
              /\ RaisedInv /\ SettledInv(least(iter, queued))
              /\ TightInv(least(iter, queued) - 1)
        /\ pc \in {"forward", "trapezoid", "write"} =>
              /\ RaisedInv /\ SettledInv(iter) /\ TightInv(head)
              /\ iter # head /\ ~block[iter].is_ticking =>
                    speed = max_exit_speed(block[iter])

\* A step that changes no entry speed changes nothing of what fixes them.
LEMMA SpeedsKept ==
    ASSUME Typed, Kept,
           \A i \in Numbers : /\ SameMove(block[i], block'[i])
                              /\ block'[i].entry_speed = block[i].entry_speed
    PROVE  /\ Numbers' = Numbers
           /\ \A i \in Numbers : /\ AtLimit(i)' <=> AtLimit(i)
                                 /\ Braked(i)' <=> Braked(i)
                                 /\ i > 1 => (Pushed(i)' <=> Pushed(i))
<1>1. Numbers' = Numbers /\ Len(block') = Len(block)
  BY DEF Kept, Numbers
<1>2. ASSUME NEW i \in Numbers
      PROVE  /\ AtLimit(i)' <=> AtLimit(i)
             /\ Braked(i)' <=> Braked(i)
             /\ i > 1 => (Pushed(i)' <=> Pushed(i))
  <2>1. /\ i # Len(block) => i + 1 \in Numbers
        /\ i > 1 => i - 1 \in Numbers
    BY DEF Typed, Numbers
  <2>2. After(i)' = After(i)
    BY <1>1, <2>1 DEF After
  <2> QED
    BY <2>1, <2>2 DEF AtLimit, Braked, Pushed, SameMove
<1> QED
  BY <1>1, <1>2

\* Init establishes it.
LEMMA InitFastest == Init => FastestInv
<1> SUFFICES ASSUME Init PROVE FastestInv
  OBVIOUS
<1>1. Numbers = {} /\ pc = "idle"
  BY DEF Init, Numbers
<1>2. Behind = {}
  BY <1>1 DEF Behind
<1> QED
  BY <1>1, <1>2 DEF FastestInv, SettledInv, TightInv

\* A new block changes only what follows the last one.
LEMMA AppendFastest ==
    ASSUME MinSpeed = 0, Shape, Plan, FastestInv,
           NEW gain \in Gains, NEW nominal \in Nominals,
           Append_block(gain, nominal)
    PROVE  FastestInv'
<1>1. Typed
  BY ShapeTyped
<1>2. /\ pc = "idle" /\ pc' = "recalculate"
      /\ UNCHANGED <<tail, queued, iter, previous, speed, preempts>>
  BY DEF Append_block
<1>3. /\ Len(block') = queued + 1 /\ Len(block) = queued /\ head = queued + 1
      /\ \A i \in Numbers : block'[i] = block[i]
      /\ block'[head].max_entry_speed \in Junctions(nominal)
      /\ block'[head].gain = gain /\ gain > 0 /\ gain \in Nat
  BY AppendEffect, <1>1, PlannerAssumption DEF Typed
<1>4. Numbers' = 1 .. queued + 1 /\ Numbers = 1 .. queued
  BY <1>3 DEF Numbers
<1>5. \A i \in Numbers' : block'[i].gain > 0
  BY <1>1, <1>3, <1>4 DEF FastestInv, Typed
<1>6. ASSUME preempts = 0, tail \in Numbers', ~block'[tail].is_ticking
      PROVE  block'[tail].max_entry_speed = 0
  <2>1. CASE isEmpty
    BY <1>3, <2>1 DEF isEmpty, Junctions
  <2>2. CASE ~isEmpty
    <3>1. tail \in Numbers
      BY <1>1, <1>3, <1>4, <1>6, <2>2 DEF isEmpty, Typed
    <3> QED
      BY <1>3, <1>6, <3>1 DEF FastestInv
  <2> QED
    BY <2>1, <2>2
<1>7. ASSUME NEW i \in Behind', i <= queued
      PROVE  /\ i \in Behind /\ block'[i] = block[i]
             /\ (AtLimit(i)' <=> AtLimit(i)) /\ (Pushed(i)' <=> Pushed(i))
             /\ i <= queued - 1 => (Braked(i)' <=> Braked(i))
  <2>1. /\ i \in Numbers /\ i - 1 \in Numbers
        /\ i <= queued - 1 => i + 1 \in Numbers /\ i # queued /\ i # queued + 1
        /\ i > 1
    BY <1>1, <1>4, <1>7 DEF Behind, Typed
  <2>2. block'[i] = block[i] /\ block'[i - 1] = block[i - 1]
    BY <1>3, <2>1
  <2>3. i \in Behind
    BY <1>7, <2>1, <2>2 DEF Behind
  <2>4. i <= queued - 1 => After(i)' = After(i)
    BY <1>3, <2>1 DEF After
  <2> QED
    BY <2>2, <2>3, <2>4 DEF AtLimit, Pushed, Braked
<1>8. preempts = 0 => SettledInv(queued)'
  BY <1>2, <1>7 DEF FastestInv, SettledInv
<1>9. preempts = 0 => TightInv(queued - 1)'
  BY <1>1, <1>2, <1>4, <1>7 DEF FastestInv, TightInv, Typed, Behind
<1> QED
  BY <1>2, <1>5, <1>6, <1>8, <1>9 DEF FastestInv

\* When the tail is the head there is no junction behind it.
LEMMA NoneBehind ==
    ASSUME Typed, Shape, tail = head, Len(block) = head
    PROVE  Behind = {}
BY DEF Behind, Shape, FetchedInv, Typed, Numbers

LEMMA RecalculateFastest ==
    ASSUME MinSpeed = 0, Shape, Plan, FastestInv, Recalculate
    PROVE  FastestInv'
<1>1. Typed
  BY ShapeTyped
<1>2. /\ pc = "recalculate" /\ iter' = head /\ speed' = 0
      /\ UNCHANGED <<block, tail, queued, preempts>> /\ head' = head
      /\ pc' = IF tail = head THEN "trapezoid" ELSE "reverse"
  BY DEF Recalculate, isEmpty, head
<1>3. /\ Len(block) = head /\ head \in Numbers /\ head = queued + 1
      /\ queued \in Nat
  BY <1>1, <1>2 DEF Shape, PlaceInv, Typed, Numbers
<1>4. /\ Numbers' = Numbers /\ Behind' = Behind
      /\ \A i : /\ AtLimit(i)' <=> AtLimit(i)
                /\ Pushed(i)' <=> Pushed(i)
                /\ Braked(i)' <=> Braked(i)
  BY <1>2 DEF Numbers, Behind, AtLimit, Pushed, Braked, After
<1>5. RaisedInv'
  BY <1>2, <1>3, <1>4 DEF RaisedInv, Numbers
<1>6. least(head, queued) = queued
  BY <1>3 DEF least
<1> SUFFICES ASSUME preempts = 0 PROVE FastestInv'
  BY <1>2, <1>4 DEF FastestInv
<1>7. /\ SettledInv(queued) /\ TightInv(queued - 1)
      /\ tail \in Numbers /\ ~block[tail].is_ticking =>
            block[tail].max_entry_speed = 0
      /\ \A i \in Numbers : block[i].gain > 0
  BY <1>2 DEF FastestInv
<1>8. CASE tail # head
  <2>1. SettledInv(least(iter, queued))' /\ TightInv(least(iter, queued) - 1)'
    BY <1>2, <1>4, <1>6, <1>7 DEF SettledInv, TightInv
  <2> QED
    BY <1>2, <1>4, <1>5, <1>7, <1>8, <2>1 DEF FastestInv
<1>9. CASE tail = head
  <2>1. Behind' = {}
    BY <1>1, <1>3, <1>4, <1>9, NoneBehind
  <2>2. SettledInv(iter)' /\ TightInv(head)'
    BY <2>1 DEF SettledInv, TightInv
  <2> QED
    BY <1>2, <1>4, <1>5, <1>7, <1>9, <2>2 DEF FastestInv
<1> QED
  BY <1>8, <1>9

\* What the reverse pass leaves is a limit, or full braking.
LEMMA ReverseRaises ==
    ASSUME NEW b \in Blocks, NEW exit \in Nat
    PROVE  \/ reverse_pass(b, exit) = b.max_entry_speed
           \/ reverse_pass(b, exit) = exit + b.gain
BY BlockFields DEF reverse_pass, least, max_allowable_speed

\* The reverse pass fixes the speed of one more junction, and disturbs the one
\* before it.
LEMMA ReverseFastest ==
    ASSUME MinSpeed = 0, Shape, Plan, FastestInv, Reverse
    PROVE  FastestInv'
<1> DEFINE entry == reverse_pass(block[iter], speed)
<1>1. Typed /\ EntryInv
  BY ShapeTyped DEF Plan
<1>2. /\ pc = "reverse" /\ block[iter].recalculate_flag
      /\ iter' = iter - 1
      /\ UNCHANGED <<tail, queued, pc, previous, preempts>> /\ head' = head
  BY DEF Reverse, head
<1>3. /\ Kept /\ entry \in Nat /\ speed' = entry /\ iter \in Numbers
      /\ \A i \in Numbers :
            /\ SameMove(block[i], block'[i])
            /\ SameFlags(block[i], block'[i])
            /\ block'[i].entry_speed =
                  IF i = iter THEN entry ELSE block[i].entry_speed
  BY ReverseEffect
<1>4. /\ Len(block) = head /\ iter \in 1 .. head /\ head = queued + 1
      /\ Numbers = 1 .. head /\ Numbers' = Numbers /\ Len(block') = head
      /\ queued \in Nat
  BY <1>1, <1>2, <1>3 DEF Shape, PlaceInv, Typed, Numbers, Kept
<1>5. After(iter) = speed
  BY <1>1, <1>2, <1>4 DEF EntryInv, After
<1>6. entry = block[iter].max_entry_speed \/ entry = speed + block[iter].gain
  BY <1>1, <1>3, ReverseRaises DEF Typed
<1> HIDE DEF entry
<1>7. ASSUME NEW i \in Numbers
      PROVE  /\ i # iter => (AtLimit(i)' <=> AtLimit(i))
             /\ i > 1 /\ i < iter => (Pushed(i)' <=> Pushed(i))
             /\ i + 1 # iter => After(i)' = After(i)
             /\ i # iter /\ i + 1 # iter => (Braked(i)' <=> Braked(i))
             /\ (block'[i].recalculate_flag <=> block[i].recalculate_flag)
  <2>1. /\ i # head => i + 1 \in Numbers
        /\ i > 1 => i - 1 \in Numbers
        /\ i < iter => i - 1 # iter
    BY <1>4
  <2>2. i + 1 # iter => After(i)' = After(i)
    BY <1>3, <1>4, <2>1 DEF After
  <2>3. i # iter => (AtLimit(i)' <=> AtLimit(i))
    BY <1>3 DEF AtLimit, SameMove
  <2>4. i > 1 /\ i < iter => (Pushed(i)' <=> Pushed(i))
    BY <1>3, <1>4, <2>1 DEF Pushed, SameMove
  <2>5. i # iter /\ i + 1 # iter => (Braked(i)' <=> Braked(i))
    BY <1>3, <2>2 DEF Braked, SameMove
  <2>6. block'[i].recalculate_flag <=> block[i].recalculate_flag
    BY <1>3 DEF SameFlags
  <2> QED
    BY <2>2, <2>3, <2>4, <2>5, <2>6
<1>8. Behind' = Behind
  <2>1. \A i \in Numbers : i > 1 => i - 1 \in Numbers
    BY <1>4
  <2> QED
    BY <1>3, <1>4, <2>1 DEF Behind, SameFlags
<1>9. \A i \in Numbers' : block'[i].gain > 0
  BY <1>3, <1>4 DEF FastestInv, SameMove
<1> SUFFICES ASSUME preempts = 0 PROVE FastestInv'
  BY <1>2, <1>9 DEF FastestInv
<1>10. /\ RaisedInv /\ SettledInv(least(iter, queued))
       /\ TightInv(least(iter, queued) - 1)
       /\ tail \in Numbers /\ ~block[tail].is_ticking =>
             block[tail].max_entry_speed = 0
  BY <1>2 DEF FastestInv
<1>11. RaisedInv'
  <2>1. ASSUME NEW i \in Numbers, i > iter - 1
        PROVE  block'[i].recalculate_flag /\ (AtLimit(i)' \/ Braked(i)')
    <3>1. CASE i = iter
      <4>1. block'[i].entry_speed = entry /\ SameMove(block[i], block'[i])
        BY <1>3, <3>1
      <4>2. After(i)' = speed
        BY <1>4, <1>5, <1>7, <3>1
      <4> QED
        BY <1>2, <1>6, <1>7, <3>1, <4>1, <4>2 DEF AtLimit, Braked, SameMove
    <3>2. CASE i # iter
      <4>1. i > iter /\ i + 1 # iter
        BY <1>4, <2>1, <3>2
      <4> QED
        BY <1>7, <1>10, <3>2, <4>1 DEF RaisedInv
    <3> QED
      BY <3>1, <3>2
  <2> QED
    BY <1>2, <1>4, <2>1 DEF RaisedInv
<1>12. least(iter', queued) = iter - 1 /\ iter - 1 <= least(iter, queued)
  BY <1>2, <1>4 DEF least
<1>13. ASSUME NEW i \in Behind, i <= iter - 1
       PROVE  /\ i \in Numbers /\ i <= least(iter, queued)
              /\ (AtLimit(i)' <=> AtLimit(i)) /\ (Pushed(i)' <=> Pushed(i))
              /\ (block'[i].recalculate_flag <=> block[i].recalculate_flag)
              /\ i <= iter - 1 - 1 =>
                    /\ i <= least(iter, queued) - 1
                    /\ (Braked(i)' <=> Braked(i))
  <2>1. i \in Numbers /\ i > 1
    BY DEF Behind
  <2>2. /\ i < iter /\ i # iter /\ (i <= iter - 1 - 1 => i + 1 # iter)
        /\ i <= least(iter, queued)
        /\ i <= iter - 1 - 1 => i <= least(iter, queued) - 1
    BY <1>4, <1>13, <2>1 DEF least
  <2> QED
    BY <1>7, <2>1, <2>2
<1>14. SettledInv(least(iter, queued))'
  BY <1>2, <1>8, <1>10, <1>12, <1>13 DEF SettledInv
<1>15. TightInv(least(iter, queued) - 1)'
  <2>1. ASSUME NEW i \in Behind, i <= iter - 1 - 1
        PROVE  AtLimit(i)' \/ Pushed(i)' \/ Braked(i)'
    <3>1. i <= iter - 1
      BY <1>4, <2>1 DEF Behind
    <3> QED
      BY <1>10, <1>13, <2>1, <3>1 DEF TightInv
  <2> QED
    BY <1>2, <1>8, <1>12, <2>1 DEF TightInv
<1>16. tail' \in Numbers' /\ ~block'[tail].is_ticking =>
          block'[tail].max_entry_speed = 0
  BY <1>2, <1>3, <1>4, <1>10 DEF SameMove, SameFlags
<1> QED
  BY <1>2, <1>9, <1>11, <1>14, <1>15, <1>16 DEF FastestInv

\* Where the walk turns, the speed does not depend on what was raised.
LEMMA TurnFastest ==
    ASSUME MinSpeed = 0, Shape, Plan, FastestInv, Turn
    PROVE  FastestInv'
<1>1. Typed /\ ContinuousInv
  BY ShapeTyped DEF Plan
<1>2. /\ pc = "reverse" /\ pc' = "forward"
      /\ iter = tail \/ ~block[iter].recalculate_flag
      /\ speed' = max_exit_speed(block[iter])
      /\ UNCHANGED <<block, tail, queued, iter, previous, preempts>>
      /\ head' = head
  BY DEF Turn, head
<1>3. /\ Len(block) = head /\ iter \in Numbers /\ head = queued + 1
      /\ iter \in 1 .. head /\ block[head].recalculate_flag
      /\ Numbers = 1 .. head /\ queued \in Nat
  BY <1>1, <1>2 DEF Shape, PlaceInv, Typed, Numbers
<1>4. /\ Numbers' = Numbers /\ Behind' = Behind
      /\ \A i : /\ AtLimit(i)' <=> AtLimit(i)
                /\ Pushed(i)' <=> Pushed(i)
                /\ Braked(i)' <=> Braked(i)
  BY <1>2 DEF Numbers, Behind, AtLimit, Pushed, Braked, After
<1> SUFFICES ASSUME preempts = 0 PROVE FastestInv'
  BY <1>2, <1>4 DEF FastestInv
<1>5. /\ RaisedInv /\ SettledInv(least(iter, queued))
      /\ TightInv(least(iter, queued) - 1)
      /\ tail \in Numbers /\ ~block[tail].is_ticking =>
            block[tail].max_entry_speed = 0
      /\ \A i \in Numbers : block[i].gain > 0
  BY <1>2 DEF FastestInv
<1>6. ASSUME NEW i \in Behind
      PROVE  i \in Numbers /\ i > tail
  BY <1>1, <1>3 DEF Behind, Shape, FetchedInv, Typed
<1>7. ASSUME NEW i \in Behind, i <= iter
      PROVE  /\ i <= least(iter, queued)
             /\ i = iter => ~block[i].recalculate_flag
             /\ i # iter => i <= least(iter, queued) - 1
  <2>1. i \in Numbers /\ i > tail
    BY <1>6
  <2>2. iter # tail /\ iter # head
    BY <1>1, <1>2, <1>3, <1>7, <2>1 DEF Typed
  <2> QED
    BY <1>2, <1>3, <1>7, <2>1, <2>2 DEF least
<1>8. SettledInv(iter)
  BY <1>5, <1>7 DEF SettledInv
<1>9. TightInv(head)
  <2>1. ASSUME NEW i \in Behind
        PROVE  AtLimit(i) \/ Pushed(i) \/ Braked(i)
    <3>1. CASE i > iter
      BY <1>5, <1>6, <3>1 DEF RaisedInv
    <3>2. CASE i = iter
      BY <1>3, <1>5, <1>7, <3>2 DEF SettledInv
    <3>3. CASE ~(i > iter) /\ i # iter
      <4>1. i <= iter
        BY <1>3, <1>6, <3>3
      <4> QED
        BY <1>5, <1>7, <3>3, <4>1 DEF TightInv
    <3> QED
      BY <3>1, <3>2, <3>3
  <2> QED
    BY <2>1 DEF TightInv
<1>10. RaisedInv' /\ SettledInv(iter)' /\ TightInv(head)'
  BY <1>2, <1>4, <1>5, <1>8, <1>9 DEF RaisedInv, SettledInv, TightInv
<1> QED
  BY <1>2, <1>4, <1>5, <1>10 DEF FastestInv

\* The forward pass takes the flag of a block only when it fixes its speed.
LEMMA ForwardSettles ==
    ASSUME NEW b \in Blocks, NEW exit \in Nat, b.recalculate_flag,
           b.max_entry_speed <= b.nominal_speed
    PROVE  LET c == forward_pass(b, exit)
           IN  \/ c = b
               \/ c.entry_speed = least(exit, b.max_entry_speed)
<1> DEFINE new == least(exit, least(b.nominal_speed, b.max_entry_speed))
           c == [b EXCEPT !.entry_speed = new, !.recalculate_flag = FALSE]
<1>1. new = least(exit, b.max_entry_speed)
  BY BlockFields DEF least
<1>2. CASE new <= b.entry_speed
  <2>1. forward_pass(b, exit) = c
    BY <1>2 DEF forward_pass
  <2> HIDE DEF new
  <2>2. c.entry_speed = new
    BY DEF Blocks
  <2> QED
    BY <1>1, <2>1, <2>2
<1>3. CASE ~(new <= b.entry_speed)
  BY <1>3 DEF forward_pass
<1> QED
  BY <1>2, <1>3

\* The forward pass changes the block ahead and nothing else.
LEMMA ForwardOnly ==
    ASSUME Shape, Forward, iter # head
    PROVE  LET n == iter + 1
           IN  /\ block'[n] = forward_pass(block[n], speed)
               /\ \A i \in Numbers : i # n => block'[i] = block[i]
<1> DEFINE n == iter + 1
           b == forward_pass(block[n], speed)
<1>1. block \in Seq(Blocks) /\ speed \in Nat /\ queued \in Nat
  BY DEF Shape, TypeOK
<1>2. n \in Numbers
  BY <1>1 DEF Shape, PlaceInv, Forward, Numbers, head
<1>3. block[n] \in Blocks
  BY <1>1, <1>2 DEF Numbers
<1>4. b \in Blocks
  BY <1>1, <1>3, ForwardPass
<1>5. block' = [block EXCEPT ![n] = b]
  BY DEF Forward
<1> HIDE DEF b
<1>6. block'[n] = b /\ \A i \in Numbers : i # n => block'[i] = block[i]
  BY <1>1, <1>2, <1>4, <1>5, ReplaceBlock
<1> QED
  BY <1>6 DEF b

\* A speed the forward pass lowers is the one that full acceleration through
\* the block before leads to, and then that block does not brake at full.
LEMMA ForwardFastest ==
    ASSUME MinSpeed = 0, Shape, Plan, FastestInv, Forward
    PROVE  FastestInv'
<1>1. Typed /\ MoveInv /\ EntryInv /\ ContinuousInv
  BY ShapeTyped DEF Plan
<1>2. /\ pc = "forward" /\ pc' = "trapezoid"
      /\ UNCHANGED <<tail, queued, preempts>> /\ head' = head
  BY DEF Forward, head
<1>3. /\ Len(block) = head /\ iter \in Numbers /\ head = queued + 1
      /\ iter \in 1 .. head /\ Numbers = 1 .. head /\ queued \in Nat
  BY <1>1, <1>2 DEF Shape, PlaceInv, Typed, Numbers
<1>4. /\ \A i \in Numbers : block[i].gain > 0
      /\ preempts = 0 =>
            /\ RaisedInv /\ SettledInv(iter) /\ TightInv(head)
            /\ tail \in Numbers /\ ~block[tail].is_ticking =>
                  block[tail].max_entry_speed = 0
            /\ iter # head /\ ~block[iter].is_ticking =>
                  speed = max_exit_speed(block[iter])
  BY <1>2 DEF FastestInv
<1>5. CASE iter = head
  <2>1. UNCHANGED <<block, iter, speed>>
    BY <1>5 DEF Forward
  <2>2. /\ Numbers' = Numbers /\ Behind' = Behind
        /\ \A i : /\ AtLimit(i)' <=> AtLimit(i)
                  /\ Pushed(i)' <=> Pushed(i)
                  /\ Braked(i)' <=> Braked(i)
    BY <2>1 DEF Numbers, Behind, AtLimit, Pushed, Braked, After
  <2> QED
    BY <1>2, <1>4, <2>1, <2>2
    DEF FastestInv, RaisedInv, SettledInv, TightInv
<1>6. CASE iter # head
  <2>1. PICK k \in Int : k = iter
    BY <1>3
  <2>2. /\ k \in Numbers /\ k \in 1 .. head /\ k # head
        /\ preempts = 0 =>
              /\ SettledInv(k)
              /\ ~block[k].is_ticking => speed = max_exit_speed(block[k])
    BY <1>3, <1>4, <1>6, <2>1
  <2> DEFINE n == k + 1
             e == block'[n].entry_speed
  <2>3. /\ Kept /\ speed' = max_exit_speed(block'[n])
        /\ n \in Numbers /\ iter' = n
        /\ \A i \in Numbers :
              /\ SameMove(block[i], block'[i])
              /\ block'[i].is_ticking = block[i].is_ticking
        /\ e = Followed(block[n], speed)
    BY <1>6, <2>1, ForwardEffect
  <2>4. /\ block'[n] = forward_pass(block[n], speed)
        /\ \A i \in Numbers : i # n => block'[i] = block[i]
    BY <1>6, <2>1, ForwardOnly
  <2>5. /\ block[n].entry_speed <= block[n].max_entry_speed
        /\ block[n].max_entry_speed <= block[n].nominal_speed
        /\ block[n].max_entry_speed <= block[k].nominal_speed
        /\ block[n] \in Blocks /\ block[k] \in Blocks
    BY <1>1, <1>3, <2>2, <2>3 DEF MoveInv, Typed
  <2>6. e \in Nat /\ e = least(speed, block[n].entry_speed)
    BY <1>1, <2>3, <2>5, FollowedSpeed DEF Typed
  <2>7. /\ Numbers' = Numbers /\ Len(block') = head
        /\ n # k /\ n \in Int
    BY <1>3, <2>3 DEF Kept, Numbers
  <2>8. Behind' = Behind
    <3>1. \A i \in Numbers : i > 1 => i - 1 \in Numbers
      BY <1>3
    <3> QED
      BY <2>3, <2>7, <3>1 DEF Behind
  <2> HIDE DEF n, e
  <2>9. ASSUME NEW i \in Numbers
        PROVE  /\ i # n => (AtLimit(i)' <=> AtLimit(i))
               /\ i > 1 /\ i < n => (Pushed(i)' <=> Pushed(i))
               /\ i # k => After(i)' = After(i)
               /\ i # k /\ i # n => (Braked(i)' <=> Braked(i))
    <3>1. /\ i # head => i + 1 \in Numbers
          /\ i > 1 => i - 1 \in Numbers
          /\ i < n => i - 1 # n /\ i # n
          /\ i # k => i + 1 # n
      BY <1>3 DEF n
    <3>2. i # k => After(i)' = After(i)
      BY <1>3, <2>4, <2>7, <3>1 DEF After
    <3>3. i # n => (AtLimit(i)' <=> AtLimit(i))
      BY <2>4 DEF AtLimit
    <3>4. i > 1 /\ i < n => (Pushed(i)' <=> Pushed(i))
      BY <2>4, <3>1 DEF Pushed
    <3>5. i # k /\ i # n => (Braked(i)' <=> Braked(i))
      BY <2>4, <3>2 DEF Braked
    <3> QED
      BY <3>2, <3>3, <3>4, <3>5
  <2>10. \A i \in Numbers' : block'[i].gain > 0
    BY <1>4, <2>3, <2>7 DEF SameMove
  <2> SUFFICES ASSUME preempts = 0 PROVE FastestInv'
    BY <1>2, <2>10 DEF FastestInv
  <2>11. /\ RaisedInv /\ SettledInv(k) /\ TightInv(head)
    BY <1>4, <2>2
  <2>12. block[n].recalculate_flag /\ (AtLimit(n) \/ Braked(n))
    BY <1>3, <2>1, <2>2, <2>3, <2>11 DEF RaisedInv, n
  <2>13. RaisedInv'
    <3>1. ASSUME NEW i \in Numbers, i > n
          PROVE  block'[i].recalculate_flag /\ (AtLimit(i)' \/ Braked(i)')
      <4>1. i # n /\ i # k /\ i > iter
        BY <1>3, <2>1, <3>1 DEF n
      <4> QED
        BY <2>4, <2>9, <2>11, <4>1 DEF RaisedInv
    <3> QED
      BY <2>3, <2>7, <3>1 DEF RaisedInv
  \* The exit speed of a block that has yet to start.
  <2>14. ASSUME ~block[k].is_ticking
         PROVE  /\ speed = block[k].entry_speed + block[k].gain
                   \/ speed >= block[n].max_entry_speed
                /\ speed >= block[n].entry_speed
                   \/ speed = block[k].entry_speed + block[k].gain
    <3>1. speed = max_exit_speed(block[k])
      BY <2>2, <2>14
    <3> QED
      BY <2>5, <2>14, <3>1, BlockFields
      DEF max_exit_speed, max_allowable_speed, least
  <2>15. /\ block[k].entry_speed \in Nat /\ block[k].gain \in Nat
         /\ block[k].gain > 0 /\ speed \in Nat
         /\ block[n].entry_speed \in Nat /\ block[n].max_entry_speed \in Nat
         /\ block'[k] = block[k]
         /\ block'[n].max_entry_speed = block[n].max_entry_speed
    BY <1>1, <1>3, <1>4, <2>2, <2>3, <2>4, <2>7 DEF Typed, SameMove
  <2>16. ASSUME n \in Behind
         PROVE  /\ block'[n] = block[n] \/ AtLimit(n)' \/ Pushed(n)'
                /\ AtLimit(n)' \/ Pushed(n)' \/ Braked(n)'
    <3>1. ~block[k].is_ticking /\ n - 1 = k
      BY <1>3, <2>16 DEF Behind, n
    <3>2. \/ block'[n] = block[n]
          \/ e = least(speed, block[n].max_entry_speed)
      BY <1>1, <2>4, <2>5, <2>12, ForwardSettles DEF Typed, e
    <3>3. \/ block'[n] = block[n]
          \/ AtLimit(n)' \/ Pushed(n)'
      <4> SUFFICES ASSUME e = least(speed, block[n].max_entry_speed)
                   PROVE  AtLimit(n)' \/ Pushed(n)'
        BY <3>2
      <4>1. \/ e = block[n].max_entry_speed
            \/ e = block[k].entry_speed + block[k].gain
        BY <2>14, <2>15, <3>1 DEF least
      <4> QED
        BY <2>7, <2>15, <3>1, <4>1 DEF AtLimit, Pushed, e, n
    <3>4. block'[n] = block[n] => (AtLimit(n)' \/ Braked(n)')
      <4> SUFFICES ASSUME block'[n] = block[n] PROVE AtLimit(n)' \/ Braked(n)'
        OBVIOUS
      <4>1. After(n)' = After(n)
        BY <2>3, <2>7, <2>9
      <4> QED
        BY <2>12, <4>1 DEF AtLimit, Braked
    <3> QED
      BY <3>3, <3>4
  <2>17. ASSUME k \in Behind, Braked(k)
         PROVE  Braked(k)'
    <3>1. ~block[k].is_ticking
      BY <1>1, <1>3, <2>17 DEF Behind, Shape, FetchedInv, Typed
    <3>2. After(k) = block[n].entry_speed /\ After(k)' = e
      BY <1>3, <2>2, <2>7 DEF After, n, e
    <3>3. block[k].entry_speed = block[n].entry_speed + block[k].gain
      BY <2>17, <3>2 DEF Braked
    <3>4. e = block[n].entry_speed
      BY <2>6, <2>14, <2>15, <3>1, <3>3 DEF least
    <3> QED
      BY <2>15, <3>2, <3>3, <3>4 DEF Braked
  <2>18. ASSUME NEW i \in Behind, i < n
         PROVE  /\ i \in Numbers /\ i > 1 /\ i <= k /\ i # n
                /\ (AtLimit(i)' <=> AtLimit(i)) /\ (Pushed(i)' <=> Pushed(i))
                /\ Braked(i) => Braked(i)'
                /\ block'[i] = block[i]
    <3>1. i \in Numbers /\ i > 1 /\ i <= k /\ i # n
      BY <1>3, <2>18 DEF Behind, n
    <3> QED
      BY <2>4, <2>9, <2>17, <2>18, <3>1
  <2>19. SettledInv(n)'
    <3>1. ASSUME NEW i \in Behind, i <= n, ~block'[i].recalculate_flag
          PROVE  AtLimit(i)' \/ Pushed(i)'
      <4>1. CASE i = n
        BY <2>12, <2>16, <3>1, <4>1
      <4>2. CASE i # n
        <5>1. i < n
          BY <1>3, <2>7, <3>1, <4>2 DEF Behind
        <5> QED
          BY <2>11, <2>18, <3>1, <5>1 DEF SettledInv
      <4> QED
        BY <4>1, <4>2
    <3> HIDE DEF SettledInv
    <3> QED
      BY <2>3, <2>7, <2>8, <3>1 DEF SettledInv, n
  <2>20. TightInv(head)'
    <3>1. ASSUME NEW i \in Behind
          PROVE  AtLimit(i)' \/ Pushed(i)' \/ Braked(i)'
      <4>1. i \in Numbers /\ i \in 1 .. head
        BY <1>3 DEF Behind
      <4>2. CASE i = n
        BY <2>16, <4>2
      <4>3. CASE i < n
        BY <2>11, <2>18, <4>1, <4>3 DEF TightInv
      <4>4. CASE i > n
        BY <2>3, <2>7, <2>13, <4>1, <4>4 DEF RaisedInv
      <4> QED
        BY <2>7, <4>1, <4>2, <4>3, <4>4
    <3> QED
      BY <2>8, <3>1 DEF TightInv
  <2>21. tail' \in Numbers' /\ ~block'[tail].is_ticking =>
            block'[tail].max_entry_speed = 0
    BY <1>2, <1>4, <2>3, <2>7 DEF SameMove
  <2>22. SettledInv(iter)'
    BY <2>3, <2>19 DEF SettledInv
  <2> QED
    BY <1>2, <2>3, <2>10, <2>13, <2>20, <2>21, <2>22
    DEF FastestInv
<1> QED
  BY <1>5, <1>6

\* A trapezoid changes no entry speed.
LEMMA TrapezoidFastest ==
    ASSUME MinSpeed = 0, Shape, Plan, FastestInv, Trapezoid
    PROVE  FastestInv'
<1>1. Typed
  BY ShapeTyped
<1>2. /\ pc = "trapezoid"
      /\ UNCHANGED <<block, tail, iter, previous, speed, preempts>>
  BY DEF Trapezoid
<1>3. /\ Len(block) = head /\ ~block[head].is_ticking /\ previous \in 1 .. head
  BY <1>1, <1>2 DEF Shape, PlaceInv, FetchedInv, Typed, Numbers
<1>4. head' = head /\ pc' \in {"forward", "write"}
  BY <1>3 DEF Trapezoid, AfterTrapezoid, head
<1>5. /\ Numbers' = Numbers /\ Behind' = Behind
      /\ \A i : /\ AtLimit(i)' <=> AtLimit(i)
                /\ Pushed(i)' <=> Pushed(i)
                /\ Braked(i)' <=> Braked(i)
  BY <1>2 DEF Numbers, Behind, AtLimit, Pushed, Braked, After
<1> QED
  BY <1>2, <1>4, <1>5 DEF FastestInv, RaisedInv, SettledInv, TightInv

\* The exit speed of a block that has yet to start does not depend on its
\* profile.
LEMMA SameExit ==
    ASSUME NEW b, NEW c, SameMove(b, c), SameFlags(b, c),
           c.entry_speed = b.entry_speed, ~b.is_ticking
    PROVE  max_exit_speed(c) = max_exit_speed(b)
BY DEF SameMove, SameFlags, max_exit_speed, max_allowable_speed

\* Nor does writing one; and at the head the last walk is done.
LEMMA WriteFastest ==
    ASSUME MinSpeed = 0, Shape, Plan, FastestInv, WriteTrapezoid
    PROVE  FastestInv'
<1>1. Typed
  BY ShapeTyped
<1>2. /\ pc = "write"
      /\ UNCHANGED <<tail, iter, previous, speed, preempts>>
      /\ IF previous = head THEN pc' = "idle" /\ queued' = queued + 1
                            ELSE pc' = "forward" /\ queued' = queued
  BY DEF WriteTrapezoid, AfterTrapezoid
<1>3. /\ Len(block) = head /\ iter \in Numbers /\ head = queued + 1
      /\ previous = head => iter = head
      /\ Numbers = 1 .. head /\ queued \in Nat
  BY <1>1, <1>2 DEF Shape, PlaceInv, Typed, Numbers
<1>4. /\ Kept
      /\ \A i \in Numbers :
            /\ SameMove(block[i], block'[i])
            /\ SameFlags(block[i], block'[i])
            /\ block'[i].entry_speed = block[i].entry_speed
  BY WriteEffect
<1>5. /\ Numbers' = Numbers
      /\ \A i \in Numbers : /\ AtLimit(i)' <=> AtLimit(i)
                            /\ Braked(i)' <=> Braked(i)
                            /\ i > 1 => (Pushed(i)' <=> Pushed(i))
  BY <1>1, <1>4, SpeedsKept
<1>6. Behind' = Behind
  <2>1. \A i \in Numbers : i > 1 => i - 1 \in Numbers
    BY <1>3
  <2> QED
    BY <1>4, <1>5, <2>1 DEF Behind, SameFlags
<1>7. \A i \in Numbers' : block'[i].gain > 0
  BY <1>4, <1>5 DEF FastestInv, SameMove
<1> SUFFICES ASSUME preempts = 0 PROVE FastestInv'
  BY <1>2, <1>7 DEF FastestInv
<1>8. /\ RaisedInv /\ SettledInv(iter) /\ TightInv(head)
      /\ iter # head /\ ~block[iter].is_ticking =>
            speed = max_exit_speed(block[iter])
      /\ tail \in Numbers /\ ~block[tail].is_ticking =>
            block[tail].max_entry_speed = 0
  BY <1>2 DEF FastestInv
<1>9. /\ \A i \in Behind : i \in Numbers /\ i > 1 /\ i <= head
      /\ \A i \in Numbers :
            block'[i].recalculate_flag <=> block[i].recalculate_flag
  BY <1>3, <1>4 DEF Behind, SameFlags
<1>10. RaisedInv' /\ SettledInv(iter)'
  BY <1>2, <1>5, <1>6, <1>8, <1>9 DEF RaisedInv, SettledInv
<1>11. \A i \in Behind' : AtLimit(i)' \/ Pushed(i)' \/ Braked(i)'
  BY <1>5, <1>6, <1>8, <1>9 DEF TightInv
<1>12. tail' \in Numbers' /\ ~block'[tail].is_ticking =>
          block'[tail].max_entry_speed = 0
  BY <1>2, <1>4, <1>5, <1>8 DEF SameMove, SameFlags
<1>13. CASE previous = head
  <2>1. pc' = "idle" /\ queued' = head /\ iter' = queued'
    BY <1>2, <1>3, <1>13
  <2>2. SettledInv(queued)' /\ TightInv(queued)'
    BY <1>10, <1>11, <2>1 DEF SettledInv, TightInv
  <2> QED
    BY <1>2, <1>7, <1>12, <2>1, <2>2 DEF FastestInv
<1>14. CASE previous # head
  <2>1. pc' = "forward" /\ queued' = queued /\ head' = head
    BY <1>2, <1>14 DEF head
  <2>2. TightInv(head)'
    BY <1>11 DEF TightInv
  <2>3. iter' # head' /\ ~block'[iter'].is_ticking =>
           speed' = max_exit_speed(block'[iter'])
    BY <1>2, <1>3, <1>4, <1>8, <2>1, SameExit DEF SameFlags
  <2> QED
    BY <1>2, <1>7, <1>10, <1>12, <2>1, <2>2, <2>3 DEF FastestInv
<1> QED
  BY <1>13, <1>14

\* A block that is fetched fixes the speed at its end.
LEMMA FetchFastest ==
    ASSUME MinSpeed = 0, Shape, Plan, FastestInv, StartBlock \/ FinishBlock
    PROVE  FastestInv'
<1>1. Typed
  BY ShapeTyped
<1>2. /\ UNCHANGED <<queued, pc, iter, previous, speed>> /\ Interrupts
  BY DEF StartBlock, FinishBlock
<1>3. PICK k \in Int : Fetches(k)
  <2>1. CASE StartBlock
    BY <1>1, <2>1, StartEffect DEF Typed
  <2>2. CASE FinishBlock
    BY <1>1, <2>2, FinishEffect DEF Typed
  <2> QED
    BY <2>1, <2>2
<1>4. /\ Kept
      /\ \A i \in Numbers :
            /\ SameMove(block[i], block'[i])
            /\ block'[i].entry_speed = block[i].entry_speed
            /\ block[i].is_ticking => block'[i].is_ticking
            /\ (block'[i].recalculate_flag <=>
                   i # k /\ block[i].recalculate_flag)
            /\ (block'[i].is_ticking <=> i = k \/ block[i].is_ticking)
  BY <1>3 DEF Fetches
<1>5. /\ Numbers' = Numbers
      /\ \A i \in Numbers : /\ AtLimit(i)' <=> AtLimit(i)
                            /\ Braked(i)' <=> Braked(i)
                            /\ i > 1 => (Pushed(i)' <=> Pushed(i))
  BY <1>1, <1>4, SpeedsKept
<1>6. \A i \in Numbers' : block'[i].gain > 0
  BY <1>4, <1>5 DEF FastestInv, SameMove
<1> SUFFICES ASSUME preempts' = 0 PROVE FastestInv'
  BY <1>6 DEF FastestInv
<1>7. pc = "idle" /\ preempts = 0 /\ Len(block) = queued /\ head = queued + 1
  BY <1>1, <1>2 DEF Interrupts, Shape, PlaceInv, Typed
<1>8. SettledInv(queued) /\ TightInv(queued)
  BY <1>7 DEF FastestInv
\* The block that is fetched is not one behind a block yet to start.
<1>9. ASSUME NEW i \in Behind'
      PROVE  /\ i \in Behind /\ i \in Numbers /\ i > 1 /\ i # k
  <2>1. i \in Numbers /\ i > 1 /\ i - 1 \in Numbers /\ ~block'[i - 1].is_ticking
    BY <1>1, <1>5 DEF Behind, Typed, Numbers
  <2>2. ~block[i - 1].is_ticking /\ i - 1 # k
    BY <1>4, <2>1
  <2>3. i # k
    <3>1. CASE StartBlock
      <4>1. Fetches(tail) /\ tail \in Numbers
        BY <3>1, StartEffect
      <4>2. block'[tail].is_ticking /\ ~block[tail].is_ticking
        BY <3>1, <4>1 DEF Fetches, StartBlock
      <4>3. k = tail
        BY <1>4, <4>1, <4>2
      <4> QED
        BY <1>1, <2>1, <2>2, <4>3 DEF Shape, FetchedInv, Typed
    <3>2. CASE FinishBlock
      <4>1. tail \in Numbers /\ block[tail].is_ticking
        BY <1>1, <1>7, <3>2 DEF FinishBlock, isEmpty, Typed, Numbers
      <4>2. i - 1 > tail
        BY <1>1, <2>1, <2>2, <4>1 DEF Shape, FetchedInv, Typed, Numbers
      <4>3. Fetches(IF tail + 1 = head THEN 0 ELSE tail + 1)
        BY <3>2, FinishEffect
      <4>4. ~block[i].is_ticking
        BY <1>1, <2>1, <4>2 DEF Shape, FetchedInv, Typed, Numbers
      <4>5. ~block'[i].is_ticking
        <5>1. i # (IF tail + 1 = head THEN 0 ELSE tail + 1)
          BY <1>1, <2>1, <4>2 DEF Typed, Numbers
        <5> QED
          BY <2>1, <4>3, <4>4, <5>1 DEF Fetches
      <4> QED
        BY <1>4, <2>1, <4>5
    <3> QED
      BY <3>1, <3>2
  <2> QED
    BY <2>1, <2>2, <2>3 DEF Behind
<1>10. SettledInv(queued)' /\ TightInv(queued)'
  BY <1>2, <1>4, <1>5, <1>8, <1>9 DEF SettledInv, TightInv
<1>11. tail' \in Numbers' => block'[tail'].is_ticking
  <2>1. CASE StartBlock
    <3>1. Fetches(tail) /\ tail \in Numbers /\ tail' = tail
      BY <2>1, StartEffect DEF StartBlock
    <3> QED
      BY <3>1 DEF Fetches
  <2>2. CASE FinishBlock
    <3>1. Fetches(IF tail + 1 = head THEN 0 ELSE tail + 1) /\ tail' = tail + 1
      BY <2>2, FinishEffect DEF FinishBlock
    <3>2. tail' \in Numbers' => tail + 1 # head /\ tail' \in Numbers
      BY <1>1, <1>5, <1>7, <3>1 DEF Numbers, Typed
    <3> QED
      BY <3>1, <3>2 DEF Fetches
  <2> QED
    BY <2>1, <2>2
<1> QED
  BY <1>2, <1>6, <1>7, <1>10, <1>11 DEF FastestInv

\* Every step keeps it.
LEMMA StepFastest ==
    ASSUME MinSpeed = 0, Shape, Plan, FastestInv, [Next]_vars
    PROVE  FastestInv'
<1>1. CASE UNCHANGED vars
  <2>1. /\ Numbers' = Numbers /\ Behind' = Behind /\ head' = head
        /\ \A i : /\ AtLimit(i)' <=> AtLimit(i)
                  /\ Pushed(i)' <=> Pushed(i)
                  /\ Braked(i)' <=> Braked(i)
    BY <1>1 DEF vars, Numbers, Behind, AtLimit, Pushed, Braked, After, head
  <2> QED
    BY <1>1, <2>1 DEF vars, FastestInv, RaisedInv, SettledInv, TightInv
<1> QED
  BY <1>1, AppendFastest, RecalculateFastest, ReverseFastest, TurnFastest,
     ForwardFastest, TrapezoidFastest, WriteFastest, FetchFastest
  DEF Next

\* Every non-empty set of naturals has a least element: each set of smaller
\* naturals is finite, and inclusion of finite sets is well-founded.
LEMMA LeastNat ==
    ASSUME NEW T, T \subseteq Nat, T # {}
    PROVE  \E x \in T : \A y \in T : x <= y
<1> DEFINE below(n) == {m \in Nat : m < n}
           sets == {below(n) : n \in T}
<1>1. \A n \in T : IsFiniteSet(below(n))
    <2> TAKE n \in T
    <2>1. \A s \in below(n) : s <= n
        OBVIOUS
    <2> QED
        BY <2>1, FS_BoundedSetOfNaturals
<1>2. sets \subseteq FiniteSubsetsOf(Nat)
    BY <1>1 DEF FiniteSubsetsOf
<1>3. PICK u \in sets :
            \A v \in sets : <<v, u>> \notin StrictSubsetOrdering(Nat)
    <2>1. sets # {}
        OBVIOUS
    <2>2. IsWellFoundedOn(StrictSubsetOrdering(Nat), FiniteSubsetsOf(Nat))
        BY FS_StrictSubsetOrderingWellFounded
    <2> QED
        BY <1>2, <2>1, <2>2, WFMin
<1>4. PICK x \in T : u = below(x)
    OBVIOUS
<1>5. ASSUME NEW y \in T, y < x
      PROVE  FALSE
    <2>1. below(y) \subseteq below(x) /\ y \in below(x) /\ y \notin below(y)
        BY <1>5
    <2>2. below(y) \in sets /\ below(y) \subseteq Nat /\ below(x) \subseteq Nat
        OBVIOUS
    <2>3. <<below(y), u>> \in StrictSubsetOrdering(Nat)
        <3> HIDE DEF below
        <3> QED
            BY <1>4, <2>1, <2>2 DEF StrictSubsetOrdering
    <2> QED
        BY <1>3, <2>2, <2>3
<1> QED
    BY <1>5

-----------------------------------------------------------------------------
\* Between two plans: the speed at the open junctions, and how the queue's last
\* block and each of the others ends.
LEMMA IdlePlan ==
    ASSUME MinSpeed = 0, Shape, Plan, FastestInv,
           pc = "idle", preempts = 0, ~isEmpty
    PROVE  /\ Typed /\ Len(block) = queued /\ queued >= 1
           /\ Open \in Nat /\ Open >= 1 /\ Open <= queued + 1
           /\ Open = tail \/ Open = tail + 1
           /\ OpenSpeed \in Nat
           /\ Open <= queued => OpenSpeed = block[Open].entry_speed
           /\ \A i \in Open .. queued :
                 /\ i \in Numbers /\ ~block[i].is_ticking
                 /\ block[i].initial_rate = block[i].entry_speed
                 /\ block[i].exit_speed = After(i)
<1>1. Typed /\ MoveInv /\ ProfileInv /\ ContinuousInv
  BY ShapeTyped DEF Plan
<1>2. /\ Len(block) = queued /\ queued \in Nat /\ tail \in 1 .. queued
      /\ tail \in Numbers /\ queued \in Numbers /\ Numbers = 1 .. queued
  BY <1>1 DEF isEmpty, Shape, PlaceInv, Typed, Numbers
<1>3. /\ \A i \in tail .. queued - 1 :
            block[i].exit_speed = block[i + 1].initial_rate
      /\ \A i \in tail + 1 .. queued :
            block[i].initial_rate = block[i].entry_speed
      /\ block[queued].exit_speed = 0
  BY <1>1, <1>2 DEF ContinuousInv, ProfileInv
<1>4. ~block[tail].is_ticking =>
         block[tail].initial_rate = 0 /\ block[tail].entry_speed = 0
  <2> SUFFICES ASSUME ~block[tail].is_ticking
               PROVE  /\ block[tail].initial_rate = 0
                      /\ block[tail].entry_speed = 0
    OBVIOUS
  <2>1. block[tail].max_entry_speed = 0
    BY <1>2 DEF FastestInv
  <2>2. /\ block[tail].initial_rate <= block[tail].max_entry_speed
        /\ block[tail].entry_speed <= block[tail].max_entry_speed
        /\ block[tail].initial_rate \in Nat /\ block[tail].entry_speed \in Nat
    BY <1>1, <1>2 DEF ProfileInv, MoveInv, Typed
  <2> QED
    BY <2>1, <2>2
<1>5. /\ Open \in Nat /\ Open >= 1 /\ Open <= queued + 1
      /\ Open = tail \/ Open = tail + 1
      /\ Open # tail => Open = tail + 1 /\ block[tail].is_ticking
      /\ Open = tail => ~block[tail].is_ticking
  BY <1>2 DEF Open
<1>6. ASSUME NEW i \in Open .. queued
      PROVE  /\ i \in Numbers /\ ~block[i].is_ticking
             /\ block[i].initial_rate = block[i].entry_speed
             /\ block[i].exit_speed = After(i)
  <2>1. i \in Numbers /\ i \in tail .. queued /\ (i = tail => i = Open)
    BY <1>2, <1>5
  <2>2. ~block[i].is_ticking
    BY <1>1, <1>2, <1>5, <2>1 DEF Shape, FetchedInv
  <2>3. block[i].initial_rate = block[i].entry_speed
    BY <1>2, <1>3, <1>4, <2>1, <2>2
  <2>4. block[i].exit_speed = After(i)
    <3>1. CASE i = queued
      BY <1>2, <1>3, <3>1 DEF After
    <3>2. CASE i # queued
      <4>1. i \in tail .. queued - 1 /\ i + 1 \in tail + 1 .. queued
        BY <1>2, <2>1, <3>2
      <4> QED
        BY <1>2, <1>3, <3>2, <4>1 DEF After
    <3> QED
      BY <3>1, <3>2
  <2> QED
    BY <2>1, <2>2, <2>3, <2>4
<1>7. OpenSpeed \in Nat
  BY <1>1, <1>2 DEF OpenSpeed, Typed
<1>8. Open <= queued => OpenSpeed = block[Open].entry_speed
  <2>1. CASE Open = tail
    BY <1>4, <1>5, <2>1 DEF OpenSpeed
  <2>2. CASE Open # tail /\ Open <= queued
    <3>1. tail \in tail .. queued - 1 /\ tail + 1 \in tail + 1 .. queued
      BY <1>2, <1>5, <2>2
    <3> QED
      BY <1>3, <1>5, <2>2, <3>1 DEF OpenSpeed
  <2> QED
    BY <2>1, <2>2
<1> QED
  BY <1>1, <1>2, <1>5, <1>6, <1>7, <1>8

\* The speeds of the plan.
Planned == [i \in Open + 1 .. queued |-> block[i].initial_rate]

\* It starts each block with that block's entry speed, and ends it with the
\* next one's.
LEMMA PlannedSpeeds ==
    ASSUME MinSpeed = 0, Shape, Plan, FastestInv,
           pc = "idle", preempts = 0, ~isEmpty, NEW i \in Open .. queued
    PROVE  /\ Passed(Planned, i) = block[i].entry_speed
           /\ Passed(Planned, i + 1) = After(i)
<1>1. /\ Open \in Nat /\ queued \in Nat /\ Open <= queued
      /\ OpenSpeed = block[Open].entry_speed /\ Len(block) = queued
      /\ \A j \in Open .. queued :
            block[j].initial_rate = block[j].entry_speed
  BY IdlePlan DEF Typed
<1>2. Passed(Planned, i) = block[i].entry_speed
  BY <1>1 DEF Passed, Planned
<1>3. Passed(Planned, i + 1) = After(i)
  BY <1>1 DEF Passed, Planned, After
<1> QED
  BY <1>2, <1>3

\* It can be driven.
LEMMA PlanDrivable ==
    ASSUME MinSpeed = 0, Shape, Plan, FastestInv,
           pc = "idle", preempts = 0, ~isEmpty
    PROVE  Drivable(Planned)
<1>1. /\ Typed /\ Open \in Nat /\ Open >= 1 /\ queued \in Nat
      /\ Len(block) = queued
      /\ \A i \in Open .. queued :
            /\ block[i].initial_rate = block[i].entry_speed
            /\ block[i].exit_speed = After(i)
  BY IdlePlan DEF Typed
<1>2. ASSUME NEW i \in Open .. queued
      PROVE  /\ block[i].initial_rate <= block[i].max_entry_speed
             /\ block[i].exit_speed <= block[i].initial_rate + block[i].gain
             /\ block[i].initial_rate <= block[i].exit_speed + block[i].gain
  <2>1. i \in 1 .. queued
    BY <1>1
  <2> QED
    BY <2>1 DEF Plan, ProfileInv
<1>3. \A i \in Open + 1 .. queued : Planned[i] <= block[i].max_entry_speed
  BY <1>1, <1>2 DEF Planned
<1>4. ASSUME NEW i \in Open .. queued
      PROVE  /\ Passed(Planned, i) <= Passed(Planned, i + 1) + block[i].gain
             /\ Passed(Planned, i + 1) <= Passed(Planned, i) + block[i].gain
  BY <1>1, <1>2, PlannedSpeeds
<1> QED
  BY <1>3, <1>4 DEF Drivable

\* No plan that can be driven is faster anywhere. Otherwise take, among the
\* junctions it passes faster, one where the firmware's plan is slowest: what
\* fixes the speed there is no limit of its own, so it is the speed at a
\* neighbour, which is smaller still and which the other plan would have to
\* exceed as well.
LEMMA NoneFaster ==
    ASSUME MinSpeed = 0, Shape, Plan, FastestInv,
           pc = "idle", preempts = 0, ~isEmpty,
           NEW v \in [Open + 1 .. queued -> Nat], Drivable(v),
           NEW j \in Open + 1 .. queued
    PROVE  v[j] <= Planned[j]
<1> DEFINE behind == Open + 1 .. queued
           e(i) == block[i].entry_speed
           Faster == {i \in behind : v[i] > Planned[i]}
           T == {Planned[i] : i \in Faster}
<1>1. /\ Typed /\ Open \in Nat /\ Open >= 1 /\ queued \in Nat
      /\ Len(block) = queued /\ OpenSpeed \in Nat
      /\ Open <= queued => OpenSpeed = e(Open)
      /\ \A i \in Open .. queued :
            /\ i \in Numbers /\ ~block[i].is_ticking
            /\ block[i].initial_rate = e(i)
  BY IdlePlan DEF Typed
<1>2. ASSUME NEW i \in behind
      PROVE  /\ Planned[i] = e(i) /\ e(i) \in Nat /\ v[i] \in Nat
             /\ i - 1 \in Open .. queued /\ i \in Open .. queued
             /\ i \in Behind /\ i \in Numbers /\ i - 1 \in Numbers
             /\ block[i].gain \in Nat /\ block[i - 1].gain \in Nat
             /\ block[i].gain > 0 /\ block[i - 1].gain > 0
             /\ block[i].max_entry_speed \in Nat
             /\ block[i - 1].entry_speed \in Nat
  <2>1. i - 1 \in Open .. queued /\ i \in Open .. queued /\ i > 1
    BY <1>1
  <2>2. i \in Numbers /\ i - 1 \in Numbers /\ ~block[i - 1].is_ticking
        /\ Planned[i] = e(i)
    BY <1>1, <2>1 DEF Planned
  <2> QED
    BY <1>1, <2>1, <2>2 DEF Typed, Behind, FastestInv
<1> SUFFICES ASSUME v[j] > Planned[j] PROVE FALSE
  BY <1>2
<1>3. PICK i \in Faster : \A h \in Faster : Planned[i] <= Planned[h]
  <2>1. T # {} /\ T \subseteq Nat
    <3>1. j \in Faster
      OBVIOUS
    <3> QED
      BY <1>2, <3>1
  <2>2. PICK x \in T : \A y \in T : x <= y
    <3> HIDE DEF T
    <3> QED
      BY <2>1, LeastNat
  <2> QED
    BY <2>2
<1>4. /\ i \in behind /\ v[i] > e(i)
      /\ \A h \in behind : e(h) < e(i) => v[h] <= e(h)
  <2>1. i \in behind /\ v[i] > Planned[i]
    OBVIOUS
  <2>2. ASSUME NEW h \in behind, e(h) < e(i)
        PROVE  v[h] <= e(h)
    <3>1. Planned[h] = e(h) /\ Planned[i] = e(i) /\ e(h) \in Nat
          /\ e(i) \in Nat /\ v[h] \in Nat
      BY <1>2, <2>1
    <3>2. h \notin Faster
      <4> HIDE DEF Faster
      <4> QED
        BY <1>3, <2>2, <3>1
    <3> QED
      BY <3>1, <3>2
  <2> QED
    BY <1>2, <2>1, <2>2
<1> HIDE DEF behind, Faster, T
<1>5. AtLimit(i) \/ Pushed(i) \/ Braked(i)
  BY <1>1, <1>2, <1>4 DEF FastestInv, TightInv
<1>6. /\ v[i] <= block[i].max_entry_speed
      /\ Passed(v, i) = v[i]
      /\ Passed(v, i) <= Passed(v, i + 1) + block[i].gain
      /\ Passed(v, i) <= Passed(v, i - 1) + block[i - 1].gain
  <2>1. Passed(v, i) = v[i]
    BY <1>1, <1>2, <1>4 DEF Passed, behind
  <2>2. Passed(v, i) <= Passed(v, i - 1) + block[i - 1].gain
    <3>1. (i - 1) + 1 = i
      BY <1>1, <1>4 DEF behind
    <3> QED
      BY <1>2, <1>4, <3>1 DEF Drivable
  <2> QED
    BY <1>2, <1>4, <2>1, <2>2 DEF Drivable, behind
<1>7. CASE AtLimit(i)
  BY <1>2, <1>4, <1>6, <1>7 DEF AtLimit
<1>8. CASE Pushed(i)
  <2>1. e(i) = e(i - 1) + block[i - 1].gain
    BY <1>8 DEF Pushed
  <2>2. CASE i - 1 = Open
    <3>1. Passed(v, i - 1) = e(i - 1)
      BY <1>1, <1>2, <1>4, <2>2 DEF Passed
    <3> QED
      BY <1>2, <1>4, <1>6, <2>1, <3>1
  <2>3. CASE i - 1 # Open
    <3>1. i - 1 \in behind
      BY <1>1, <1>2, <1>4, <2>3 DEF behind
    <3>2. Passed(v, i - 1) = v[i - 1]
      BY <1>1, <1>2, <1>4, <2>3, <3>1 DEF Passed, behind
    <3>3. v[i - 1] <= e(i - 1) /\ v[i - 1] \in Nat
      BY <1>2, <1>4, <2>1, <3>1
    <3> QED
      BY <1>2, <1>4, <1>6, <2>1, <3>2, <3>3
  <2> QED
    BY <2>2, <2>3
<1>9. CASE Braked(i)
  <2>1. e(i) = After(i) + block[i].gain
    BY <1>9 DEF Braked
  <2>2. CASE i = queued
    <3>1. Passed(v, i + 1) = 0 /\ After(i) = 0
      BY <1>1, <1>2, <1>4, <2>2 DEF Passed, After
    <3> QED
      BY <1>2, <1>4, <1>6, <2>1, <3>1
  <2>3. CASE i # queued
    <3>1. i + 1 \in behind /\ After(i) = e(i + 1)
      BY <1>1, <1>2, <1>4, <2>3 DEF behind, After
    <3>2. Passed(v, i + 1) = v[i + 1]
      BY <1>1, <3>1 DEF Passed, behind
    <3>3. v[i + 1] <= e(i + 1) /\ v[i + 1] \in Nat /\ e(i + 1) \in Nat
      BY <1>2, <1>4, <2>1, <3>1
    <3> QED
      BY <1>2, <1>4, <1>6, <2>1, <3>1, <3>2, <3>3
  <2> QED
    BY <2>2, <2>3
<1> QED
  BY <1>5, <1>7, <1>8, <1>9

-----------------------------------------------------------------------------
\* The planner stays on the blocks that exist, and blocks are numbered and
\* typed as they should be, whatever minimum_planner_speed is.
THEOREM PlannerTypes == Spec => []TypeOK
<1>1. Shape => TypeOK
  BY DEF Shape
<1> QED
  BY <1>1, InitShape, StepShape, PTL DEF Spec

\* With the default minimum_planner_speed of 0 no plan ever asks a block for
\* more than its junction, its acceleration and its nominal speed allow, and
\* the last block always ends at rest: also when the step ticker starts and
\* finishes blocks in the middle of recalculate().
THEOREM PlanIsFeasible ==
    ASSUME MinSpeed = 0
    PROVE  Spec => []Feasible
<1>1. Init => IInv
  BY InitShape, InitPlan DEF IInv
<1>2. IInv /\ [Next]_vars => IInv'
  BY StepShape, StepPlan DEF IInv
<1>3. IInv => Feasible
  <2> SUFFICES ASSUME Shape, Plan, pc = "idle", NEW i \in tail .. queued
               PROVE  LET b == block[i]
                      IN  /\ b.initial_rate <= b.max_entry_speed
                          /\ b.exit_speed <= b.initial_rate + b.gain
                          /\ b.initial_rate <= b.exit_speed + b.gain
                          /\ b.exit_speed <= b.nominal_speed
                          /\ i = queued => b.exit_speed = MinSpeed
    BY DEF IInv, Feasible
  <2>1. i \in 1 .. queued /\ queued > 0
    BY ShapeTyped DEF Typed
  <2> QED
    BY <2>1 DEF Plan, ProfileInv
<1> QED
  BY <1>1, <1>2, <1>3, PTL DEF Spec

\* As long as the step ticker does not interrupt recalculate(), each move
\* starts at the speed the one before it ends with.
THEOREM PlanIsContinuous ==
    ASSUME MinSpeed = 0
    PROVE  Spec => []PlannedContinuous
<1>1. Init => IInv
  BY InitShape, InitPlan DEF IInv
<1>2. IInv /\ [Next]_vars => IInv'
  BY StepShape, StepPlan DEF IInv
<1>3. IInv => PlannedContinuous
  BY DEF IInv, Plan, ContinuousInv, PlannedContinuous, SpeedContinuous
<1> QED
  BY <1>1, <1>2, <1>3, PTL DEF Spec

\* With the default minimum_planner_speed of 0, and as long as the step ticker
\* does not interrupt recalculate(), the plan can be driven and no other plan
\* that can be driven passes any junction faster, however many moves are
\* queued and whichever blocks the flags made recalculate() skip.
THEOREM PlanIsTheFastest ==
    ASSUME MinSpeed = 0
    PROVE  Spec => []PlanIsFastest
<1>1. Init => IInv /\ FastestInv
  BY InitShape, InitPlan, InitFastest DEF IInv
<1>2. IInv /\ FastestInv /\ [Next]_vars => (IInv /\ FastestInv)'
  BY StepShape, StepPlan, StepFastest DEF IInv
<1>3. IInv /\ FastestInv => PlanIsFastest
  <2> SUFFICES ASSUME Shape, Plan, FastestInv,
                      pc = "idle", preempts = 0, ~isEmpty
               PROVE  /\ Drivable(Planned)
                      /\ \A v \in [Open + 1 .. queued -> Speeds] :
                            Drivable(v) =>
                               \A i \in Open + 1 .. queued : v[i] <= Planned[i]
    BY DEF IInv, PlanIsFastest, Planned
  <2>1. Speeds \subseteq Nat
    BY PlannerAssumption DEF Speeds
  <2>2. ASSUME NEW v \in [Open + 1 .. queued -> Speeds], Drivable(v),
               NEW i \in Open + 1 .. queued
        PROVE  v[i] <= Planned[i]
    <3>1. v \in [Open + 1 .. queued -> Nat]
      BY <2>1
    <3> QED
      BY <2>2, <3>1, NoneFaster
  <2> QED
    BY <2>2, PlanDrivable
<1> QED
  BY <1>1, <1>2, <1>3, PTL DEF Spec
=============================================================================
