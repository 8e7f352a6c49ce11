--------------------------- MODULE StepTick_proofs ---------------------------
(***************************************************************************)
(* Proofs about the step interrupt: a block gives its steps, it ends, its  *)
(* motors follow the planned rates, and pulses do not merge.               *)
(***************************************************************************)
EXTENDS StepTick, TLAPS

-----------------------------------------------------------------------------
(***************************************************************************)
(* What prepare computes                                                   *)
(***************************************************************************)

\* A rounded quotient is an integer.
LEMMA RoundedInt ==
    ASSUME NEW x \in Int, NEW n \in Int, NEW d \in Int, d > 0
    PROVE  Rounded(x, n, d) \in Int
<1>1. (2 * x * n + d) \in Int /\ (2 * d) \in Int /\ 2 * d > 0
  OBVIOUS
<1> QED
  BY <1>1 DEF Rounded

\* Scaling by a motor's share of the steps gives an integer.
LEMMA ScaledInt ==
    ASSUME NEW x \in Int, NEW n \in Int, NEW d \in Int, d > 0
    PROVE  Scaled(x, n, d) \in Int
<1>1. -x \in Int
  OBVIOUS
<1> QED
  BY <1>1, RoundedInt DEF Scaled

\* What prepare makes of a block that has steps in its longest axis.
LEMMA Prepared ==
    ASSUME NEW b \in BlockType, b.steps_event_count > 0,
           b.initial <= b.maximum, b.final <= b.maximum,
           b.decelerate_after <= b.total_move_ticks
    PROVE  prepare(b) \in [Motors -> TickInfo]
<1>1. /\ b.initial \in Nat /\ b.maximum \in Nat /\ b.final \in Nat
      /\ b.accelerate_until \in Nat /\ b.decelerate_after \in Nat
      /\ b.total_move_ticks \in Nat /\ b.steps_event_count \in Nat
      /\ b.steps \in [Motors -> Nat]
  BY DEF BlockType
<1>2. \A c, t \in Nat : PerTick(c, t) \in Int
  BY RoundedInt DEF PerTick
<1>3. Acceleration(b) \in Int /\ Deceleration(b) \in Int
  BY <1>1, <1>2 DEF Acceleration, Deceleration
<1>4. FirstChange(b) \in Int
  BY <1>3 DEF FirstChange
<1>5. FirstEvent(b) \in Nat
  BY <1>1 DEF FirstEvent
<1>6. -Deceleration(b) \in Int
  BY <1>3
<1> SUFFICES ASSUME NEW m \in Motors
             PROVE  prepare(b)[m] \in TickInfo
  BY DEF prepare
<1> DEFINE Ratio(x) == IF b.steps[m] = 0 THEN 0
                       ELSE Scaled(x, b.steps[m], b.steps_event_count)
<1>7. \A x \in Int : Ratio(x) \in Int
  <2> SUFFICES ASSUME NEW x \in Int PROVE Ratio(x) \in Int
    OBVIOUS
  <2>1. b.steps[m] \in Int /\ b.steps_event_count \in Int
    BY <1>1
  <2>2. Scaled(x, b.steps[m], b.steps_event_count) \in Int
    BY <2>1, ScaledInt
  <2> QED
    BY <2>2
<1>8. /\ Ratio(b.initial) \in Int /\ Ratio(FirstChange(b)) \in Int
      /\ Ratio(-Deceleration(b)) \in Int /\ Ratio(b.maximum) \in Int
  <2> HIDE DEF Ratio
  <2> QED BY <1>1, <1>4, <1>6, <1>7
<1>9. prepare(b)[m] =
        [steps_to_move |-> b.steps[m], steps_per_tick |-> Ratio(b.initial),
         counter |-> 0, step_count |-> 0, next_accel_event |-> FirstEvent(b),
         acceleration_change |-> Ratio(FirstChange(b)),
         deceleration_change |-> Ratio(-Deceleration(b)),
         plateau_rate |-> Ratio(b.maximum)]
  BY DEF prepare
<1>10. b.steps[m] \in Nat
  BY <1>1
<1> HIDE DEF Ratio
<1> QED
  BY <1>5, <1>8, <1>9, <1>10 DEF TickInfo

-----------------------------------------------------------------------------
(***************************************************************************)
(* One motor in one tick                                                   *)
(***************************************************************************)

\* Writing one of the fields the tick changes.
LEMMA FieldChanges ==
    ASSUME NEW i \in TickInfo
    PROVE  /\ \A x \in Int : [i EXCEPT !.steps_per_tick = x] \in TickInfo
           /\ \A x \in Int : [i EXCEPT !.acceleration_change = x] \in TickInfo
           /\ \A x \in Nat : [i EXCEPT !.next_accel_event = x] \in TickInfo
           /\ \A x \in Nat : [i EXCEPT !.counter = x] \in TickInfo
           /\ \A x \in Nat : [i EXCEPT !.step_count = x] \in TickInfo
           /\ \A x \in Nat : [i EXCEPT !.steps_to_move = x] \in TickInfo
  BY DEF TickInfo

\* The rate changes, and nothing else but the next event.
LEMMA EventKeeps ==
    ASSUME NEW i \in TickInfo, NEW b \in BlockType, NEW t \in Nat
    PROVE  /\ Event(Accelerated(i), b, t) \in TickInfo
           /\ Event(Accelerated(i), b, t).counter = i.counter
           /\ Event(Accelerated(i), b, t).step_count = i.step_count
           /\ Event(Accelerated(i), b, t).steps_to_move = i.steps_to_move
<1> DEFINE Same(j) == /\ j \in TickInfo /\ j.counter = i.counter
                      /\ j.step_count = i.step_count
                      /\ j.steps_to_move = i.steps_to_move
<1>1. Same(Accelerated(i))
  BY DEF Accelerated, TickInfo
<1>2. ASSUME NEW j, Same(j) PROVE Same(AccelerationEnds(j, b, t))
  <2> DEFINE Turned == [[j EXCEPT !.acceleration_change = 0]
                           EXCEPT !.next_accel_event = b.decelerate_after]
  <2>5. Turned \in TickInfo
    <3> DEFINE First == [j EXCEPT !.acceleration_change = 0]
    <3>1. First \in TickInfo
      BY <1>2, FieldChanges
    <3>2. b.decelerate_after \in Nat
      BY DEF BlockType
    <3> HIDE DEF First
    <3>3. [First EXCEPT !.next_accel_event = b.decelerate_after] \in TickInfo
      BY <3>1, <3>2, FieldChanges
    <3> QED
      BY <3>3 DEF First
  <2>1. CASE t # b.accelerate_until
    BY <1>2, <2>1 DEF AccelerationEnds
  <2>2. CASE t = b.accelerate_until /\ b.decelerate_after >= b.total_move_ticks
    BY <1>2, <2>2 DEF AccelerationEnds, TickInfo
  <2>3. CASE /\ t = b.accelerate_until /\ t # b.decelerate_after
             /\ ~(b.decelerate_after >= b.total_move_ticks)
    <3>1. /\ j.plateau_rate \in Int /\ b.decelerate_after \in Nat
      BY <1>2 DEF TickInfo, BlockType
    <3>2. AccelerationEnds(j, b, t) =
            [Turned EXCEPT !.steps_per_tick = j.plateau_rate]
      BY <2>3 DEF AccelerationEnds
    <3>3. AccelerationEnds(j, b, t) \in TickInfo
      <4> HIDE DEF Turned
      <4> QED BY <2>5, <3>1, <3>2, FieldChanges
    <3> QED
      BY <1>2, <3>2, <3>3 DEF TickInfo, Turned
  <2>4. CASE /\ t = b.accelerate_until /\ t = b.decelerate_after
             /\ ~(b.decelerate_after >= b.total_move_ticks)
    <3>1. /\ j.steps_per_tick \in Int /\ b.decelerate_after \in Nat
      BY <1>2 DEF TickInfo, BlockType
    <3>2. AccelerationEnds(j, b, t) =
            [Turned EXCEPT !.steps_per_tick = j.steps_per_tick]
      BY <2>4, <1>2 DEF AccelerationEnds
    <3>3. AccelerationEnds(j, b, t) \in TickInfo
      <4> HIDE DEF Turned
      <4> QED BY <2>5, <3>1, <3>2, FieldChanges
    <3> QED
      BY <1>2, <3>2, <3>3 DEF TickInfo, Turned
  <2> QED
    BY <2>1, <2>2, <2>3, <2>4
<1>3. ASSUME NEW j, Same(j) PROVE Same(DecelerationBegins(j, b, t))
  BY <1>3 DEF DecelerationBegins, TickInfo
<1> HIDE DEF Same
<1>4. Same(Event(Accelerated(i), b, t))
  BY <1>1, <1>2, <1>3 DEF Event
<1> QED
  BY <1>4 DEF Same

\* A tick brings the motor nearer to its next step, or to it.
LEMMA AdvanceCounts ==
    ASSUME NEW i \in TickInfo, NEW b \in BlockType, NEW t \in Nat
    PROVE  /\ Advance(i, b, t) \in TickInfo
           /\ \/ Advance(i, b, t).counter > i.counter
              \/ Advance(i, b, t).counter = Scale
           /\ Advance(i, b, t).step_count = i.step_count
           /\ Advance(i, b, t).steps_to_move = i.steps_to_move
<1> DEFINE j == Event(Accelerated(i), b, t)
           k == Protected(j)
<1>1. /\ j \in TickInfo /\ j.counter = i.counter
      /\ j.step_count = i.step_count /\ j.steps_to_move = i.steps_to_move
  BY EventKeeps
<1> HIDE DEF j
<1>2. /\ k \in TickInfo /\ k.step_count = i.step_count
      /\ k.steps_to_move = i.steps_to_move /\ k.steps_per_tick >= 0
      /\ \/ k.steps_per_tick > 0 /\ k.counter = i.counter
         \/ k.steps_per_tick = 0 /\ k.counter = Scale
  <2>1. CASE j.steps_per_tick <= 0
    <3>1. k = [[j EXCEPT !.counter = Scale] EXCEPT !.steps_per_tick = 0]
      BY <2>1 DEF Protected
    <3>2. k \in TickInfo
      <4> DEFINE forced_step == [j EXCEPT !.counter = Scale]
      <4>1. forced_step \in TickInfo
        BY <1>1, FieldChanges, TickAssumption
      <4> HIDE DEF forced_step
      <4>2. [forced_step EXCEPT !.steps_per_tick = 0] \in TickInfo
        BY <4>1, FieldChanges
      <4> QED
        BY <3>1, <4>2 DEF forced_step
    <3> QED
      BY <1>1, <3>1, <3>2 DEF TickInfo
  <2>2. CASE ~(j.steps_per_tick <= 0)
    BY <1>1, <2>2 DEF Protected, TickInfo
  <2> QED
    BY <2>1, <2>2
<1> HIDE DEF k
<1>3. /\ Summed(k) \in TickInfo /\ Summed(k).step_count = i.step_count
      /\ Summed(k).steps_to_move = i.steps_to_move
      /\ Summed(k).counter = k.counter + k.steps_per_tick
  BY <1>2 DEF Summed, TickInfo
<1>4. i.counter \in Nat /\ k.steps_per_tick \in Int /\ k.counter \in Nat
  BY <1>2 DEF TickInfo
<1>5. Advance(i, b, t) = Summed(k)
  BY DEF Advance, k, j
<1> QED
  BY <1>2, <1>3, <1>4, <1>5, TickAssumption

-----------------------------------------------------------------------------
(***************************************************************************)
(* All motors in one tick                                                  *)
(***************************************************************************)

After(e, m) == Advance(e.tick_info[m], e.block, e.current_tick)

\* The four things that can happen to a motor.
Skipped(e, r, m, ms) ==
    /\ m \notin Active(e)
    /\ r.exec.tick_info[m] = e.tick_info[m]
    /\ r.exec.issued[m] = e.issued[m] /\ r.exec.after[m] = e.after[m]
    /\ m \in r.moving <=> m \in ms

Waits(e, r, m, ms) ==
    /\ m \in Active(e) /\ ~Steps(After(e, m))
    /\ r.exec.tick_info[m] = After(e, m)
    /\ r.exec.issued[m] = e.issued[m] /\ r.exec.after[m] = e.after[m]
    /\ m \in r.moving <=> m \in ms

Issued(e, r, m) ==
    /\ m \in Active(e) /\ Steps(After(e, m))
    /\ r.exec.issued[m] = e.issued[m] + 1
    /\ r.exec.after[m] = IF e.after[m] >= 0 THEN e.after[m] + 1 ELSE e.after[m]

Goes(e, r, m, ms) ==
    /\ Issued(e, r, m)
    /\ ~Done(Stepped(After(e, m)), m \in ms)
    /\ r.exec.tick_info[m] = Stepped(After(e, m))
    /\ m \in r.moving <=> m \in ms

Ends(e, r, m, ms) ==
    /\ Issued(e, r, m)
    /\ Done(Stepped(After(e, m)), m \in ms)
    /\ r.exec.tick_info[m] = [Stepped(After(e, m)) EXCEPT !.steps_to_move = 0]
    /\ m \notin r.moving

\* What a tick changes of an execution, field by field.
LEMMA TickedParts ==
    ASSUME NEW e \in Execution, NEW ms \in SUBSET Motors
    PROVE  LET r == Ticked(e, ms)
           IN  /\ r.exec.block = e.block
               /\ r.exec.current_tick = e.current_tick + 1
               /\ r.moving \subseteq ms
               /\ r.still_moving <=> \E m \in Active(e) : m \in r.moving
               /\ \A m \in Motors : \/ Skipped(e, r, m, ms) \/ Waits(e, r, m, ms)
                                    \/ Goes(e, r, m, ms) \/ Ends(e, r, m, ms)
               /\ r.exec = [block |-> r.exec.block,
                            current_tick |-> r.exec.current_tick,
                            tick_info |-> r.exec.tick_info,
                            issued |-> r.exec.issued, after |-> r.exec.after]
               /\ r.exec.tick_info = [m \in Motors |-> r.exec.tick_info[m]]
               /\ r.exec.issued = [m \in Motors |-> r.exec.issued[m]]
               /\ r.exec.after = [m \in Motors |-> r.exec.after[m]]
<1> DEFINE next == [m \in Active(e) |->
                       Advance(e.tick_info[m], e.block, e.current_tick)]
           steps == {m \in Active(e) : Steps(next[m])}
           done == {m \in steps : Done(Stepped(next[m]), m \in ms)}
           info == [m \in Motors |->
                      IF m \in done
                        THEN [Stepped(next[m]) EXCEPT !.steps_to_move = 0]
                      ELSE IF m \in steps THEN Stepped(next[m])
                      ELSE IF m \in Active(e) THEN next[m]
                      ELSE e.tick_info[m]]
           issued == [m \in Motors |-> IF m \in steps
                        THEN e.issued[m] + 1 ELSE e.issued[m]]
           after == [m \in Motors |-> IF m \in steps /\ e.after[m] >= 0
                       THEN e.after[m] + 1 ELSE e.after[m]]
           r == Ticked(e, ms)
<1>1. r = [steps |-> steps, moving |-> ms \ done,
           still_moving |-> Active(e) \cap (ms \ done) # {},
           exec |-> [block |-> e.block, current_tick |-> e.current_tick + 1,
                     tick_info |-> info, issued |-> issued, after |-> after]]
  BY DEF Ticked
<1>2. \A m \in Active(e) : next[m] = After(e, m)
  BY DEF After
<1> HIDE DEF next
<1>3. done \subseteq steps /\ steps \subseteq Active(e) /\ Active(e) \subseteq Motors
  BY DEF Active
<1>4. /\ r.exec = [block |-> e.block, current_tick |-> e.current_tick + 1,
                   tick_info |-> info, issued |-> issued, after |-> after]
      /\ r.moving = ms \ done
      /\ r.still_moving = (Active(e) \cap (ms \ done) # {})
  BY <1>1
<1>5. /\ r.exec.block = e.block /\ r.exec.current_tick = e.current_tick + 1
      /\ r.exec.tick_info = info /\ r.exec.issued = issued
      /\ r.exec.after = after
  BY <1>4
<1>6. ASSUME NEW m \in Motors
      PROVE  \/ Skipped(e, r, m, ms) \/ Waits(e, r, m, ms)
             \/ Goes(e, r, m, ms) \/ Ends(e, r, m, ms)
  <2> HIDE DEF r
  <2>1. CASE m \notin Active(e)
    BY <1>3, <1>4, <1>5, <2>1 DEF Skipped
  <2>2. CASE m \in Active(e) /\ m \notin steps
    <3>1. ~Steps(After(e, m))
      BY <1>2, <2>2
    <3> QED
      BY <1>2, <1>3, <1>4, <1>5, <2>2, <3>1 DEF Waits
  <2>3. CASE m \in steps
    <3>1. Steps(After(e, m)) /\ m \in Active(e) /\ next[m] = After(e, m)
      BY <1>2, <2>3
    <3>2. Issued(e, r, m)
      BY <1>5, <2>3, <3>1 DEF Issued
    <3>3. CASE m \in done
      <4>1. Done(Stepped(After(e, m)), m \in ms)
        BY <3>1, <3>3
      <4>2. info[m] = [Stepped(After(e, m)) EXCEPT !.steps_to_move = 0]
        BY <3>1, <3>3
      <4>3. m \notin r.moving
        BY <1>4, <3>3
      <4> HIDE DEF info, done
      <4> QED
        BY <1>5, <3>2, <4>1, <4>2, <4>3 DEF Ends
    <3>4. CASE m \notin done
      <4>1. ~Done(Stepped(After(e, m)), m \in ms)
        BY <2>3, <3>1, <3>4
      <4>2. info[m] = Stepped(After(e, m))
        BY <2>3, <3>1, <3>4
      <4>3. m \in r.moving <=> m \in ms
        BY <1>4, <3>4
      <4> HIDE DEF info, done
      <4> QED
        BY <1>5, <3>2, <4>1, <4>2, <4>3 DEF Goes
    <3> QED
      BY <3>3, <3>4
  <2> QED
    BY <2>1, <2>2, <2>3
<1>7. r.moving \subseteq ms
  BY <1>4
<1>8. r.still_moving <=> \E m \in Active(e) : m \in r.moving
  <2> HIDE DEF r, done
  <2> QED BY <1>4, <1>3
<1> HIDE DEF r
<1>9. /\ r.exec = [block |-> r.exec.block,
                   current_tick |-> r.exec.current_tick,
                   tick_info |-> r.exec.tick_info,
                   issued |-> r.exec.issued, after |-> r.exec.after]
      /\ r.exec.tick_info = [m \in Motors |-> r.exec.tick_info[m]]
      /\ r.exec.issued = [m \in Motors |-> r.exec.issued[m]]
      /\ r.exec.after = [m \in Motors |-> r.exec.after[m]]
  BY <1>4, <1>5
<1> QED
  BY <1>5, <1>6, <1>7, <1>8, <1>9 DEF r

-----------------------------------------------------------------------------
(***************************************************************************)
(* The invariant of a block that is executed                               *)
(***************************************************************************)

\* What of the sum counts towards the next step.
Capped(c) == IF c < Scale THEN c ELSE Scale - 1

\* An active motor has steps left, moves unless it was stopped, and comes nearer
\* to its next step with each of the t ticks.
Counting(i, t, steps, issued, after, is_moving) ==
    /\ i.steps_to_move = steps /\ issued < steps
    /\ (after = -1 /\ is_moving) \/ (after = 0 /\ ~is_moving)
    /\ Scale * issued + Capped(i.counter) >= t

\* A motor that has ended has given its steps, or was stopped before.
Given(steps, issued, after) ==
    IF after = -1 THEN issued = steps ELSE issued <= steps /\ after <= 1

MotorOK(e, m, ms) ==
    /\ e.tick_info[m].step_count = e.issued[m]
    /\ IF e.tick_info[m].steps_to_move = 0
         THEN Given(e.block.steps[m], e.issued[m], e.after[m])
         ELSE Counting(e.tick_info[m], e.current_tick, e.block.steps[m],
                       e.issued[m], e.after[m], m \in ms)

Sound(e, ms) ==
    /\ e \in Execution
    /\ \A m \in Motors : e.block.steps[m] <= e.block.steps_event_count
    /\ \A m \in Motors : MotorOK(e, m, ms)

\* The sum and the steps after a tick, against those before it.
LEMMA Nearer ==
    ASSUME NEW n \in Nat, NEW c \in Nat, NEW d \in Nat, NEW t \in Nat,
           Scale * n + Capped(c) >= t, d > c \/ d = Scale
    PROVE  /\ d < Scale => Scale * n + Capped(d) >= t + 1
           /\ d >= Scale => Scale * (n + 1) + Capped(d - Scale) >= t + 1
<1>1. Scale \in Nat /\ Scale > 0 /\ Scale * n \in Nat
  BY TickAssumption
<1>2. Scale * (n + 1) = Scale * n + Scale
  BY <1>1
<1>3. d < Scale => Capped(d) >= Capped(c) + 1
  BY <1>1 DEF Capped
<1>4. /\ Capped(c) \in Nat /\ Capped(c) + 1 <= Scale
      /\ d >= Scale => Capped(d - Scale) \in Nat
      /\ Capped(d) \in Nat
  BY <1>1 DEF Capped
<1> QED
  BY <1>1, <1>2, <1>3, <1>4

\* A step adds one to the count and takes Scale from the counter.
LEMMA SteppedInfo ==
    ASSUME NEW i \in TickInfo, Steps(i)
    PROVE  /\ Stepped(i) \in TickInfo
           /\ Stepped(i).counter = i.counter - Scale
           /\ Stepped(i).step_count = i.step_count + 1
           /\ Stepped(i).steps_to_move = i.steps_to_move
           /\ [Stepped(i) EXCEPT !.steps_to_move = 0] \in TickInfo
           /\ [Stepped(i) EXCEPT !.steps_to_move = 0].steps_to_move = 0
           /\ [Stepped(i) EXCEPT !.steps_to_move = 0].step_count = i.step_count + 1
<1>1. i.counter - Scale \in Nat /\ i.step_count + 1 \in Nat
  BY TickAssumption DEF Steps, TickInfo
<1> DEFINE less == [i EXCEPT !.counter = i.counter - Scale]
<1>2. less \in TickInfo
  BY <1>1, FieldChanges
<1> HIDE DEF less
<1>3. [less EXCEPT !.step_count = i.step_count + 1] \in TickInfo
  BY <1>1, <1>2, FieldChanges
<1>4. Stepped(i) = [less EXCEPT !.step_count = i.step_count + 1]
  BY DEF Stepped, TickInfo, less
<1>5. Stepped(i) \in TickInfo
  BY <1>3, <1>4
<1>6. /\ Stepped(i).counter = i.counter - Scale
      /\ Stepped(i).step_count = i.step_count + 1
      /\ Stepped(i).steps_to_move = i.steps_to_move
  BY DEF Stepped, TickInfo
<1> DEFINE z == Stepped(i)
<1>7. z \in TickInfo /\ z.step_count = i.step_count + 1
  BY <1>5, <1>6
<1> HIDE DEF z
<1>8. /\ [z EXCEPT !.steps_to_move = 0] \in TickInfo
      /\ [z EXCEPT !.steps_to_move = 0].steps_to_move = 0
      /\ [z EXCEPT !.steps_to_move = 0].step_count = i.step_count + 1
  BY <1>7, FieldChanges DEF TickInfo
<1> QED
  BY <1>5, <1>6, <1>8 DEF z

\* A tick keeps what is known of a motor.
LEMMA TickMotor ==
    ASSUME NEW e \in Execution, NEW ms \in SUBSET Motors, NEW m \in Motors,
           MotorOK(e, m, ms)
    PROVE  LET r == Ticked(e, ms)
           IN  /\ MotorOK(r.exec, m, r.moving)
               /\ r.exec.tick_info[m] \in TickInfo
               /\ r.exec.issued[m] \in Nat /\ r.exec.after[m] \in Nat \cup {-1}
<1> DEFINE r == Ticked(e, ms)
           a == After(e, m)
           i == e.tick_info[m]
<1> SUFFICES /\ MotorOK(r.exec, m, r.moving)
             /\ r.exec.tick_info[m] \in TickInfo
             /\ r.exec.issued[m] \in Nat /\ r.exec.after[m] \in Nat \cup {-1}
  OBVIOUS
<1>1. /\ r.exec.block = e.block
      /\ r.exec.current_tick = e.current_tick + 1
      /\ \/ Skipped(e, r, m, ms) \/ Waits(e, r, m, ms)
         \/ Goes(e, r, m, ms) \/ Ends(e, r, m, ms)
  BY TickedParts
<1> HIDE DEF r
<1>2. /\ i \in TickInfo /\ e.block \in BlockType /\ e.current_tick \in Nat
      /\ e.issued[m] \in Nat /\ e.after[m] \in Nat \cup {-1}
      /\ e.block.steps[m] \in Nat
  BY DEF Execution, BlockType
<1>3. /\ a \in TickInfo /\ (a.counter > i.counter \/ a.counter = Scale)
      /\ a.step_count = i.step_count /\ a.steps_to_move = i.steps_to_move
  BY <1>2, AdvanceCounts DEF After
<1> HIDE DEF a
<1>4. /\ a.counter \in Nat /\ i.counter \in Nat /\ i.step_count \in Nat
  BY <1>2, <1>3 DEF TickInfo
<1>5. m \in Active(e) <=> i.steps_to_move # 0
  BY DEF Active
<1>6. i.step_count = e.issued[m]
  BY DEF MotorOK
<1>7. ASSUME m \in Active(e)
      PROVE  Counting(i, e.current_tick, e.block.steps[m], e.issued[m],
                      e.after[m], m \in ms)
  BY <1>5, <1>7 DEF MotorOK
<1>8. CASE Skipped(e, r, m, ms)
  <2>1. Given(e.block.steps[m], e.issued[m], e.after[m]) /\ i.steps_to_move = 0
    BY <1>5, <1>8 DEF MotorOK, Skipped
  <2> QED
    BY <1>1, <1>2, <1>6, <1>8, <2>1 DEF MotorOK, Skipped
<1>9. CASE Waits(e, r, m, ms)
  <2>1. /\ m \in Active(e) /\ a.counter < Scale
        /\ r.exec.tick_info[m] = a /\ r.exec.issued[m] = e.issued[m]
        /\ r.exec.after[m] = e.after[m] /\ (m \in r.moving <=> m \in ms)
    BY <1>4, <1>9, TickAssumption DEF Waits, Steps, a
  <2>2. Scale * e.issued[m] + Capped(a.counter) >= e.current_tick + 1
    BY <1>2, <1>3, <1>4, <1>7, <2>1, Nearer DEF Counting
  <2>3. Counting(a, e.current_tick + 1, e.block.steps[m], e.issued[m],
                 e.after[m], m \in r.moving)
    BY <1>3, <1>7, <2>1, <2>2 DEF Counting
  <2> QED
    BY <1>1, <1>2, <1>3, <1>5, <1>6, <2>1, <2>3 DEF MotorOK
<1>10. CASE Goes(e, r, m, ms)
  <2>1. /\ m \in Active(e) /\ Steps(a) /\ a.counter >= Scale
        /\ r.exec.tick_info[m] = Stepped(a)
        /\ r.exec.issued[m] = e.issued[m] + 1
        /\ r.exec.after[m] = IF e.after[m] >= 0 THEN e.after[m] + 1 ELSE e.after[m]
        /\ (m \in r.moving <=> m \in ms) /\ ~Done(Stepped(a), m \in ms)
    BY <1>10 DEF Goes, Issued, Steps, a
  <2>2. /\ Stepped(a) \in TickInfo /\ Stepped(a).counter = a.counter - Scale
        /\ Stepped(a).step_count = e.issued[m] + 1
        /\ Stepped(a).steps_to_move = i.steps_to_move
    BY <1>3, <1>6, <2>1, SteppedInfo
  <2>3. /\ m \in ms /\ e.issued[m] + 1 # i.steps_to_move
    BY <2>1, <2>2 DEF Done
  <2>4. /\ i.steps_to_move = e.block.steps[m] /\ e.issued[m] < e.block.steps[m]
        /\ e.after[m] = -1
        /\ Scale * e.issued[m] + Capped(i.counter) >= e.current_tick
    BY <1>7, <2>1, <2>3 DEF Counting
  <2>5. /\ r.exec.after[m] = -1 /\ m \in r.moving
        /\ e.issued[m] + 1 < e.block.steps[m]
    BY <1>2, <2>1, <2>3, <2>4
  <2>6. Scale * (e.issued[m] + 1) + Capped(a.counter - Scale)
          >= e.current_tick + 1
    BY <1>2, <1>3, <1>4, <2>1, <2>4, Nearer
  <2>7. Counting(Stepped(a), e.current_tick + 1, e.block.steps[m],
                 e.issued[m] + 1, -1, m \in r.moving)
    BY <2>2, <2>4, <2>5, <2>6 DEF Counting
  <2>8. r.exec.tick_info[m].steps_to_move # 0
    BY <1>5, <2>1, <2>2
  <2> QED
    BY <1>1, <1>2, <2>1, <2>2, <2>5, <2>7, <2>8 DEF MotorOK
<1>11. CASE Ends(e, r, m, ms)
  <2>1. /\ m \in Active(e) /\ Steps(a)
        /\ r.exec.tick_info[m] = [Stepped(a) EXCEPT !.steps_to_move = 0]
        /\ r.exec.issued[m] = e.issued[m] + 1
        /\ r.exec.after[m] = IF e.after[m] >= 0 THEN e.after[m] + 1 ELSE e.after[m]
        /\ Done(Stepped(a), m \in ms)
    BY <1>11 DEF Ends, Issued, a
  <2>2. /\ [Stepped(a) EXCEPT !.steps_to_move = 0] \in TickInfo
        /\ [Stepped(a) EXCEPT !.steps_to_move = 0].steps_to_move = 0
        /\ [Stepped(a) EXCEPT !.steps_to_move = 0].step_count = e.issued[m] + 1
        /\ Stepped(a).step_count = e.issued[m] + 1
        /\ Stepped(a).steps_to_move = i.steps_to_move
    BY <1>3, <1>6, <2>1, SteppedInfo
  <2>3. m \notin ms \/ e.issued[m] + 1 = i.steps_to_move
    BY <2>1, <2>2 DEF Done
  <2>4. /\ i.steps_to_move = e.block.steps[m] /\ e.issued[m] < e.block.steps[m]
        /\ (e.after[m] = -1 /\ m \in ms) \/ (e.after[m] = 0 /\ m \notin ms)
    BY <1>7, <2>1 DEF Counting
  <2>5. Given(e.block.steps[m], r.exec.issued[m], r.exec.after[m])
    BY <1>2, <2>1, <2>3, <2>4 DEF Given
  <2> QED
    BY <1>1, <1>2, <2>1, <2>2, <2>5 DEF MotorOK
<1> QED
  BY <1>1, <1>8, <1>9, <1>10, <1>11

\* A tick keeps the invariant of the block; the block ends only if its motors
\* have their steps, and goes on only if one has steps left.
LEMMA TickBlock ==
    ASSUME NEW e, NEW ms \in SUBSET Motors, Sound(e, ms)
    PROVE  LET r == Ticked(e, ms)
           IN  /\ Sound(r.exec, r.moving)
               /\ r.moving \subseteq Motors
               /\ r.still_moving => Active(r.exec) # {}
               /\ ~r.still_moving => Exact(r.exec)
<1> DEFINE r == Ticked(e, ms)
<1> SUFFICES /\ Sound(r.exec, r.moving)
             /\ r.moving \subseteq Motors
             /\ r.still_moving => Active(r.exec) # {}
             /\ ~r.still_moving => Exact(r.exec)
  OBVIOUS
<1>1. /\ e \in Execution /\ \A m \in Motors : MotorOK(e, m, ms)
      /\ \A m \in Motors : e.block.steps[m] <= e.block.steps_event_count
  BY DEF Sound
<1>2. /\ r.exec.block = e.block
      /\ r.exec.current_tick = e.current_tick + 1
      /\ r.moving \subseteq ms
      /\ r.still_moving <=> \E m \in Active(e) : m \in r.moving
      /\ \A m \in Motors : \/ Skipped(e, r, m, ms) \/ Waits(e, r, m, ms)
                           \/ Goes(e, r, m, ms) \/ Ends(e, r, m, ms)
      /\ r.exec = [block |-> r.exec.block, current_tick |-> r.exec.current_tick,
                   tick_info |-> r.exec.tick_info,
                   issued |-> r.exec.issued, after |-> r.exec.after]
      /\ r.exec.tick_info = [m \in Motors |-> r.exec.tick_info[m]]
      /\ r.exec.issued = [m \in Motors |-> r.exec.issued[m]]
      /\ r.exec.after = [m \in Motors |-> r.exec.after[m]]
  BY <1>1, TickedParts
<1>3. \A m \in Motors :
         /\ MotorOK(r.exec, m, r.moving)
         /\ r.exec.tick_info[m] \in TickInfo
         /\ r.exec.issued[m] \in Nat /\ r.exec.after[m] \in Nat \cup {-1}
  BY <1>1, TickMotor
<1> HIDE DEF r
<1>4. r.exec \in Execution
  <2>1. /\ r.exec.tick_info \in [Motors -> TickInfo]
        /\ r.exec.issued \in [Motors -> Nat]
        /\ r.exec.after \in [Motors -> Nat \cup {-1}]
    <3> DEFINE x == r.exec
    <3>1. /\ x.tick_info = [m \in Motors |-> x.tick_info[m]]
          /\ x.issued = [m \in Motors |-> x.issued[m]]
          /\ x.after = [m \in Motors |-> x.after[m]]
      BY <1>2
    <3>2. \A m \in Motors : /\ x.tick_info[m] \in TickInfo
                            /\ x.issued[m] \in Nat
                            /\ x.after[m] \in Nat \cup {-1}
      BY <1>3
    <3> HIDE DEF x
    <3>3. x.tick_info \in [Motors -> TickInfo]
      BY <3>1, <3>2
    <3>4. x.issued \in [Motors -> Nat]
      BY <3>1, <3>2
    <3>5. x.after \in [Motors -> Nat \cup {-1}]
      BY <3>1, <3>2
    <3> QED
      BY <3>3, <3>4, <3>5 DEF x
  <2>2. r.exec.block \in BlockType /\ r.exec.current_tick \in Nat
    BY <1>1, <1>2 DEF Execution
  <2> QED
    BY <1>2, <2>1, <2>2 DEF Execution
<1>5. Sound(r.exec, r.moving)
  BY <1>1, <1>2, <1>3, <1>4 DEF Sound
<1>6. ASSUME r.still_moving PROVE Active(r.exec) # {}
  <2>1. PICK m \in Active(e) : m \in r.moving
    BY <1>2, <1>6
  <2>2. m \in Motors /\ e.tick_info[m].steps_to_move # 0
    BY <2>1 DEF Active
  <2>3. /\ e.tick_info[m] \in TickInfo /\ e.block \in BlockType
        /\ e.current_tick \in Nat
    BY <1>1, <2>2 DEF Execution
  <2>4. /\ After(e, m) \in TickInfo
        /\ After(e, m).steps_to_move = e.tick_info[m].steps_to_move
    BY <2>3, AdvanceCounts DEF After
  <2>5. Waits(e, r, m, ms) \/ Goes(e, r, m, ms)
    BY <1>2, <2>1, <2>2 DEF Skipped, Ends
  <2>6. r.exec.tick_info[m].steps_to_move # 0
    <3>1. CASE Waits(e, r, m, ms)
      BY <2>2, <2>4, <3>1 DEF Waits
    <3>2. CASE Goes(e, r, m, ms)
      <4>1. /\ Steps(After(e, m))
            /\ r.exec.tick_info[m] = Stepped(After(e, m))
        BY <3>2 DEF Goes, Issued
      <4> QED
        BY <2>2, <2>4, <4>1, SteppedInfo
    <3> QED
      BY <2>5, <3>1, <3>2
  <2> QED
    BY <2>2, <2>6 DEF Active
<1>7. ASSUME ~r.still_moving PROVE Exact(r.exec)
  <2> SUFFICES ASSUME NEW m \in Motors
               PROVE  Given(r.exec.block.steps[m], r.exec.issued[m],
                            r.exec.after[m])
    BY DEF Exact, Given
  <2>1. CASE r.exec.tick_info[m].steps_to_move = 0
    BY <1>3, <2>1 DEF MotorOK
  <2>2. CASE r.exec.tick_info[m].steps_to_move # 0
    <3>1. m \in Active(e)
      BY <1>2, <2>2 DEF Skipped, Waits, Goes, Ends, Issued, Active
    <3>2. m \notin r.moving
      BY <1>2, <1>7, <3>1
    <3>3. /\ r.exec.after[m] = 0
          /\ r.exec.issued[m] < r.exec.block.steps[m]
      BY <1>3, <2>2, <3>2 DEF MotorOK, Counting
    <3>4. r.exec.issued[m] \in Nat /\ r.exec.block.steps[m] \in Nat
      BY <1>3, <1>4 DEF Execution, BlockType
    <3> QED
      BY <3>3, <3>4 DEF Given
  <2> QED
    BY <2>1, <2>2
<1> QED
  BY <1>2, <1>5, <1>6, <1>7

\* A block as start_next_block hands it over.
LEMMA FreshSound ==
    ASSUME NEW b \in Blocks, NEW ms \in SUBSET Motors, Moves(b) \subseteq ms
    PROVE  Sound(Fresh(b), ms) /\ Active(Fresh(b)) # {}
<1>1. PICK l \in Lengths, h \in Shapes : b = Block(l, h)
  BY DEF Blocks
<1>2. /\ l.steps \in [Motors -> 0 .. MaxSteps]
      /\ l.steps_event_count \in 1 .. MaxSteps
      /\ \A m \in Motors : l.steps[m] <= l.steps_event_count
      /\ \E m \in Motors : l.steps[m] = l.steps_event_count
  BY DEF Lengths
<1>3. /\ h.initial \in Nat /\ h.maximum \in Nat /\ h.final \in Nat
      /\ h.accelerate_until \in Nat /\ h.decelerate_after \in Nat
      /\ h.total_move_ticks \in Nat
      /\ h.initial <= h.maximum /\ h.final <= h.maximum
      /\ h.decelerate_after <= h.total_move_ticks
  <2>1. ShapeOK(h) /\ Scale \in Nat
    BY TickAssumption
  <2>2. {h.initial, h.maximum, h.final} \subseteq 0 .. Scale
    BY <2>1 DEF ShapeOK
  <2>3. h.initial \in 0 .. Scale /\ h.maximum \in 0 .. Scale /\ h.final \in 0 .. Scale
    BY <2>2
  <2>4. /\ h.total_move_ticks \in Nat
        /\ h.decelerate_after \in 0 .. h.total_move_ticks
        /\ h.accelerate_until \in 0 .. h.decelerate_after
        /\ h.initial <= h.maximum /\ h.final <= h.maximum
    BY <2>1 DEF ShapeOK
  <2> QED
    BY <2>1, <2>3, <2>4
<1>4. /\ b.steps = l.steps /\ b.steps_event_count = l.steps_event_count
      /\ b.initial = h.initial /\ b.maximum = h.maximum /\ b.final = h.final
      /\ b.accelerate_until = h.accelerate_until
      /\ b.decelerate_after = h.decelerate_after
      /\ b.total_move_ticks = h.total_move_ticks
  BY <1>1 DEF Block
<1>5. l.steps \in [Motors -> Nat] /\ l.steps_event_count \in Nat
  BY <1>2
<1>6. b \in BlockType
  BY <1>1, <1>3, <1>5 DEF BlockType, Block
<1>7. b.steps_event_count > 0
  BY <1>2, <1>4, TickAssumption
<1>8. prepare(b) \in [Motors -> TickInfo]
  BY <1>3, <1>4, <1>6, <1>7, Prepared
<1> DEFINE e == Fresh(b)
<1>9. /\ e.block = b /\ e.tick_info = prepare(b) /\ e.current_tick = 0
      /\ e.issued = [m \in Motors |-> 0] /\ e.after = [m \in Motors |-> -1]
  BY DEF Fresh
<1>10. e \in Execution
  BY <1>6, <1>8 DEF Fresh, Execution
<1>11. \A m \in Motors : /\ prepare(b)[m].steps_to_move = b.steps[m]
                         /\ prepare(b)[m].step_count = 0
                         /\ prepare(b)[m].counter = 0
  BY DEF prepare
<1> HIDE DEF e
<1>12. ASSUME NEW m \in Motors PROVE MotorOK(e, m, ms)
  <2>1. /\ e.tick_info[m].steps_to_move = b.steps[m]
        /\ e.tick_info[m].step_count = 0 /\ e.tick_info[m].counter = 0
        /\ e.issued[m] = 0 /\ e.after[m] = -1 /\ e.current_tick = 0
        /\ e.block.steps[m] = b.steps[m] /\ b.steps[m] \in Nat
    BY <1>4, <1>5, <1>9, <1>11
  <2>2. CASE b.steps[m] = 0
    BY <2>1, <2>2 DEF MotorOK, Given
  <2>3. CASE b.steps[m] # 0
    <3>1. m \in ms
      BY <2>3 DEF Moves
    <3>2. Scale * 0 + Capped(0) >= 0
      BY TickAssumption DEF Capped
    <3> QED
      BY <2>1, <2>3, <3>1, <3>2 DEF MotorOK, Counting
  <2> QED
    BY <2>2, <2>3
<1>13. Sound(e, ms)
  BY <1>2, <1>4, <1>9, <1>10, <1>12 DEF Sound
<1>14. Active(e) # {}
  <2>1. PICK m \in Motors : l.steps[m] = l.steps_event_count
    BY <1>2
  <2>2. e.tick_info[m].steps_to_move # 0
    BY <1>4, <1>7, <1>9, <1>11, <2>1
  <2> QED
    BY <2>1, <2>2 DEF Active
<1> QED
  BY <1>13, <1>14 DEF e

-----------------------------------------------------------------------------
(***************************************************************************)
(* The steps of the specification                                          *)
(***************************************************************************)

BlockInv ==
    /\ moving \subseteq Motors /\ running \in BOOLEAN /\ exact = TRUE
    /\ running => Sound(exec, moving) /\ Active(exec) # {}

\* The invariant of the executing block holds initially ...
LEMMA BlockInit == Init => BlockInv
  BY DEF Init, BlockInv

\* One tick, of the block that runs or of one just taken.
LEMMA TickStep ==
    ASSUME BlockInv, NEW f, NEW e, NEW ms \in SUBSET Motors, NEW n,
           Sound(e, ms), Tick(f, e, ms, n)
    PROVE  BlockInv'
<1>1. PICK r \in {Ticked(e, ms)} :
         \/ /\ r.still_moving
            /\ running' = TRUE /\ exec' = r.exec /\ moving' = r.moving
            /\ UNCHANGED exact
         \/ /\ ~r.still_moving
            /\ exact' = (exact /\ Exact(r.exec))
            /\ \/ Rest /\ moving' = r.moving
               \/ /\ running' = TRUE
                  /\ \E b \in Blocks : /\ moving' = r.moving \cup Moves(b)
                                       /\ exec' = Fresh(b)
  BY DEF Tick
<1>2. /\ Sound(r.exec, r.moving) /\ r.moving \subseteq Motors
      /\ r.still_moving => Active(r.exec) # {}
      /\ ~r.still_moving => Exact(r.exec)
  <2>1. r = Ticked(e, ms)
    OBVIOUS
  <2> HIDE <1>1
  <2> QED
    BY <2>1, TickBlock
<1> HIDE DEF Rest
<1>3. CASE /\ r.still_moving
           /\ running' = TRUE /\ exec' = r.exec /\ moving' = r.moving
           /\ UNCHANGED exact
  BY <1>2, <1>3 DEF BlockInv
<1>4. CASE ~r.still_moving /\ exact' = (exact /\ Exact(r.exec))
  <2>1. exact' = TRUE
    BY <1>2, <1>4, Zenon DEF BlockInv
  <2>2. CASE Rest /\ moving' = r.moving
    BY <1>2, <2>1, <2>2 DEF BlockInv, Rest
  <2>3. CASE /\ running' = TRUE
             /\ \E b \in Blocks : /\ moving' = r.moving \cup Moves(b)
                                  /\ exec' = Fresh(b)
    <3>1. PICK b \in Blocks : moving' = r.moving \cup Moves(b) /\ exec' = Fresh(b)
      BY <2>3
    <3>2. moving' \in SUBSET Motors /\ Moves(b) \subseteq moving'
      BY <1>2, <3>1 DEF Moves
    <3>3. Sound(exec', moving') /\ Active(exec') # {}
      BY <3>1, <3>2, FreshSound
    <3> QED
      BY <2>1, <2>3, <3>2, <3>3 DEF BlockInv
  <2> QED
    BY <1>1, <1>4, <2>2, <2>3
<1> QED
  BY <1>1, <1>3, <1>4

\* A motor stopped from outside has one step more at most.
LEMMA StopStep ==
    ASSUME BlockInv, NEW m \in Motors, Stop(m)
    PROVE  BlockInv'
<1>1. /\ running /\ m \in moving /\ m \in Active(exec)
      /\ moving' = moving \ {m} /\ exec' = [exec EXCEPT !.after[m] = 0]
      /\ running' = running /\ exact' = exact
  BY DEF Stop, history
<1>2. Sound(exec, moving)
  BY <1>1 DEF BlockInv
<1>3. exec \in Execution
  BY <1>2 DEF Sound
<1>4. /\ exec' \in Execution
      /\ exec'.block = exec.block /\ exec'.tick_info = exec.tick_info
      /\ exec'.current_tick = exec.current_tick /\ exec'.issued = exec.issued
      /\ \A k \in Motors : exec'.after[k] = IF k = m THEN 0 ELSE exec.after[k]
  <2>1. exec.after \in [Motors -> Nat \cup {-1}]
    BY <1>3 DEF Execution
  <2>2. [exec.after EXCEPT ![m] = 0] \in [Motors -> Nat \cup {-1}]
    BY <2>1
  <2>3. exec' = [exec EXCEPT !.after = [exec.after EXCEPT ![m] = 0]]
    BY <1>1
  <2> DEFINE after == [exec.after EXCEPT ![m] = 0]
  <2>4. \A k \in Motors : after[k] = IF k = m THEN 0 ELSE exec.after[k]
    BY <2>1
  <2> HIDE DEF after
  <2> QED
    BY <1>3, <2>2, <2>3, <2>4 DEF Execution, after
<1>5. ASSUME NEW k \in Motors PROVE MotorOK(exec', k, moving')
  <2>1. MotorOK(exec, k, moving)
    BY <1>2 DEF Sound
  <2>2. CASE k = m
    <3>1. /\ exec.tick_info[m].steps_to_move # 0
      BY <1>1 DEF Active
    <3>2. m \notin moving'
      BY <1>1
    <3> QED
      BY <1>4, <2>1, <2>2, <3>1, <3>2 DEF MotorOK, Counting
  <2>3. CASE k # m
    <3>1. k \in moving' <=> k \in moving
      BY <1>1, <2>3
    <3> QED
      BY <1>4, <2>1, <2>3, <3>1 DEF MotorOK, Counting
  <2> QED
    BY <2>2, <2>3
<1>6. Sound(exec', moving')
  BY <1>2, <1>4, <1>5 DEF Sound
<1>7. Active(exec') # {}
  BY <1>1, <1>4 DEF Active
<1> QED
  BY <1>1, <1>6, <1>7 DEF BlockInv

\* ... and every action keeps it.
LEMMA BlockStep == BlockInv /\ [Next]_vars => BlockInv'
<1> SUFFICES ASSUME BlockInv, [Next]_vars PROVE BlockInv'
  OBVIOUS
<1>1. ASSUME NEW f, TickIdle(f) PROVE BlockInv'
  BY <1>1 DEF TickIdle, Rest, BlockInv
<1>2. ASSUME NEW f, TickHalted(f) PROVE BlockInv'
  BY <1>2 DEF TickHalted, Rest, BlockInv
<1>3. ASSUME NEW f, TickStarts(f) PROVE BlockInv'
  <2>1. PICK b \in Blocks : Tick(f, Fresh(b), moving \cup Moves(b), blocks + 1)
    BY <1>3 DEF TickStarts
  <2>2. moving \cup Moves(b) \in SUBSET Motors
    BY DEF BlockInv, Moves
  <2>3. Sound(Fresh(b), moving \cup Moves(b))
    BY <2>2, FreshSound
  <2> QED
    BY <2>1, <2>2, <2>3, TickStep
<1>4. ASSUME NEW f, TickRuns(f) PROVE BlockInv'
  <2>1. Tick(f, exec, moving, blocks) /\ Sound(exec, moving)
    BY <1>4 DEF TickRuns, BlockInv
  <2>2. moving \in SUBSET Motors
    BY DEF BlockInv
  <2> QED
    BY <2>1, <2>2, TickStep
<1>5. CASE unstep_tick
  <2>1. UNCHANGED <<running, exec, moving, exact>>
    BY <1>5 DEF unstep_tick, UnstepBegins, UnstepLooks, UnstepClears,
                UnstepEnds, history
  <2> QED
    BY <2>1 DEF BlockInv
<1>6. ASSUME NEW m \in Motors, Stop(m) PROVE BlockInv'
  BY <1>6, StopStep
<1>7. CASE Halt
  BY <1>7 DEF Halt, BlockInv, history
<1>8. CASE Release
  BY <1>8 DEF Release, BlockInv, history
<1>9. CASE UNCHANGED vars
  BY <1>9 DEF vars, BlockInv, history
<1> QED
  BY <1>1, <1>2, <1>3, <1>4, <1>5, <1>6, <1>7, <1>8, <1>9 DEF Next, step_tick

\* Every motor of the executing block has issued what its count says, has steps left
\* while it moves, and no block that ended was short of a step or had one too many.
THEOREM BlockInvariant == Spec => []BlockInv
  BY BlockInit, BlockStep, PTL DEF Spec

\* Whatever their rates round to and however many motors there are, a block that
\* ends has given each motor the steps the planner gave it.
THEOREM StepsAreExact == Spec => []StepsExact
<1>1. BlockInv => StepsExact
  BY DEF BlockInv, StepsExact
<1> QED
  BY <1>1, BlockInvariant, PTL

\* No block runs for ever: each step takes Scale ticks at most.
THEOREM BlocksDoEnd == Spec => []BlocksEnd
<1>1. ASSUME BlockInv, running
      PROVE  exec.current_tick < Scale * exec.block.steps_event_count
  <2>1. Sound(exec, moving) /\ Active(exec) # {}
    BY <1>1 DEF BlockInv
  <2>2. PICK m \in Motors : exec.tick_info[m].steps_to_move # 0
    BY <2>1 DEF Active
  <2> DEFINE c == exec.tick_info[m].counter
             n == exec.issued[m]
             s == exec.block.steps[m]
             x == exec.block.steps_event_count
             t == exec.current_tick
  <2>3. /\ c \in Nat /\ n \in Nat /\ s \in Nat /\ x \in Nat /\ t \in Nat
    BY <2>1 DEF Sound, Execution, BlockType, TickInfo
  <2>4. /\ n < s /\ s <= x /\ Scale * n + Capped(c) >= t
    BY <2>1, <2>2 DEF Sound, MotorOK, Counting
  <2> HIDE DEF c, n, s, x, t
  <2>5. Scale \in Nat /\ Scale > 0 /\ Capped(c) < Scale /\ Capped(c) \in Nat
    BY <2>3, TickAssumption DEF Capped
  <2>6. n + 1 <= x
    BY <2>3, <2>4
  <2>7. x - (n + 1) \in Nat
    BY <2>3, <2>6
  <2>8. Scale * (x - (n + 1)) >= 0
    BY <2>5, <2>7
  <2>9. Scale * (x - (n + 1)) = Scale * x - Scale * n - Scale
    BY <2>3, <2>5
  <2>10. Scale * x \in Nat /\ Scale * n \in Nat
    BY <2>3, <2>5
  <2>11. t < Scale * x
    BY <2>3, <2>4, <2>5, <2>8, <2>9, <2>10
  <2> QED
    BY <2>11 DEF x, t
<1>2. BlockInv => BlocksEnd
  BY <1>1 DEF BlocksEnd
<1> QED
  BY <1>2, BlockInvariant, PTL

-----------------------------------------------------------------------------
(***************************************************************************)
(* Rates: what a motor's share of the block's speeds is after each tick    *)
(***************************************************************************)

\* A quotient of naturals is one.
LEMMA QuotientNat ==
    ASSUME NEW p \in Nat, NEW q \in Nat \ {0}
    PROVE  /\ p \div q \in Nat
           /\ p < q => p \div q = 0
<1> DEFINE k == p \div q
<1>1. k \in Int /\ k * q <= p /\ p < (k + 1) * q
  OBVIOUS
<1> HIDE DEF k
<1>2. ~(k <= -1)
  <2> SUFFICES ASSUME k <= -1 PROVE FALSE
    OBVIOUS
  <2>1. k + 1 <= 0
    BY <1>1
  <2>2. (k + 1) * q <= 0
    BY <1>1, <2>1
  <2> QED
    BY <1>1, <2>2
<1>3. p < q => ~(k >= 1)
  <2> SUFFICES ASSUME p < q, k >= 1 PROVE FALSE
    OBVIOUS
  <2>1. k * q >= q
    BY <1>1
  <2> QED
    BY <1>1, <2>1
<1> QED
  BY <1>1, <1>2, <1>3 DEF k

\* A share of a natural number is one, and a share of nothing is nothing.
LEMMA RoundedNat ==
    ASSUME NEW x \in Nat, NEW n \in Nat, NEW d \in Nat \ {0}
    PROVE  Rounded(x, n, d) \in Nat /\ Rounded(0, n, d) = 0
<1>1. /\ x * n \in Nat /\ 0 * n = 0 /\ 2 * x * n = 2 * (x * n)
      /\ 2 * 0 * n = 0
  OBVIOUS
<1>2. /\ 2 * x * n + d \in Nat /\ 2 * d \in Nat \ {0}
      /\ 2 * 0 * n + d \in Nat /\ 2 * 0 * n + d < 2 * d
  BY <1>1
<1> QED
  BY <1>2, QuotientNat DEF Rounded

\* So is a share with a sign.
LEMMA ScaledNat ==
    ASSUME NEW x \in Nat, NEW n \in Nat, NEW d \in Nat \ {0}
    PROVE  /\ Scaled(x, n, d) \in Nat /\ Scaled(0, n, d) = 0
           /\ Scaled(-x, n, d) = -Scaled(x, n, d)
<1>1. Rounded(x, n, d) \in Nat /\ Rounded(0, n, d) = 0
  BY RoundedNat
<1>2. CASE x = 0
  BY <1>1, <1>2 DEF Scaled
<1>3. CASE x > 0
  <2>1. /\ Scaled(x, n, d) = Rounded(x, n, d) /\ Scaled(0, n, d) = Rounded(0, n, d)
        /\ Scaled(-x, n, d) = -Rounded(-(-x), n, d) /\ -(-x) = x
    BY <1>3 DEF Scaled
  <2> QED
    BY <1>1, <2>1
<1> QED
  BY <1>2, <1>3

\* A block calculate_trapezoid can make, of at least one step.
Legal(b) ==
    /\ b \in BlockType /\ b.steps_event_count > 0
    /\ b.initial <= b.maximum /\ b.final <= b.maximum
    /\ b.accelerate_until <= b.decelerate_after
    /\ b.decelerate_after <= b.total_move_ticks

\* The share of motor m in a speed of the block.
Share(b, m, x) == Scaled(x, b.steps[m], b.steps_event_count)

Falls(b) == b.decelerate_after < b.total_move_ticks

\* What its rate changes by in the next tick, when t ticks are done, ...
ChangeAfter(b, m, t) ==
    LET a == b.accelerate_until
        d == b.decelerate_after
    IN  IF a # 0 /\ t <= a THEN Share(b, m, Acceleration(b))
        ELSE IF d = 0 \/ (Falls(b) /\ t > d) THEN -Share(b, m, Deceleration(b))
        ELSE 0

\* ... and the tick at which that is to change.
EventAfter(b, t) ==
    LET a == b.accelerate_until
        d == b.decelerate_after
    IN  IF a # 0 THEN IF t > a /\ Falls(b) THEN d ELSE a
        ELSE IF d # 0 /\ Falls(b) THEN d
        ELSE b.total_move_ticks + 1

\* The tick_info of motor m of block b when t ticks are done.
RateOK(b, m, t, i) ==
    /\ i.plateau_rate = Share(b, m, b.maximum)
    /\ i.deceleration_change = -Share(b, m, Deceleration(b))
    /\ i.acceleration_change = ChangeAfter(b, m, t)
    /\ i.next_accel_event = EventAfter(b, t)
    /\ i.steps_per_tick = RateAfter(b, m, t)

\* The numbers of a legal block.
LEMMA Numbers ==
    ASSUME NEW b, Legal(b), NEW m \in Motors
    PROVE  /\ b.accelerate_until \in Nat /\ b.decelerate_after \in Nat
           /\ b.total_move_ticks \in Nat /\ b.maximum \in Nat /\ b.initial \in Nat
           /\ b.steps_event_count \in Nat \ {0} /\ b.steps[m] \in Nat
           /\ Acceleration(b) \in Nat /\ Deceleration(b) \in Nat
           /\ ~Falls(b) => Deceleration(b) = 0
           /\ b.accelerate_until <= b.decelerate_after
           /\ b.decelerate_after <= b.total_move_ticks
           /\ \A x \in Nat : /\ Share(b, m, x) \in Nat
                             /\ Share(b, m, -x) = -Share(b, m, x)
           /\ Share(b, m, 0) = 0
<1>1. /\ b.accelerate_until \in Nat /\ b.decelerate_after \in Nat
      /\ b.total_move_ticks \in Nat /\ b.maximum \in Nat /\ b.initial \in Nat
      /\ b.final \in Nat
      /\ b.steps_event_count \in Nat \ {0} /\ b.steps[m] \in Nat
      /\ b.initial <= b.maximum /\ b.final <= b.maximum
      /\ b.accelerate_until <= b.decelerate_after
      /\ b.decelerate_after <= b.total_move_ticks
  BY DEF Legal, BlockType
<1>2. \A x, t \in Nat : PerTick(x, t) \in Nat
  BY RoundedNat DEF PerTick
<1>3. Acceleration(b) \in Nat /\ Deceleration(b) \in Nat
  <2>1. /\ b.maximum - b.initial \in Nat /\ b.maximum - b.final \in Nat
        /\ b.total_move_ticks - b.decelerate_after \in Nat
    BY <1>1
  <2> QED
    BY <1>1, <1>2, <2>1 DEF Acceleration, Deceleration
<1>4. ~Falls(b) => Deceleration(b) = 0
  <2>1. ~Falls(b) => b.total_move_ticks - b.decelerate_after = 0
    BY <1>1 DEF Falls
  <2> QED
    BY <2>1 DEF Deceleration, PerTick
<1>5. \A x \in Nat : /\ Share(b, m, x) \in Nat
                     /\ Share(b, m, -x) = -Share(b, m, x)
  BY <1>1, ScaledNat DEF Share
<1>6. Share(b, m, 0) = 0
  BY <1>1, ScaledNat DEF Share
<1> QED
  BY <1>1, <1>3, <1>4, <1>5, <1>6

\* What a tick does to a rate, before it is protected.
LEMMA EventRates ==
    ASSUME NEW i \in TickInfo, NEW b, Legal(b), NEW t \in Nat
    PROVE  LET j   == Event(Accelerated(i), b, t)
               a   == b.accelerate_until
               d   == b.decelerate_after
               now == t = i.next_accel_event
           IN  /\ j.plateau_rate = i.plateau_rate
               /\ j.deceleration_change = i.deceleration_change
               /\ j.steps_per_tick =
                     IF now /\ t = a /\ t # d /\ Falls(b) THEN i.plateau_rate
                     ELSE i.steps_per_tick + i.acceleration_change
               /\ j.acceleration_change =
                     IF now /\ t = d THEN i.deceleration_change
                     ELSE IF now /\ t = a THEN 0 ELSE i.acceleration_change
               /\ j.next_accel_event =
                     IF now /\ t = a /\ Falls(b) THEN d ELSE i.next_accel_event
<1> DEFINE p == Accelerated(i)
           q == AccelerationEnds(p, b, t)
           j == Event(Accelerated(i), b, t)
<1>1. /\ b.accelerate_until \in Nat /\ b.decelerate_after \in Nat
      /\ b.total_move_ticks \in Nat
  BY DEF Legal, BlockType
<1>2. /\ p \in TickInfo
      /\ p.steps_per_tick = i.steps_per_tick + i.acceleration_change
      /\ p.acceleration_change = i.acceleration_change
      /\ p.next_accel_event = i.next_accel_event
      /\ p.plateau_rate = i.plateau_rate
      /\ p.deceleration_change = i.deceleration_change
  BY DEF Accelerated, TickInfo
<1>3. j = IF t # p.next_accel_event THEN p
          ELSE DecelerationBegins(q, b, t)
  BY DEF Event
<1> HIDE DEF p
<1>4. Falls(b) <=> ~(b.decelerate_after >= b.total_move_ticks)
  BY <1>1 DEF Falls
<1>5. /\ q.plateau_rate = i.plateau_rate
      /\ q.deceleration_change = i.deceleration_change
      /\ q.steps_per_tick =
            IF t = b.accelerate_until /\ t # b.decelerate_after /\ Falls(b)
              THEN i.plateau_rate ELSE p.steps_per_tick
      /\ q.acceleration_change =
            IF t = b.accelerate_until THEN 0 ELSE i.acceleration_change
      /\ q.next_accel_event =
            IF t = b.accelerate_until /\ Falls(b) THEN b.decelerate_after
            ELSE i.next_accel_event
      /\ DecelerationBegins(q, b, t) =
            IF t # b.decelerate_after THEN q
            ELSE [q EXCEPT !.acceleration_change = q.deceleration_change]
      /\ t = b.decelerate_after =>
            [q EXCEPT !.acceleration_change = q.deceleration_change]
               = [q EXCEPT !.acceleration_change = i.deceleration_change]
  BY <1>2, <1>4 DEF AccelerationEnds, DecelerationBegins, TickInfo
<1> QED
  BY <1>2, <1>3, <1>5 DEF TickInfo

\* The closed form, tick by tick.
LEMMA NextRate ==
    ASSUME NEW b, Legal(b), NEW m \in Motors, NEW t \in Nat
    PROVE  LET a   == b.accelerate_until
               d   == b.decelerate_after
               now == t = EventAfter(b, t)
               D   == -Share(b, m, Deceleration(b))
               x   == IF now /\ t = a /\ t # d /\ Falls(b)
                        THEN Share(b, m, b.maximum)
                      ELSE RateAfter(b, m, t) + ChangeAfter(b, m, t)
           IN  /\ RateAfter(b, m, t) \in Nat
               /\ RateAfter(b, m, t + 1) = IF x > 0 THEN x ELSE 0
               /\ ChangeAfter(b, m, t + 1) =
                     IF now /\ t = d THEN D
                     ELSE IF now /\ t = a THEN 0 ELSE ChangeAfter(b, m, t)
               /\ EventAfter(b, t + 1) =
                     IF now /\ t = a /\ Falls(b) THEN d ELSE EventAfter(b, t)
<1> DEFINE a == b.accelerate_until
           d == b.decelerate_after
           T == b.total_move_ticks
           I == Share(b, m, b.initial)
           A == Share(b, m, Acceleration(b))
           M == Share(b, m, b.maximum)
           D == Share(b, m, Deceleration(b))
           F == Falls(b)
           now == t = EventAfter(b, t)
           x == IF now /\ t = a /\ t # d /\ F THEN M
                ELSE RateAfter(b, m, t) + ChangeAfter(b, m, t)
           Level(k) == IF a # 0 /\ a < k /\ a < d /\ F THEN M
                       ELSE IF a = 0 THEN I
                       ELSE I + (IF k <= a THEN k ELSE a + 1) * A
           Ticks(k) == IF ~F THEN 0 ELSE IF d = 0 THEN k
                       ELSE IF k > d THEN k - 1 - d ELSE 0
           Rate(k) == IF Level(k) - Ticks(k) * D > 0
                        THEN Level(k) - Ticks(k) * D ELSE 0
<1>1. /\ a \in Nat /\ d \in Nat /\ T \in Nat /\ I \in Nat /\ A \in Nat
      /\ M \in Nat /\ D \in Nat /\ a <= d /\ d <= T
      /\ F \in BOOLEAN /\ (F <=> d < T)
      /\ ~F => D = 0
  BY Numbers DEF Falls
<1>2. \A k \in Nat : RateAfter(b, m, k) = Rate(k)
  <2> SUFFICES ASSUME NEW k \in Nat PROVE RateAfter(b, m, k) = Rate(k)
    OBVIOUS
  <2> DEFINE level == IF a # 0 /\ a < k /\ a < d /\ d < T THEN M
                      ELSE IF a = 0 THEN I
                           ELSE I + (IF k <= a THEN k ELSE a + 1) * A
             ticks == CASE ~(d < T) -> 0
                        [] d < T /\ d = 0 -> k
                        [] d < T /\ d > 0 /\ k > d -> k - 1 - d
                        [] OTHER -> 0
  <2>1. RateAfter(b, m, k) = IF level - ticks * D > 0
                               THEN level - ticks * D ELSE 0
    BY DEF RateAfter, Share
  <2>2. level = Level(k)
    BY <1>1
  <2>3. ticks = Ticks(k)
    BY <1>1
  <2> HIDE DEF level, ticks
  <2> QED
    BY <2>1, <2>2, <2>3
<1>3. \A k \in Nat : ChangeAfter(b, m, k) =
         IF a # 0 /\ k <= a THEN A
         ELSE IF d = 0 \/ (F /\ k > d) THEN -D ELSE 0
  BY DEF ChangeAfter
<1>4. \A k \in Nat : EventAfter(b, k) =
         IF a # 0 THEN IF k > a /\ F THEN d ELSE a
         ELSE IF d # 0 /\ F THEN d ELSE T + 1
  BY DEF EventAfter
<1>5. \A k \in Nat : /\ k * A \in Nat /\ k * D \in Nat
                     /\ (k + 1) * A = k * A + A /\ (k + 1) * D = k * D + D
                     /\ 0 * D = 0
  BY <1>1
<1> SUFFICES /\ RateAfter(b, m, t) \in Nat
             /\ RateAfter(b, m, t + 1) = IF x > 0 THEN x ELSE 0
             /\ ChangeAfter(b, m, t + 1) =
                   IF now /\ t = d THEN -D
                   ELSE IF now /\ t = a THEN 0 ELSE ChangeAfter(b, m, t)
             /\ EventAfter(b, t + 1) =
                   IF now /\ t = a /\ F THEN d ELSE EventAfter(b, t)
  OBVIOUS
<1>6. t + 1 \in Nat
  OBVIOUS
<1>7. /\ now <=> t = (IF a # 0 THEN IF t > a /\ F THEN d ELSE a
                      ELSE IF d # 0 /\ F THEN d ELSE T + 1)
      /\ ChangeAfter(b, m, t) =
            IF a # 0 /\ t <= a THEN A
            ELSE IF d = 0 \/ (F /\ t > d) THEN -D ELSE 0
  BY <1>3, <1>4
<1> HIDE DEF a, d, T, I, A, M, D, F, Rate, Level, Ticks, now, x
<1>8. Level(t) \in Nat /\ Ticks(t) \in Nat /\ Ticks(t) * D \in Nat
  <2>1. Level(t) \in Nat
    <3>1. \A k \in Nat : I + k * A \in Nat
      BY <1>1, <1>5
    <3>2. (IF t <= a THEN t ELSE a + 1) \in Nat
      BY <1>1
    <3> QED
      BY <1>1, <3>1, <3>2 DEF Level
  <2>2. Ticks(t) \in Nat
    BY <1>1 DEF Ticks
  <2> QED
    BY <1>5, <2>1, <2>2
<1>9. RateAfter(b, m, t) \in Nat
  BY <1>2, <1>8 DEF Rate
<1>10. ChangeAfter(b, m, t + 1) =
         IF now /\ t = d THEN -D
         ELSE IF now /\ t = a THEN 0 ELSE ChangeAfter(b, m, t)
  BY <1>1, <1>3, <1>6, <1>7
<1>11. EventAfter(b, t + 1) =
         IF now /\ t = a /\ F THEN d ELSE EventAfter(b, t)
  BY <1>1, <1>4, <1>6, <1>7
<1>12. RateAfter(b, m, t + 1) = IF x > 0 THEN x ELSE 0
  <2>1. RateAfter(b, m, t) = Rate(t) /\ RateAfter(b, m, t + 1) = Rate(t + 1)
    BY <1>2, <1>6
  <2>2. CASE a # 0 /\ t <= a
    <3>1. /\ Level(t) = I + t * A /\ Ticks(t) = 0 /\ Ticks(t + 1) = 0
          /\ Level(t + 1) = IF t = a /\ a < d /\ F THEN M ELSE I + t * A + A
          /\ ChangeAfter(b, m, t) = A /\ (now <=> t = a)
      <4>1. /\ Level(t) = I + t * A
            /\ Level(t + 1) = IF t = a /\ a < d /\ F THEN M
                              ELSE I + (t + 1) * A
        BY <1>1, <2>2 DEF Level
      <4>2. Ticks(t) = 0 /\ Ticks(t + 1) = 0
        BY <1>1, <2>2 DEF Ticks
      <4>3. ChangeAfter(b, m, t) = A /\ (now <=> t = a)
        BY <1>1, <1>7, <2>2
      <4> QED
        BY <1>1, <1>5, <4>1, <4>2, <4>3
    <3>2. t * A \in Nat /\ 0 * D = 0
      BY <1>5
    <3>3. Rate(t) = I + t * A
      BY <1>1, <3>1, <3>2 DEF Rate
    <3>4. Rate(t + 1) = Level(t + 1)
      BY <1>1, <3>1, <3>2 DEF Rate
    <3>5. x = Level(t + 1) /\ x \in Nat
      BY <1>1, <2>1, <2>2, <3>1, <3>2, <3>3 DEF x
    <3> QED
      BY <2>1, <3>4, <3>5
  <2>3. CASE ~(a # 0 /\ t <= a)
    <3>1. x = Rate(t) + ChangeAfter(b, m, t)
      BY <1>1, <1>7, <2>1, <2>3 DEF x
    <3>2. Level(t + 1) = Level(t)
      BY <1>1, <2>3 DEF Level
    <3>3. CASE F /\ (d = 0 \/ t > d)
      <4>1. Ticks(t + 1) = Ticks(t) + 1 /\ ChangeAfter(b, m, t) = -D
        BY <1>1, <1>7, <2>3, <3>3 DEF Ticks
      <4>2. Ticks(t + 1) * D = Ticks(t) * D + D
        BY <1>5, <1>8, <4>1
      <4> DEFINE y == Ticks(t) * D
                 l == Level(t)
      <4>3. /\ y \in Nat /\ l \in Nat
            /\ Rate(t) = IF l - y > 0 THEN l - y ELSE 0
            /\ Rate(t + 1) = IF l - (y + D) > 0 THEN l - (y + D) ELSE 0
        BY <1>8, <3>2, <4>2 DEF Rate
      <4> HIDE DEF y, l
      <4> QED
        BY <1>1, <2>1, <3>1, <4>1, <4>3
    <3>4. CASE ~(F /\ (d = 0 \/ t > d))
      <4>1. Ticks(t + 1) = 0 /\ Ticks(t) = 0
        BY <1>1, <2>3, <3>4 DEF Ticks
      <4>2. ChangeAfter(b, m, t) = 0
        BY <1>1, <1>7, <2>3, <3>4
      <4> QED
        BY <1>2, <1>9, <2>1, <3>1, <3>2, <4>1, <4>2 DEF Rate
    <3> QED
      BY <3>3, <3>4
  <2> QED
    BY <2>2, <2>3
<1> QED
  BY <1>9, <1>10, <1>11, <1>12

\* A tick brings the rate to that of the closed form.
LEMMA AdvanceRate ==
    ASSUME NEW i \in TickInfo, NEW b, Legal(b), NEW m \in Motors, NEW t \in Nat,
           RateOK(b, m, t, i)
    PROVE  RateOK(b, m, t + 1, Advance(i, b, t))
<1> DEFINE j == Event(Accelerated(i), b, t)
           k == Protected(j)
           now == t = EventAfter(b, t)
           x == IF now /\ t = b.accelerate_until /\ t # b.decelerate_after
                     /\ Falls(b)
                  THEN Share(b, m, b.maximum)
                ELSE RateAfter(b, m, t) + ChangeAfter(b, m, t)
<1>1. /\ i.plateau_rate = Share(b, m, b.maximum)
      /\ i.deceleration_change = -Share(b, m, Deceleration(b))
      /\ i.acceleration_change = ChangeAfter(b, m, t)
      /\ i.next_accel_event = EventAfter(b, t)
      /\ i.steps_per_tick = RateAfter(b, m, t)
  BY DEF RateOK
<1>2. /\ j.plateau_rate = Share(b, m, b.maximum)
      /\ j.deceleration_change = -Share(b, m, Deceleration(b))
      /\ j.steps_per_tick = x
      /\ j.acceleration_change = ChangeAfter(b, m, t + 1)
      /\ j.next_accel_event = EventAfter(b, t + 1)
  BY <1>1, EventRates, NextRate
<1>3. j \in TickInfo
  BY EventKeeps DEF Legal
<1>4. RateAfter(b, m, t + 1) = IF x > 0 THEN x ELSE 0
  BY NextRate
<1>5. Advance(i, b, t) = Summed(k)
  BY DEF Advance
<1> HIDE DEF j, x
<1>6. /\ k.plateau_rate = j.plateau_rate
      /\ k.deceleration_change = j.deceleration_change
      /\ k.acceleration_change = j.acceleration_change
      /\ k.next_accel_event = j.next_accel_event
      /\ k.steps_per_tick = IF x <= 0 THEN 0 ELSE x
      /\ k = [j EXCEPT !.counter = IF x <= 0 THEN Scale ELSE @,
                       !.steps_per_tick = IF x <= 0 THEN 0 ELSE @]
  BY <1>2, <1>3 DEF Protected, TickInfo
<1>7. x \in Int
  BY <1>2, <1>3 DEF TickInfo
<1>8. k.steps_per_tick = RateAfter(b, m, t + 1)
  BY <1>4, <1>6, <1>7
<1>9. /\ Summed(k).plateau_rate = k.plateau_rate
      /\ Summed(k).deceleration_change = k.deceleration_change
      /\ Summed(k).acceleration_change = k.acceleration_change
      /\ Summed(k).next_accel_event = k.next_accel_event
      /\ Summed(k).steps_per_tick = k.steps_per_tick
  <2> HIDE DEF k
  <2> QED
    BY DEF Summed
<1> QED
  BY <1>2, <1>5, <1>6, <1>8, <1>9 DEF RateOK

\* Every motor that has steps left has the rate of the closed form.
Rated(e) ==
    /\ Legal(e.block)
    /\ \A m \in Active(e) :
          RateOK(e.block, m, e.current_tick, e.tick_info[m])

\* A tick keeps the rates: a step changes the sum and the count only.
LEMMA TickRated ==
    ASSUME NEW e \in Execution, NEW ms \in SUBSET Motors, Rated(e)
    PROVE  Rated(Ticked(e, ms).exec)
<1> DEFINE r == Ticked(e, ms)
<1>1. /\ r.exec.block = e.block /\ r.exec.current_tick = e.current_tick + 1
      /\ \A m \in Motors : \/ Skipped(e, r, m, ms) \/ Waits(e, r, m, ms)
                           \/ Goes(e, r, m, ms) \/ Ends(e, r, m, ms)
  BY TickedParts
<1> SUFFICES Rated(r.exec)
  OBVIOUS
<1> HIDE DEF r
<1> SUFFICES ASSUME NEW m \in Motors, r.exec.tick_info[m].steps_to_move # 0
             PROVE  RateOK(e.block, m, e.current_tick + 1, r.exec.tick_info[m])
  BY <1>1 DEF Rated, Active
<1> DEFINE a == After(e, m)
<1>2. /\ e.tick_info[m] \in TickInfo /\ e.block \in BlockType
      /\ e.current_tick \in Nat /\ Legal(e.block)
  BY DEF Execution, Rated
<1>3. a \in TickInfo
  BY <1>2, AdvanceCounts DEF After
<1>4. ASSUME m \in Active(e)
      PROVE  RateOK(e.block, m, e.current_tick + 1, a)
  <2>1. RateOK(e.block, m, e.current_tick, e.tick_info[m])
    BY <1>4 DEF Rated
  <2> QED
    BY <1>2, <2>1, AdvanceRate DEF After
<1> HIDE DEF a
<1>5. CASE Skipped(e, r, m, ms)
  BY <1>5 DEF Skipped, Active
<1>6. CASE Waits(e, r, m, ms)
  BY <1>4, <1>6 DEF Waits, a
<1>7. CASE Goes(e, r, m, ms)
  <2>1. m \in Active(e) /\ Steps(a) /\ r.exec.tick_info[m] = Stepped(a)
    BY <1>7 DEF Goes, Issued, a
  <2>2. /\ Stepped(a).plateau_rate = a.plateau_rate
        /\ Stepped(a).deceleration_change = a.deceleration_change
        /\ Stepped(a).acceleration_change = a.acceleration_change
        /\ Stepped(a).next_accel_event = a.next_accel_event
        /\ Stepped(a).steps_per_tick = a.steps_per_tick
    BY <1>3 DEF Stepped, TickInfo
  <2> QED
    BY <1>4, <2>1, <2>2 DEF RateOK
<1>8. CASE Ends(e, r, m, ms)
  <2>1. Steps(a) /\ r.exec.tick_info[m] = [Stepped(a) EXCEPT !.steps_to_move = 0]
    BY <1>8 DEF Ends, Issued, a
  <2> QED
    BY <1>3, <2>1, SteppedInfo
<1> QED
  BY <1>1, <1>5, <1>6, <1>7, <1>8

\* A block as prepare leaves it.
LEMMA FreshRated ==
    ASSUME NEW b \in Blocks
    PROVE  Rated(Fresh(b))
<1>1. PICK l \in Lengths, h \in Shapes : b = Block(l, h)
  BY DEF Blocks
<1>2. /\ l.steps \in [Motors -> 0 .. MaxSteps]
      /\ l.steps_event_count \in 1 .. MaxSteps
  BY DEF Lengths
<1>3. ShapeOK(h) /\ Scale \in Nat /\ MaxSteps \in Nat
  BY TickAssumption
<1>4. /\ h.initial \in Nat /\ h.maximum \in Nat /\ h.final \in Nat
      /\ h.accelerate_until \in Nat /\ h.decelerate_after \in Nat
      /\ h.total_move_ticks \in Nat
      /\ h.initial <= h.maximum /\ h.final <= h.maximum
      /\ h.accelerate_until <= h.decelerate_after
      /\ h.decelerate_after <= h.total_move_ticks
  <2>1. h.initial \in 0 .. Scale /\ h.maximum \in 0 .. Scale /\ h.final \in 0 .. Scale
    BY <1>3 DEF ShapeOK
  <2>2. /\ h.total_move_ticks \in Nat
        /\ h.decelerate_after \in 0 .. h.total_move_ticks
        /\ h.accelerate_until \in 0 .. h.decelerate_after
        /\ h.initial <= h.maximum /\ h.final <= h.maximum
    BY <1>3 DEF ShapeOK
  <2> QED
    BY <1>3, <2>1, <2>2
<1>5. /\ l.steps \in [Motors -> Nat]
      /\ l.steps_event_count \in Nat /\ l.steps_event_count > 0
  BY <1>2, <1>3
<1>6. Legal(b)
  BY <1>1, <1>4, <1>5 DEF Legal, BlockType, Block
<1> SUFFICES ASSUME NEW m \in Motors, b.steps[m] # 0
             PROVE  RateOK(b, m, 0, prepare(b)[m])
  BY <1>6 DEF Rated, Fresh, Active, prepare
<1>7. /\ prepare(b)[m].plateau_rate = Share(b, m, b.maximum)
      /\ prepare(b)[m].deceleration_change = Share(b, m, -Deceleration(b))
      /\ prepare(b)[m].acceleration_change = Share(b, m, FirstChange(b))
      /\ prepare(b)[m].next_accel_event = FirstEvent(b)
      /\ prepare(b)[m].steps_per_tick = Share(b, m, b.initial)
  BY DEF prepare, Share
<1> DEFINE a == b.accelerate_until
           d == b.decelerate_after
           T == b.total_move_ticks
<1>8. /\ a \in Nat /\ d \in Nat /\ T \in Nat /\ a <= d /\ d <= T
      /\ Deceleration(b) \in Nat /\ Acceleration(b) \in Nat /\ b.initial \in Nat
      /\ \A x \in Nat : /\ Share(b, m, x) \in Nat
                        /\ Share(b, m, -x) = -Share(b, m, x)
      /\ Share(b, m, 0) = 0
  BY <1>6, Numbers
<1>9. Share(b, m, -Deceleration(b)) = -Share(b, m, Deceleration(b))
  BY <1>8
<1>10. Share(b, m, FirstChange(b)) = ChangeAfter(b, m, 0)
  <2>1. /\ FirstChange(b) = IF a # 0 THEN Acceleration(b)
                            ELSE IF d = 0 THEN -Deceleration(b) ELSE 0
        /\ ChangeAfter(b, m, 0) =
              IF a # 0 /\ 0 <= a THEN Share(b, m, Acceleration(b))
              ELSE IF d = 0 \/ (Falls(b) /\ 0 > d)
                     THEN -Share(b, m, Deceleration(b))
              ELSE 0
    BY DEF FirstChange, ChangeAfter
  <2> QED
    BY <1>8, <1>9, <2>1
<1>11. FirstEvent(b) = EventAfter(b, 0)
  BY <1>8 DEF FirstEvent, EventAfter, Falls
<1>12. Share(b, m, b.initial) = RateAfter(b, m, 0)
  <2> DEFINE I == Share(b, m, b.initial)
             A == Share(b, m, Acceleration(b))
             D == Share(b, m, Deceleration(b))
             level == IF a # 0 /\ a < 0 /\ a < d /\ d < T
                        THEN Share(b, m, b.maximum)
                      ELSE IF a = 0 THEN I
                           ELSE I + (IF 0 <= a THEN 0 ELSE a + 1) * A
             ticks == CASE ~(d < T) -> 0
                        [] d < T /\ d = 0 -> 0
                        [] d < T /\ d > 0 /\ 0 > d -> 0 - 1 - d
                        [] OTHER -> 0
  <2>1. RateAfter(b, m, 0) = IF level - ticks * D > 0
                               THEN level - ticks * D ELSE 0
    BY DEF RateAfter, Share
  <2>2. I \in Nat /\ A \in Nat /\ D \in Nat /\ 0 * A = 0 /\ 0 * D = 0
    BY <1>8
  <2> HIDE DEF I, A, D
  <2>3. ticks = 0
    BY <1>8
  <2>4. level = I
    BY <1>8, <2>2
  <2> HIDE DEF level, ticks
  <2>5. RateAfter(b, m, 0) = I
    BY <2>1, <2>2, <2>3, <2>4
  <2> QED
    BY <2>5 DEF I
<1> QED
  BY <1>7, <1>9, <1>10, <1>11, <1>12 DEF RateOK

\* The block that runs follows its shape.
RateInv == running => Rated(exec)

\* The rates after one tick, of the block that runs or of one just taken.
LEMMA RateTick ==
    ASSUME NEW f, NEW e \in Execution, NEW ms \in SUBSET Motors, NEW n,
           Rated(e), Tick(f, e, ms, n)
    PROVE  RateInv'
<1>1. \/ exec' = Ticked(e, ms).exec
      \/ running' = FALSE
      \/ \E b \in Blocks : exec' = Fresh(b)
  BY DEF Tick, Rest
<1> QED
  BY <1>1, TickRated, FreshRated DEF RateInv

\* Every action keeps the rates.
LEMMA RateStep == BlockInv /\ RateInv /\ [Next]_vars => RateInv'
<1> SUFFICES ASSUME BlockInv, RateInv, [Next]_vars PROVE RateInv'
  OBVIOUS
<1>1. ASSUME NEW f, TickIdle(f) \/ TickHalted(f) PROVE RateInv'
  BY <1>1 DEF TickIdle, TickHalted, Rest, RateInv
<1>2. ASSUME NEW f, TickStarts(f) PROVE RateInv'
  <2>1. PICK b \in Blocks : Tick(f, Fresh(b), moving \cup Moves(b), blocks + 1)
    BY <1>2 DEF TickStarts
  <2>2. moving \cup Moves(b) \in SUBSET Motors
    BY DEF BlockInv, Moves
  <2>3. Fresh(b) \in Execution
    BY <2>2, FreshSound DEF Sound
  <2> QED
    BY <2>1, <2>2, <2>3, FreshRated, RateTick
<1>3. ASSUME NEW f, TickRuns(f) PROVE RateInv'
  <2>1. /\ Tick(f, exec, moving, blocks) /\ Rated(exec) /\ exec \in Execution
        /\ moving \in SUBSET Motors
    BY <1>3 DEF TickRuns, RateInv, BlockInv, Sound
  <2> QED
    BY <2>1, RateTick
<1>4. CASE unstep_tick
  BY <1>4 DEF unstep_tick, UnstepBegins, UnstepLooks, UnstepClears, UnstepEnds,
              RateInv
<1>5. ASSUME NEW m \in Motors, Stop(m) PROVE RateInv'
  <2>1. running /\ exec' = [exec EXCEPT !.after[m] = 0] /\ exec \in Execution
    BY <1>5 DEF Stop, BlockInv, Sound
  <2>2. /\ exec'.block = exec.block /\ exec'.tick_info = exec.tick_info
        /\ exec'.current_tick = exec.current_tick
    BY <2>1 DEF Execution
  <2> QED
    BY <2>1, <2>2 DEF RateInv, Rated, Active
<1>6. CASE Halt
  BY <1>6 DEF Halt, RateInv
<1>7. CASE Release
  BY <1>7 DEF Release, RateInv
<1>8. CASE UNCHANGED vars
  BY <1>8 DEF vars, RateInv
<1> QED
  BY <1>1, <1>2, <1>3, <1>4, <1>5, <1>6, <1>7, <1>8 DEF Next, step_tick

\* The events each motor keeps for itself give it the rate of the shape the
\* planner computed for the whole block, tick by tick, for all shapes and lengths
\* and however the rates were rounded.
THEOREM RatesFollow == Spec => []RatesFollowShape
<1>1. Init => RateInv
  BY DEF Init, RateInv
<1>2. BlockInv /\ RateInv => RatesFollowShape
  BY DEF RateInv, Rated, RateOK, RatesFollowShape
<1> QED
  BY <1>1, <1>2, BlockInit, BlockStep, RateStep, PTL DEF Spec

-----------------------------------------------------------------------------
(***************************************************************************)
(* Pulses                                                                  *)
(***************************************************************************)

\* A pin that is high is noted in unstep, and unstep_tick, when it runs, has
\* still to look at it, unless the step was made by a tick that fell into it.
PulseInv ==
    /\ pin \subseteq Motors /\ merged \subseteq {"raced", "doubled"}
    /\ pin \ unstep \subseteq raced
    /\ timer = "looking" => pin \ looking \subseteq raced

\* The invariant of pins and unstep bits holds initially ...
LEMMA PulseInit == Init => PulseInv
  BY DEF Init, PulseInv

\* ... is kept by the pulses of a tick ...
LEMMA PulseKeeps ==
    ASSUME PulseInv, NEW f \in Callbacks, NEW ms \in SUBSET Motors,
           Pulse(f, ms)
    PROVE  PulseInv'
<1>1. /\ pin' = (pin \ unstep) \cup f \cup ms
      /\ unstep' = f \cup ms /\ looking' = looking
      /\ timer' \in {timer, "started"}
      /\ merged' = merged \cup Merging(f, ms)
      /\ raced' = IF timer = "looking" THEN raced \cup f \cup ms
                  ELSE raced \ (f \cup ms)
  BY DEF Pulse, Failsafe
<1>2. Failsafe \subseteq raced
  BY DEF Failsafe, PulseInv
<1>3. merged' \subseteq {"raced", "doubled"}
  BY <1>1, <1>2 DEF Merging, PulseInv
<1>4. pin' \subseteq Motors /\ pin' \ unstep' \subseteq raced'
  BY <1>1, TickAssumption DEF PulseInv, Callbacks
<1>5. timer' = "looking" => pin' \ looking' \subseteq raced'
  BY <1>1 DEF PulseInv
<1> QED
  BY <1>3, <1>4, <1>5 DEF PulseInv

\* ... and by every action.
LEMMA PulseStep == PulseInv /\ [Next]_vars => PulseInv'
<1> SUFFICES ASSUME PulseInv, [Next]_vars PROVE PulseInv'
  OBVIOUS
<1>1. ASSUME NEW f \in Callbacks, TickIdle(f) PROVE PulseInv'
  BY <1>1, PulseKeeps DEF TickIdle
<1>2. ASSUME NEW f \in Callbacks, TickHalted(f) PROVE PulseInv'
  BY <1>2, PulseKeeps DEF TickHalted
<1>3. ASSUME NEW f \in Callbacks, NEW e, NEW ms, NEW n, Tick(f, e, ms, n)
      PROVE  PulseInv'
  <2>1. Pulse(f, Ticked(e, ms).steps)
    BY <1>3 DEF Tick
  <2>2. Ticked(e, ms).steps \subseteq Motors
    BY DEF Ticked, Active
  <2> QED
    BY <2>1, <2>2, PulseKeeps
<1>4. ASSUME NEW f \in Callbacks, TickStarts(f) PROVE PulseInv'
  BY <1>3, <1>4 DEF TickStarts
<1>5. ASSUME NEW f \in Callbacks, TickRuns(f) PROVE PulseInv'
  BY <1>3, <1>5 DEF TickRuns
<1>6. CASE UnstepBegins
  BY <1>6 DEF UnstepBegins, PulseInv, history
<1>7. CASE UnstepLooks
  BY <1>7 DEF UnstepLooks, PulseInv, history
<1>8. CASE UnstepClears
  BY <1>8 DEF UnstepClears, PulseInv, history
<1>9. CASE UnstepEnds
  BY <1>9 DEF UnstepEnds, PulseInv, history
<1>10. ASSUME NEW m \in Motors, Stop(m) PROVE PulseInv'
  BY <1>10 DEF Stop, pulses, history, PulseInv
<1>11. CASE Halt
  BY <1>11 DEF Halt, pulses, history, PulseInv
<1>12. CASE Release
  BY <1>12 DEF Release, pulses, history, PulseInv
<1>13. CASE UNCHANGED vars
  BY <1>13 DEF vars, pulses, history, PulseInv
<1> QED
  BY <1>1, <1>2, <1>4, <1>5, <1>6, <1>7, <1>8, <1>9, <1>10, <1>11, <1>12, <1>13
  DEF Next, step_tick, unstep_tick

\* However late the unstep interrupt is, a step finds its pin low, unless the
\* motor's last step was made by a tick inside that interrupt or the callback and
\* the block step it in one tick; for any motors and any number of ticks.
THEOREM PulsesAreDistinct == Spec => []PulsesDistinct
<1>1. PulseInv => PulsesDistinct
  BY DEF PulseInv, PulsesDistinct
<1> QED
  BY <1>1, PulseInit, PulseStep, PTL DEF Spec

-----------------------------------------------------------------------------
(***************************************************************************)
(* Types                                                                   *)
(***************************************************************************)

\* The record of the ticker at rest.
LEMMA AtRest == Fresh(NoBlock) \in Execution
<1>1. NoBlock \in BlockType
  BY DEF NoBlock, BlockType
<1>2. FirstEvent(NoBlock) \in Nat
  BY DEF FirstEvent, NoBlock
<1>3. prepare(NoBlock) =
        [m \in Motors |->
           [steps_to_move |-> 0, steps_per_tick |-> 0, counter |-> 0,
            step_count |-> 0, next_accel_event |-> FirstEvent(NoBlock),
            acceleration_change |-> 0, deceleration_change |-> 0,
            plateau_rate |-> 0]]
  BY DEF prepare, NoBlock
<1>4. prepare(NoBlock) \in [Motors -> TickInfo]
  BY <1>2, <1>3 DEF TickInfo
<1> QED
  BY <1>1, <1>4 DEF Fresh, Execution

\* What TypeOK says beyond BlockInv.
PinsOK ==
    /\ exec \in Execution /\ halted \in BOOLEAN
    /\ pin \subseteq Motors /\ unstep \subseteq Motors /\ looking \subseteq Motors
    /\ timer \in {"ready", "started", "looking", "ending"}
    /\ blocks \in 0 .. MaxBlocks /\ forced \in 0 .. MaxForced
    /\ raced \subseteq Motors /\ merged \subseteq {"raced", "doubled", "missed"}

\* The motor callback_fnc may step.
LEMMA CallbackTypes ==
    ASSUME PinsOK, NEW f \in Callbacks, callback_fnc(f)
    PROVE  f \in SUBSET Motors /\ forced' \in 0 .. MaxForced
  BY TickAssumption DEF PinsOK, Callbacks, callback_fnc

\* The types of pins, bits and the unstep interrupt.
LEMMA PulseTypes ==
    ASSUME PinsOK, NEW f \in SUBSET Motors, NEW ms \in SUBSET Motors,
           Pulse(f, ms)
    PROVE  /\ pin' \subseteq Motors /\ unstep' \subseteq Motors
           /\ looking' \subseteq Motors
           /\ timer' \in {"ready", "started", "looking", "ending"}
           /\ raced' \subseteq Motors
           /\ merged' \subseteq {"raced", "doubled", "missed"}
<1>1. /\ pin' = Failsafe \cup f \cup ms /\ unstep' = f \cup ms
      /\ looking' = looking /\ timer' \in {timer, "started"}
      /\ raced' \subseteq raced \cup f \cup ms
      /\ merged' = merged \cup Merging(f, ms)
  BY DEF Pulse
<1>2. merged' \subseteq {"raced", "doubled", "missed"}
  BY <1>1 DEF PinsOK, Merging
<1>3. pin' \subseteq Motors
  BY <1>1 DEF PinsOK, Failsafe
<1> QED
  BY <1>1, <1>2, <1>3 DEF PinsOK

\* A tick keeps the types.
LEMMA TypesTick ==
    ASSUME PinsOK, NEW f \in SUBSET Motors, forced' \in 0 .. MaxForced,
           UNCHANGED halted, NEW e, NEW ms \in SUBSET Motors,
           NEW n \in 0 .. MaxBlocks, Sound(e, ms), Tick(f, e, ms, n)
    PROVE  PinsOK'
<1>1. /\ Pulse(f, Ticked(e, ms).steps)
      /\ \/ exec' = Ticked(e, ms).exec
         \/ exec' = Fresh(NoBlock)
         \/ \E b \in Blocks : exec' = Fresh(b)
      /\ blocks' = n \/ (n < MaxBlocks /\ blocks' = n + 1)
  BY DEF Tick, Rest
<1>2. Ticked(e, ms).steps \in SUBSET Motors
  BY DEF Ticked, Active
<1>3. exec' \in Execution
  <2>1. Ticked(e, ms).exec \in Execution
    BY TickBlock DEF Sound
  <2>2. ASSUME NEW b \in Blocks PROVE Fresh(b) \in Execution
    BY FreshSound DEF Sound, Moves
  <2> QED
    BY <1>1, <2>1, <2>2, AtRest
<1>4. blocks' \in 0 .. MaxBlocks
  BY <1>1, TickAssumption
<1> QED
  BY <1>1, <1>2, <1>3, <1>4, PulseTypes DEF PinsOK

\* So does every action.
LEMMA TypesStep == BlockInv /\ PinsOK /\ [Next]_vars => PinsOK'
<1> SUFFICES ASSUME BlockInv, PinsOK, [Next]_vars PROVE PinsOK'
  OBVIOUS
<1>1. ASSUME NEW f \in Callbacks, callback_fnc(f), UNCHANGED halted,
             TickIdle(f) \/ TickHalted(f)
      PROVE  PinsOK'
  <2>1. /\ Pulse(f, {}) /\ exec' = Fresh(NoBlock)
        /\ blocks' = blocks \/ (blocks < MaxBlocks /\ blocks' = blocks + 1)
    BY <1>1 DEF TickIdle, TickHalted, Rest
  <2>2. blocks' \in 0 .. MaxBlocks
    BY <2>1, TickAssumption DEF PinsOK
  <2>3. f \in SUBSET Motors /\ forced' \in 0 .. MaxForced
    BY <1>1, CallbackTypes
  <2> QED
    BY <1>1, <2>1, <2>2, <2>3, AtRest, PulseTypes DEF PinsOK
<1>2. ASSUME NEW f \in Callbacks, callback_fnc(f), UNCHANGED halted,
             TickStarts(f)
      PROVE  PinsOK'
  <2>1. PICK b \in Blocks : Tick(f, Fresh(b), moving \cup Moves(b), blocks + 1)
    BY <1>2 DEF TickStarts
  <2>2. /\ moving \cup Moves(b) \in SUBSET Motors
        /\ blocks + 1 \in 0 .. MaxBlocks
    BY <1>2, TickAssumption DEF BlockInv, Moves, PinsOK, TickStarts
  <2>3. Sound(Fresh(b), moving \cup Moves(b))
    BY <2>2, FreshSound
  <2> QED
    BY <1>2, <2>1, <2>2, <2>3, CallbackTypes, TypesTick
<1>3. ASSUME NEW f \in Callbacks, callback_fnc(f), UNCHANGED halted,
             TickRuns(f)
      PROVE  PinsOK'
  <2>1. /\ Tick(f, exec, moving, blocks) /\ Sound(exec, moving)
        /\ moving \in SUBSET Motors /\ blocks \in 0 .. MaxBlocks
    BY <1>3 DEF TickRuns, BlockInv, PinsOK
  <2> QED
    BY <1>3, <2>1, CallbackTypes, TypesTick
<1>4. CASE step_tick
  BY <1>1, <1>2, <1>3, <1>4 DEF step_tick
<1>5. CASE UnstepBegins
  BY <1>5 DEF UnstepBegins, PinsOK, history
<1>6. CASE UnstepLooks
  BY <1>6 DEF UnstepLooks, PinsOK, history
<1>7. CASE UnstepClears
  BY <1>7 DEF UnstepClears, PinsOK, history
<1>8. CASE UnstepEnds
  BY <1>8 DEF UnstepEnds, PinsOK, history
<1>9. ASSUME NEW m \in Motors, Stop(m) PROVE PinsOK'
  <2>1. UNCHANGED <<halted, pulses, blocks, forced, history>>
    BY <1>9 DEF Stop
  <2>2. BlockInv' /\ running'
    BY <1>9, StopStep DEF Stop
  <2>3. exec' \in Execution
    BY <2>2 DEF BlockInv, Sound
  <2> QED
    BY <2>1, <2>3 DEF PinsOK, pulses, history
<1>10. CASE Halt
  BY <1>10 DEF Halt, PinsOK, pulses, history
<1>11. CASE Release
  BY <1>11 DEF Release, PinsOK, pulses, history
<1>12. CASE UNCHANGED vars
  BY <1>12 DEF vars, PinsOK, pulses, history
<1> QED
  BY <1>4, <1>5, <1>6, <1>7, <1>8, <1>9, <1>10, <1>11, <1>12
  DEF Next, unstep_tick

\* The state keeps its types, whatever the shapes of the blocks.
THEOREM TickTypeCorrect == Spec => []TypeOK
<1>1. Init => PinsOK
  <2> SUFFICES ASSUME Init PROVE PinsOK
    OBVIOUS
  <2>1. exec \in Execution
    BY AtRest DEF Init
  <2>2. 0 \in 0 .. MaxBlocks /\ 0 \in 0 .. MaxForced
    BY TickAssumption
  <2> QED
    BY <2>1, <2>2 DEF Init, PinsOK
<1>2. BlockInv /\ PinsOK => TypeOK
  BY DEF BlockInv, PinsOK, TypeOK
<1> QED
  BY <1>1, <1>2, BlockInit, BlockStep, TypesStep, PTL DEF Spec
=============================================================================
