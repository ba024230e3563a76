------------------------ MODULE SimulationLoopProofs ------------------------
(***************************************************************************)
(* Proofs about the grid of releases, for every step size, every bound of  *)
(* the 64-bit arithmetic and every schedule of the threads: the releases   *)
(* are accounted for, a step never catches up, and the figures of a run    *)
(* agree with each other.                                                  *)
(*                                                                         *)
(* Then about the inputs of the steps, for every set of channels, every    *)
(* limit and every interleaving of the serial worker, the window and the   *)
(* steps.  What the code keeps per channel (a last valid value, a count, a *)
(* consumed generation) is shown to be a function of the samples the steps *)
(* have looked at, which is the history `seen`.                            *)
(***************************************************************************)
EXTENDS SimulationLoop, FiniteSetTheorems, TLAPS

Schedules == [release_index : Nat, unused_releases : Nat, late_steps : Nat,
              max_lateness : 0..U64Max]

\* LatenessAccounting of any schedule.
Lateness(s) ==
    /\ s.late_steps <= s.unused_releases
    /\ s.max_lateness <= s.unused_releases * StepNs
    /\ (s.late_steps = 0) = (s.max_lateness = 0)

-----------------------------------------------------------------------------
(* Arithmetic.                                                               *)

\* Quotient and remainder of EarliestRelease and of the overflow guards.
LEMMA Division ==
  ASSUME NEW t \in Nat, NEW d \in Nat \ {0}
  PROVE  /\ t \div d \in Nat
         /\ t % d \in 0..(d - 1)
         /\ t = d * (t \div d) + (t % d)
  OBVIOUS

\* Multiplying by the step keeps the order of release indices.
LEMMA MulMono ==
  ASSUME NEW a \in Nat, NEW b \in Nat, NEW d \in Nat, a <= b
  PROVE  a * d <= b * d
<1> DEFINE k == b - a
<1>1. k \in Nat /\ b = a + k
  OBVIOUS
<1>2. k * d \in Nat /\ a * d \in Nat
  BY <1>1
<1>3. b * d = a * d + k * d
  BY <1>1
<1> HIDE DEF k
<1> QED BY <1>2, <1>3

\* The earliest release is the first one that is not before t.
LEMMA Ceiling ==
  ASSUME NEW t \in 0..U64Max
  PROVE  /\ EarliestRelease(t) \in Nat
         /\ t <= EarliestRelease(t) * StepNs
         /\ EarliestRelease(t) * StepNs < t + StepNs
<1>1. StepNs \in Nat \ {0} /\ t \in Nat
  BY StepAssumption
<1>2. /\ t \div StepNs \in Nat
      /\ t % StepNs \in 0..(StepNs - 1)
      /\ t = StepNs * (t \div StepNs) + (t % StepNs)
  BY <1>1, Division
<1> DEFINE q == t \div StepNs
           r == t % StepNs
<1>3. (q + 1) * StepNs = StepNs * q + StepNs
  BY <1>1, <1>2
<1>4. CASE r = 0
  BY <1>1, <1>2, <1>4 DEF EarliestRelease
<1>5. CASE r # 0
  BY <1>1, <1>2, <1>3, <1>5 DEF EarliestRelease
<1> QED BY <1>4, <1>5

\* The guard of ReleaseScheduleReleaseNs lets through exactly the releases
\* that a 64-bit number can hold.
LEMMA GuardIsExact ==
  ASSUME NEW i \in Nat
  PROVE  (i > U64Max \div StepNs) <=> (i * StepNs > U64Max)
<1>1. StepNs \in Nat \ {0} /\ U64Max \in Nat
  BY StepAssumption
<1> DEFINE q == U64Max \div StepNs
<1>2. /\ q \in Nat
      /\ U64Max % StepNs \in 0..(StepNs - 1)
      /\ U64Max = StepNs * q + (U64Max % StepNs)
  BY <1>1, Division
<1>3. q * StepNs = StepNs * q /\ (q + 1) * StepNs = StepNs * q + StepNs
  BY <1>1, <1>2
<1> HIDE DEF q
<1>4. i <= q => i * StepNs <= U64Max
  <2>1. i <= q => i * StepNs <= q * StepNs
    BY <1>1, <1>2, MulMono
  <2>2. i * StepNs \in Nat /\ q * StepNs \in Nat
    BY <1>1, <1>2
  <2> QED BY <1>1, <1>2, <1>3, <2>1, <2>2
<1>5. i > q => i * StepNs > U64Max
  <2>1. i > q => (q + 1) * StepNs <= i * StepNs
    BY <1>1, <1>2, MulMono
  <2>2. i * StepNs \in Nat /\ StepNs * q \in Nat
    BY <1>1, <1>2
  <2> QED BY <1>1, <1>2, <1>3, <2>1, <2>2
<1>6. i * StepNs \in Nat
  BY <1>1
<1> QED BY <1>1, <1>2, <1>4, <1>5, <1>6 DEF q

\* ReleaseNs is the product, or the largest number there is.
LEMMA ReleaseNsIs ==
  ASSUME NEW s \in Schedules
  PROVE  /\ ReleaseNs(s) \in 0..U64Max
         /\ s.release_index * StepNs <= U64Max =>
              ReleaseNs(s) = s.release_index * StepNs
         /\ s.release_index * StepNs > U64Max => ReleaseNs(s) = U64Max
<1>1. StepNs \in Nat /\ U64Max \in Nat /\ s.release_index \in Nat
  BY StepAssumption DEF Schedules
<1>2. s.release_index * StepNs \in Nat
  BY <1>1
<1>3. (s.release_index > U64Max \div StepNs) <=> (s.release_index * StepNs > U64Max)
  BY <1>1, GuardIsExact
<1> QED BY <1>1, <1>2, <1>3 DEF ReleaseNs

-----------------------------------------------------------------------------
(* What the two operations on the grid leave behind.                         *)

\* ReleaseScheduleAdvanceToEarliestRelease, when it succeeds: the releases it
\* passes over are counted, and the new one is the first that is not past.
LEMMA AdvanceResult ==
  ASSUME NEW s \in Schedules, NEW t \in 0..U64Max, ~AdvanceFails(s, t),
         Lateness(s)
  PROVE  LET n == AdvanceToEarliestRelease(s, t) IN
         /\ n \in Schedules
         /\ n.release_index - n.unused_releases
              = s.release_index - s.unused_releases
         /\ Lateness(n)
         /\ t <= ReleaseNs(s) => n = s
         /\ t > ReleaseNs(s) => t <= ReleaseNs(n) /\ ReleaseNs(n) <= t + StepNs
<1> DEFINE n == AdvanceToEarliestRelease(s, t)
           e == EarliestRelease(t)
<1>1. StepNs \in Nat \ {0} /\ U64Max \in Nat /\ t \in Nat
  BY StepAssumption
<1>2. ReleaseNs(s) \in 0..U64Max
  BY ReleaseNsIs
<1>3. CASE t <= ReleaseNs(s)
  BY <1>1, <1>2, <1>3 DEF AdvanceToEarliestRelease, Schedules
<1>4. CASE t > ReleaseNs(s)
  <2>1. ~(t <= ReleaseNs(s))
    BY <1>1, <1>2, <1>4
  <2>2. e \in Nat /\ t <= e * StepNs /\ e * StepNs < t + StepNs
    BY Ceiling
  <2>3. e >= s.release_index
    BY <2>1, <2>2 DEF AdvanceFails, Schedules
  <2>4. n = [s EXCEPT !.unused_releases = @ + e - s.release_index,
                      !.release_index = e]
    BY <2>1 DEF AdvanceToEarliestRelease
  <2> HIDE DEF n, e
  <2>5. /\ n.release_index = e
        /\ n.unused_releases = s.unused_releases + e - s.release_index
        /\ n.late_steps = s.late_steps
        /\ n.max_lateness = s.max_lateness
    BY <2>4 DEF Schedules
  <2>6. n \in Schedules
    <3>1. s.unused_releases + e - s.release_index \in Nat
      BY <2>2, <2>3 DEF Schedules
    <3> QED BY <2>2, <2>4, <3>1 DEF Schedules
  <2>7. s.unused_releases * StepNs <= n.unused_releases * StepNs
    BY <1>1, <2>2, <2>3, <2>5, <2>6, MulMono DEF Schedules
  <2>8. /\ s.unused_releases * StepNs \in Nat
        /\ n.unused_releases * StepNs \in Nat
        /\ e * StepNs \in Nat
    BY <1>1, <2>2, <2>6 DEF Schedules
  <2>9. Lateness(n)
    BY <1>1, <2>2, <2>3, <2>5, <2>6, <2>7, <2>8 DEF Lateness, Schedules
  <2>10. t <= ReleaseNs(n) /\ ReleaseNs(n) <= t + StepNs
    BY <1>1, <2>2, <2>5, <2>6, <2>8, ReleaseNsIs
  <2>11. n.release_index - n.unused_releases = s.release_index - s.unused_releases
    BY <2>2, <2>5 DEF Schedules
  <2> QED BY <2>1, <2>6, <2>9, <2>10, <2>11 DEF n
<1> QED BY <1>1, <1>2, <1>3, <1>4

\* ReleaseScheduleCompleteStep, when it succeeds on a step that ends at or
\* after its release: one release is used, those the step overran are counted,
\* and the next one is the first that is not before its end.
LEMMA CompleteResult ==
  ASSUME NEW s \in Schedules, NEW t \in 0..U64Max, ~CompleteFails(s),
         Lateness(s), ReleaseNs(s) <= t
  PROVE  LET n == CompleteStep(s, t) IN
         /\ n \in Schedules
         /\ n.release_index - n.unused_releases
              = s.release_index - s.unused_releases + 1
         /\ Lateness(n)
         /\ t <= ReleaseNs(n) /\ ReleaseNs(n) <= t + StepNs
<1> DEFINE n == CompleteStep(s, t)
           e == EarliestRelease(t)
           i == s.release_index
           lost == NextRelease(s, t) - i - 1
<1>1. StepNs \in Nat \ {0} /\ U64Max \in Nat /\ t \in Nat /\ i \in Nat
  BY StepAssumption DEF Schedules
<1>2. e \in Nat /\ t <= e * StepNs /\ e * StepNs < t + StepNs
  BY Ceiling
<1>3. /\ U64Max \div StepNs \in Nat
      /\ U64Max = StepNs * (U64Max \div StepNs) + (U64Max % StepNs)
      /\ U64Max % StepNs \in 0..(StepNs - 1)
  BY <1>1, Division
<1>4. (i + 1) * StepNs <= U64Max /\ (i + 1) * StepNs \in Nat
  <2>1. ~(i + 1 > U64Max \div StepNs)
    BY <1>1, <1>3 DEF CompleteFails
  <2> QED BY <1>1, <2>1, GuardIsExact
<1>5. Deadline(s) = (i + 1) * StepNs
  <2>1. \A x \in Nat : x <= U64Max => x % (U64Max + 1) = x
    BY <1>1
  <2> QED BY <1>4, <2>1 DEF Deadline, Wrap
<1>6. (i + 1) * StepNs = i * StepNs + StepNs /\ i * StepNs \in Nat
  BY <1>1
<1>7. ReleaseNs(s) = i * StepNs
  BY <1>1, <1>4, <1>6, ReleaseNsIs
<1>8. /\ NextRelease(s, t) \in Nat
      /\ NextRelease(s, t) = IF e <= i THEN i + 1 ELSE e
      /\ lost \in Nat
  BY <1>1, <1>2 DEF NextRelease
<1> DEFINE late == t > (i + 1) * StepNs
           lateness == IF late THEN t - (i + 1) * StepNs ELSE 0
<1>9. /\ n.release_index = i + 1 + lost
      /\ n.unused_releases = s.unused_releases + lost
      /\ n.late_steps = s.late_steps + (IF late THEN 1 ELSE 0)
      /\ n.max_lateness = IF lateness > s.max_lateness THEN lateness
                          ELSE s.max_lateness
      /\ n = [release_index |-> n.release_index,
              unused_releases |-> n.unused_releases,
              late_steps |-> n.late_steps, max_lateness |-> n.max_lateness]
  BY <1>1, <1>5, <1>8 DEF CompleteStep
<1>10. lateness \in 0..U64Max
  BY <1>1, <1>4
<1> HIDE DEF n, e, lost
<1>11. n \in Schedules
  <2>1. n.release_index \in Nat /\ n.unused_releases \in Nat /\ n.late_steps \in Nat
    BY <1>1, <1>8, <1>9 DEF Schedules
  <2>2. n.max_lateness \in 0..U64Max
    BY <1>9, <1>10 DEF Schedules
  <2> QED BY <1>9, <2>1, <2>2 DEF Schedules
\* A step that ends in the period of its release loses none; the products are
\* compared, not the indices.
<1>12. n.release_index * StepNs >= t /\ n.release_index * StepNs <= t + StepNs
  <2>1. CASE e <= i
    <3>1. e * StepNs <= i * StepNs
      BY <1>1, <1>2, <2>1, MulMono
    <3>2. n.release_index = i + 1
      BY <1>1, <1>8, <1>9, <2>1 DEF lost
    <3> QED BY <1>1, <1>2, <1>6, <1>7, <3>1, <3>2
  <2>2. CASE ~(e <= i)
    <3>1. n.release_index = e
      BY <1>1, <1>2, <1>8, <1>9, <2>2 DEF lost
    <3>2. e * StepNs \in Nat
      BY <1>1, <1>2
    <3> QED BY <1>1, <1>2, <3>1, <3>2
  <2> QED BY <2>1, <2>2
<1>13. n.release_index * StepNs \in Nat
  BY <1>1, <1>11 DEF Schedules
<1>14. t <= ReleaseNs(n) /\ ReleaseNs(n) <= t + StepNs
  BY <1>1, <1>11, <1>12, <1>13, ReleaseNsIs
\* A late step gives up as many releases as it is late.
<1>15. late => lost >= 1 /\ lateness <= lost * StepNs
  <2> SUFFICES ASSUME late PROVE lost >= 1 /\ lateness <= lost * StepNs
    OBVIOUS
  <2>1. e > i + 1
    <3>1. e <= i + 1 => e * StepNs <= (i + 1) * StepNs
      BY <1>1, <1>2, MulMono
    <3>2. e * StepNs \in Nat
      BY <1>1, <1>2
    <3> QED BY <1>1, <1>2, <1>4, <3>1, <3>2
  <2>2. lost = e - i - 1 /\ n.release_index = e
    BY <1>1, <1>2, <1>8, <1>9, <2>1 DEF lost
  <2>3. lost * StepNs = e * StepNs - (i + 1) * StepNs
    BY <1>1, <1>2, <2>2
  <2>4. e * StepNs \in Nat
    BY <1>1, <1>2
  <2> QED BY <1>1, <1>2, <1>4, <2>1, <2>2, <2>3, <2>4
<1>16. n.unused_releases * StepNs = s.unused_releases * StepNs + lost * StepNs
  BY <1>1, <1>8, <1>9 DEF Schedules
<1>17. lost * StepNs \in Nat /\ s.unused_releases * StepNs \in Nat
  BY <1>1, <1>8 DEF Schedules
<1>18. Lateness(n)
  <2>1. CASE late
    <3>1. n.late_steps <= n.unused_releases
      BY <1>8, <1>9, <1>15, <2>1 DEF Lateness, Schedules
    <3>2. n.max_lateness <= n.unused_releases * StepNs
      BY <1>9, <1>10, <1>15, <1>16, <1>17, <2>1 DEF Lateness, Schedules
    <3>3. n.late_steps # 0 /\ n.max_lateness # 0
      BY <1>1, <1>4, <1>9, <1>10, <2>1 DEF Schedules
    <3> QED BY <3>1, <3>2, <3>3 DEF Lateness
  <2>2. CASE ~late
    <3>1. n.late_steps = s.late_steps /\ n.max_lateness = s.max_lateness
      BY <1>9, <2>2 DEF Schedules
    <3>2. n.late_steps <= n.unused_releases
      BY <1>8, <1>9, <3>1 DEF Lateness, Schedules
    <3>3. n.max_lateness <= n.unused_releases * StepNs
      BY <1>16, <1>17, <3>1 DEF Lateness, Schedules
    <3> QED BY <3>1, <3>2, <3>3 DEF Lateness
  <2> QED BY <2>1, <2>2
<1>19. n.release_index - n.unused_releases = i - s.unused_releases + 1
  BY <1>1, <1>8, <1>9 DEF Schedules
<1> QED BY <1>11, <1>14, <1>18, <1>19 DEF n

-----------------------------------------------------------------------------
(* The loop.                                                                 *)

LoopTyping ==
    /\ now \in 0..U64Max /\ readAt \in 0..U64Max /\ doneAt \in 0..U64Max
    /\ schedule \in Schedules
    /\ completed \in Nat

\* Where the release in hand stands on the clock, place by place.
ReleaseInv ==
    /\ pc = "start" => completed = 0
    /\ pc \in {"start", "test"} /\ completed = 0 => schedule.release_index = 0
    /\ pc \in {"advance", "sleep"} => completed > 0
    /\ pc \in {"prepare", "compute"} => ReleaseNs(schedule) <= now
    /\ pc \in {"test", "advance"} /\ completed > 0 =>
         /\ doneAt <= now
         /\ doneAt <= ReleaseNs(schedule)
         /\ ReleaseNs(schedule) <= doneAt + StepNs
    /\ pc = "sleep" => /\ doneAt <= ReleaseNs(schedule)
                       /\ ReleaseNs(schedule) <= readAt + StepNs

GridInv == LoopTyping /\ ReleaseInv /\ GridAccounting /\ Lateness(schedule) /\ NoBurst

\* The invariant of the schedule holds before the first step.
LEMMA GridInit == Init => GridInv
<1> SUFFICES ASSUME Init PROVE GridInv
  OBVIOUS
<1>1. StepNs \in Nat /\ U64Max \in Nat
  BY StepAssumption
<1>2. schedule = [release_index |-> 0, unused_releases |-> 0, late_steps |-> 0,
                  max_lateness |-> 0]
  BY DEF Init, NewSchedule
<1>3. LoopTyping
  BY <1>1, <1>2 DEF Init, LoopTyping, Schedules
<1>4. ReleaseInv
  BY <1>2 DEF Init, ReleaseInv
<1>5. GridAccounting
  BY <1>2 DEF Init, GridAccounting
<1>6. Lateness(schedule)
  BY <1>1, <1>2 DEF Lateness
<1>7. NoBurst
  BY DEF Init, NoBurst
<1> QED BY <1>3, <1>4, <1>5, <1>6, <1>7 DEF GridInv

\* Every step keeps it.
LEMMA GridNext == GridInv /\ [Next]_vars => GridInv'
<1> SUFFICES ASSUME GridInv, [Next]_vars PROVE GridInv'
  OBVIOUS
<1>c. StepNs \in Nat \ {0} /\ U64Max \in Nat
  BY StepAssumption
<1>r. ReleaseNs(schedule) \in 0..U64Max
  BY ReleaseNsIs DEF GridInv, LoopTyping
<1> USE DEF GridInv, LoopTyping
\* The steps that leave the grid, the clock and the place alone.
<1>1. CASE UNCHANGED <<now, schedule, pc, completed, readAt, doneAt>>
  BY <1>1 DEF ReleaseInv, GridAccounting, Lateness, NoBurst, ReleaseNs
\* The steps that end the loop.
<1>2. CASE /\ pc' \in {"verdict", "finish", "done"}
           /\ UNCHANGED <<now, schedule, completed>>
           /\ readAt' \in 0..U64Max /\ doneAt' \in 0..U64Max
  <2>1. LoopTyping'
    BY <1>2
  <2>2. ReleaseInv' /\ NoBurst'
    BY <1>2 DEF ReleaseInv, NoBurst
  <2>3. GridAccounting' /\ Lateness(schedule)'
    BY <1>2 DEF GridAccounting, Lateness
  <2> QED BY <2>1, <2>2, <2>3
<1>3. CASE ConfigureRealtimeThread
  <2>1. /\ pc = "start" /\ pc' \in {"test", "finish"}
        /\ UNCHANGED <<now, schedule, completed, readAt, doneAt>>
    BY <1>3 DEF ConfigureRealtimeThread, Fail, Goto
  <2>2. CASE pc' = "finish"
    BY <1>2, <2>1, <2>2
  <2>3. CASE pc' = "test"
    <3>1. completed = 0 /\ schedule.release_index = 0
      BY <2>1 DEF ReleaseInv
    <3> QED BY <2>1, <2>3, <3>1 DEF ReleaseInv, GridAccounting, Lateness, NoBurst
  <2> QED BY <2>1, <2>2, <2>3
<1>4. CASE LoopTest
  <2>1. /\ pc = "test" /\ UNCHANGED <<now, schedule, completed, readAt, doneAt>>
        /\ \/ pc' = "verdict"
           \/ completed = 0 /\ pc' = "prepare"
           \/ completed # 0 /\ pc' = "advance"
    BY <1>4 DEF LoopTest, Goto
  <2>2. CASE pc' = "verdict"
    BY <1>2, <2>1, <2>2
  <2>3. CASE completed = 0 /\ pc' = "prepare"
    <3>1. schedule.release_index = 0 /\ 0 * StepNs = 0
      BY <1>c, <2>1, <2>3 DEF ReleaseInv
    <3>2. ReleaseNs(schedule) = 0
      BY <1>c, <3>1, ReleaseNsIs
    <3> QED BY <2>1, <2>3, <3>2 DEF ReleaseInv, GridAccounting, Lateness, NoBurst, ReleaseNs
  <2>4. CASE completed # 0 /\ pc' = "advance"
    BY <2>1, <2>4 DEF ReleaseInv, GridAccounting, Lateness, NoBurst, ReleaseNs
  <2> QED BY <2>1, <2>2, <2>3, <2>4
<1>5. CASE Advance
  <2>1. CASE AdvanceFails(schedule, now)
    BY <1>2, <1>5, <2>1 DEF Advance, Fail
  <2>2. CASE ~AdvanceFails(schedule, now)
    <3>1. /\ pc = "advance" /\ pc' = "sleep" /\ readAt' = now
          /\ schedule' = AdvanceToEarliestRelease(schedule, now)
          /\ UNCHANGED <<now, completed, doneAt>>
      BY <1>5, <2>2 DEF Advance, Goto
    <3>2. /\ schedule' \in Schedules
          /\ schedule'.release_index - schedule'.unused_releases
               = schedule.release_index - schedule.unused_releases
          /\ Lateness(schedule')
          /\ now <= ReleaseNs(schedule) => schedule' = schedule
          /\ now > ReleaseNs(schedule) =>
               now <= ReleaseNs(schedule') /\ ReleaseNs(schedule') <= now + StepNs
      BY <2>2, <3>1, AdvanceResult
    <3>3. completed > 0 /\ doneAt <= now /\ doneAt <= ReleaseNs(schedule)
          /\ ReleaseNs(schedule) <= doneAt + StepNs
      BY <3>1 DEF ReleaseInv
    <3>4. ReleaseNs(schedule') \in 0..U64Max
      BY <3>2, ReleaseNsIs
    <3>5. doneAt <= ReleaseNs(schedule') /\ ReleaseNs(schedule') <= now + StepNs
      BY <1>c, <1>r, <3>2, <3>3, <3>4
    <3>6. ReleaseInv' /\ NoBurst'
      BY <3>1, <3>3, <3>5 DEF ReleaseInv, NoBurst, ReleaseNs
    <3>7. GridAccounting'
      BY <3>1, <3>2 DEF GridAccounting, Schedules
    <3>8. Lateness(schedule)'
      BY <3>2 DEF Lateness
    <3>9. LoopTyping'
      BY <3>1, <3>2
    <3> QED BY <3>6, <3>7, <3>8, <3>9
  <2> QED BY <2>1, <2>2
<1>6. CASE Wake
  <2>1. CASE pc' \in {"verdict", "finish"}
    BY <1>2, <1>6, <2>1 DEF Wake, Goto, Fail
  <2>2. CASE pc' \notin {"verdict", "finish"}
    <3>1. /\ pc = "sleep" /\ pc' = "prepare" /\ now >= ReleaseNs(schedule)
          /\ UNCHANGED <<now, schedule, completed, readAt, doneAt>>
      BY <1>6, <2>2 DEF Wake, Goto, Fail
    <3> QED BY <1>r, <3>1 DEF ReleaseInv, GridAccounting, Lateness, NoBurst, ReleaseNs
  <2> QED BY <2>1, <2>2
<1>7. CASE PrepareStep
  <2>1. /\ pc = "prepare" /\ pc' \in {"finish", "compute"}
        /\ readAt' = 0 /\ doneAt' = 0 /\ UNCHANGED <<now, schedule, completed>>
    BY <1>7 DEF PrepareStep, Fail, Goto
  <2> QED BY <1>c, <2>1 DEF ReleaseInv, GridAccounting, Lateness, NoBurst, ReleaseNs
<1>8. CASE DoStep
  <2>1. CASE pc' = "finish"
    BY <1>2, <1>8, <2>1 DEF DoStep, FmuFails, PublishFails, StepDone, Fail, Goto
  <2>2. CASE pc' # "finish"
    <3>1. /\ pc = "compute" /\ pc' = "test" /\ doneAt' = now
          /\ ~CompleteFails(schedule)
          /\ schedule' = CompleteStep(schedule, now)
          /\ completed' = completed + 1 /\ UNCHANGED <<now, readAt>>
      BY <1>8, <2>2 DEF DoStep, FmuFails, PublishFails, StepDone, Fail, Goto
    <3>2. /\ schedule' \in Schedules
          /\ schedule'.release_index - schedule'.unused_releases
               = schedule.release_index - schedule.unused_releases + 1
          /\ Lateness(schedule')
          /\ now <= ReleaseNs(schedule') /\ ReleaseNs(schedule') <= now + StepNs
      BY <3>1, CompleteResult DEF ReleaseInv
    <3>3. ReleaseInv' /\ NoBurst'
      BY <3>1, <3>2 DEF ReleaseInv, NoBurst, ReleaseNs
    <3>4. GridAccounting'
      BY <3>1, <3>2 DEF GridAccounting, Schedules
    <3>5. Lateness(schedule)'
      BY <3>2 DEF Lateness
    <3>6. LoopTyping'
      BY <3>1, <3>2
    <3> QED BY <3>3, <3>4, <3>5, <3>6
  <2> QED BY <2>1, <2>2
<1>9. CASE Verdict \/ Release
  BY <1>2, <1>9 DEF Verdict, Release, Goto
<1>10. CASE FirstField \/ OtherField \/ SetVirtualInput \/ RequestStop
  BY <1>1, <1>10 DEF FirstField, OtherField, PublishField, SetVirtualInput,
                     RequestStop, loopVars
\* Time passes: what is past stays past, and a release does not move.
<1>11. CASE Tick
  <2>1. /\ now' = now + 1 /\ now' \in 0..U64Max
        /\ UNCHANGED <<schedule, pc, completed, readAt, doneAt>>
    BY <1>c, <1>11 DEF Tick
  <2> QED BY <1>c, <1>r, <2>1 DEF ReleaseInv, GridAccounting, Lateness, NoBurst, ReleaseNs
<1>12. CASE Terminated \/ UNCHANGED vars
  BY <1>1, <1>12 DEF Terminated, vars, loopVars
<1> QED
  BY <1>3, <1>4, <1>5, <1>6, <1>7, <1>8, <1>9, <1>10, <1>11, <1>12
  DEF Next, SimulationThread

\* The invariant of the grid holds in every run.
THEOREM LoopInvariant == Spec => []GridInv
<1> QED BY GridInit, GridNext, PTL DEF Spec

\* Every release up to the next one was used by exactly one step or counted as
\* unused, whatever the step size and however long steps and sleeps take.
THEOREM LoopGridAccounting == Spec => []GridAccounting
<1>1. GridInv => GridAccounting
  BY DEF GridInv
<1> QED BY <1>1, LoopInvariant, PTL

\* No step begins before its release, on a release that the step before it had
\* overrun, or later than on the first release that is free.
THEOREM LoopNoBurst == Spec => []NoBurst
<1>1. GridInv => NoBurst
  BY DEF GridInv
<1> QED BY <1>1, LoopInvariant, PTL

\* The late steps, the worst lateness and the unused releases of a run agree.
THEOREM LoopLatenessAccounting == Spec => []LatenessAccounting
<1>1. GridInv => LatenessAccounting
  BY DEF GridInv, Lateness, LatenessAccounting
<1> QED BY <1>1, LoopInvariant, PTL

-----------------------------------------------------------------------------
(* The inputs of the steps.                                                  *)

Record(value, valid) == [value |-> value, valid |-> valid]

\* The samples of c after the one whose value the steps use.
Run(c) == {k \in seen[c] : k.value > lastValid[c]}

\* Channel c: publications are numbered; the samples seen are among those
\* consumed, and the newest consumed one is among them; the value in use and
\* the count are those of the samples seen.
ChannelInv(c) ==
    /\ candidate[c].value = candidate[c].generation
    /\ consumed[c] <= candidate[c].generation
    /\ \A k \in seen[c] : k.value \in 1..consumed[c]
    /\ consumed[c] > 0 => \E k \in seen[c] : k.value = consumed[c]
    /\ candidate[c].generation > 0 /\ consumed[c] = candidate[c].generation =>
         Record(candidate[c].value, candidate[c].valid) \in seen[c]
    /\ lastValid[c] > 0 => Record(lastValid[c], TRUE) \in seen[c]
    /\ \A k \in seen[c] : k.valid => k.value <= lastValid[c]
    /\ IsFiniteSet(Run(c)) /\ Cardinality(Run(c)) = invalidSteps[c]

\* The worker publishes the fields of a frame in order, so the channels it has
\* still to come to are one frame behind.
WorkerInv ==
    /\ field > 0 => frame > 0
    /\ initialized => \A c \in Physical :
         candidate[c].generation = IF field > 0 /\ field <= c THEN frame - 1 ELSE frame

\* The count stays below the limit until the protection ends the run, and then
\* says why.
ProtectInv ==
    /\ initialized <=> pc # "done"
    /\ protect /\ pc \notin {"finish", "done"} =>
         \A c \in Channels : invalidSteps[c] < InvalidLimit
    /\ stage = "input-protection" /\ pc = "finish" =>
         \E c \in Channels : invalidSteps[c] >= InvalidLimit
    /\ stage # "none" => pc \in {"finish", "done"}

\* The types these proofs need.
InputTypes ==
    /\ candidate \in [Channels -> [value : Nat, valid : BOOLEAN, generation : Nat]]
    /\ consumed \in [Channels -> Nat]
    /\ lastValid \in [Channels -> Nat]
    /\ invalidSteps \in [Channels -> Nat]
    /\ protect \in BOOLEAN /\ initialized \in BOOLEAN
    /\ seen \in [Channels -> SUBSET [value : Nat, valid : BOOLEAN]]
    /\ frame \in Nat /\ field \in 0..NPhysical

InputInv == /\ InputTypes /\ WorkerInv /\ ProtectInv
            /\ \A c \in Channels : ChannelInv(c)

-----------------------------------------------------------------------------
(* One channel.                                                              *)

\* The fields of a candidate and of a sample.
LEMMA Fields ==
    ASSUME InputTypes, NEW c \in Channels
    PROVE  /\ candidate[c].value \in Nat /\ candidate[c].valid \in BOOLEAN
           /\ candidate[c].generation \in Nat
           /\ consumed[c] \in Nat /\ lastValid[c] \in Nat /\ invalidSteps[c] \in Nat
           /\ seen[c] \subseteq [value : Nat, valid : BOOLEAN]
  BY DEF InputTypes

\* A publication is a new candidate and nothing else: what the steps have seen
\* and use stays as it is, of this channel and of the others.
LEMMA PublishKeeps ==
    ASSUME InputInv, NEW c \in Channels, NEW v \in BOOLEAN, UNCHANGED seen,
           InputStatePublish(c, candidate[c].generation + 1, v)
    PROVE  /\ candidate' \in [Channels -> [value : Nat, valid : BOOLEAN, generation : Nat]]
           /\ candidate'[c].generation = candidate[c].generation + 1
           /\ \A d \in Channels : d # c => candidate'[d] = candidate[d]
           /\ \A d \in Channels : ChannelInv(d)'
           /\ UNCHANGED <<consumed, lastValid, invalidSteps, protect, initialized>>
PROOF
  <1>1. candidate[c].generation \in Nat
    BY Fields DEF InputInv
  <1> DEFINE new == [value |-> candidate[c].generation + 1, valid |-> v,
                     generation |-> candidate[c].generation + 1]
  <1>2. new \in [value : Nat, valid : BOOLEAN, generation : Nat]
    BY <1>1
  <1>3. candidate' = [candidate EXCEPT ![c] = new]
    BY DEF InputStatePublish
  <1>4. UNCHANGED <<consumed, lastValid, invalidSteps, protect, initialized>>
    BY DEF InputStatePublish
  <1>5. /\ new.value = candidate[c].generation + 1
        /\ new.generation = candidate[c].generation + 1
    OBVIOUS
  <1> HIDE DEF new
  <1>6. /\ candidate' \in [Channels -> [value : Nat, valid : BOOLEAN, generation : Nat]]
        /\ candidate'[c] = new
        /\ \A d \in Channels : d # c => candidate'[d] = candidate[d]
    BY <1>2, <1>3 DEF InputInv, InputTypes
  <1>7. ASSUME NEW d \in Channels PROVE ChannelInv(d)'
    <2>1. Run(d)' = Run(d)
      BY <1>4 DEF Run
    <2>2. ChannelInv(d)
      BY DEF InputInv
    <2>3. CASE d # c
      BY <1>4, <1>6, <2>1, <2>2, <2>3 DEF ChannelInv
    <2>4. CASE d = c
      <3>1. consumed[c] \in Nat
        BY Fields DEF InputInv
      <3>2. consumed[c] <= candidate[c].generation
        BY <2>2, <2>4 DEF ChannelInv
      <3>3. consumed'[c] < candidate'[c].generation
        BY <1>1, <1>4, <1>5, <1>6, <3>1, <3>2
      <3>4. candidate'[c].value = candidate'[c].generation
        BY <1>5, <1>6
      <3>5. consumed'[c] <= candidate'[c].generation
        BY <1>1, <1>4, <1>5, <1>6, <3>1, <3>3
      <3>6. consumed'[c] # candidate'[c].generation
        BY <1>1, <1>4, <1>5, <1>6, <3>1, <3>3
      <3> QED
        BY <1>4, <2>1, <2>2, <2>4, <3>4, <3>5, <3>6 DEF ChannelInv
    <2> QED
      BY <2>3, <2>4
  <1> QED
    BY <1>4, <1>5, <1>6, <1>7

\* A step's look at channel c.
LEMMA PrepareKeeps ==
    ASSUME InputInv, InputStatePrepareStep, NEW c \in Channels,
           seen' = [d \in Channels |-> seen[d] \union Sample(candidate[d])]
    PROVE  /\ ChannelInv(c)'
           /\ lastValid'[c] \in Nat /\ invalidSteps'[c] \in Nat
           /\ seen'[c] \subseteq [value : Nat, valid : BOOLEAN]
PROOF
  <1> DEFINE gen == candidate[c].generation
             ok == candidate[c].valid
             mine == Record(gen, ok)
  <1>1. /\ consumed'[c] = gen /\ lastValid'[c] = StepValue(c)
        /\ invalidSteps'[c] = InvalidSteps(c)
        /\ seen'[c] = seen[c] \union Sample(candidate[c])
        /\ candidate'[c] = candidate[c]
    BY DEF InputStatePrepareStep
  <1>2. /\ gen \in Nat /\ ok \in BOOLEAN /\ consumed[c] \in Nat /\ lastValid[c] \in Nat
        /\ invalidSteps[c] \in Nat
        /\ seen[c] \subseteq [value : Nat, valid : BOOLEAN]
    BY Fields DEF InputInv
  <1>3. ChannelInv(c)
    BY DEF InputInv
  <1>4. candidate[c].value = gen /\ consumed[c] <= gen
    BY <1>3 DEF ChannelInv
  <1>5. /\ \A k \in seen[c] : k.value \in 1..consumed[c]
        /\ \A k \in seen[c] : k.valid => k.value <= lastValid[c]
        /\ lastValid[c] > 0 => Record(lastValid[c], TRUE) \in seen[c]
        /\ IsFiniteSet(Run(c)) /\ Cardinality(Run(c)) = invalidSteps[c]
        /\ consumed[c] > 0 => \E k \in seen[c] : k.value = consumed[c]
        /\ gen > 0 /\ consumed[c] = gen => mine \in seen[c]
    BY <1>3, <1>4 DEF ChannelInv
  <1>6. mine.value = gen /\ mine.valid = ok /\ mine \in [value : Nat, valid : BOOLEAN]
    BY <1>2 DEF Record
  <1>7. Sample(candidate[c]) = IF gen = 0 THEN {} ELSE {mine}
    BY <1>4 DEF Sample, Record
  <1>8. /\ candidate'[c].value = gen /\ candidate'[c].generation = gen
        /\ candidate'[c].valid = ok
    BY <1>1, <1>4
  <1>9. Run(c)' = {k \in seen'[c] : k.value > lastValid'[c]}
    BY DEF Run
  <1> HIDE DEF gen, ok, mine
  \* The sample was looked at before, or there is none.
  <1>10. CASE ~IsNew(c)
    <2>1. consumed[c] = gen
      BY <1>10 DEF IsNew, gen
    <2>2. lastValid'[c] = lastValid[c] /\ invalidSteps'[c] = invalidSteps[c]
      BY <1>1, <1>10 DEF StepValue, InvalidSteps
    <2>3. seen'[c] = seen[c]
      BY <1>1, <1>2, <1>5, <1>7, <2>1
    <2>4. Run(c)' = Run(c)
      BY <1>9, <2>2, <2>3 DEF Run
    <2>5. ChannelInv(c)'
      BY <1>1, <1>2, <1>4, <1>5, <1>8, <2>1, <2>2, <2>3, <2>4 DEF ChannelInv, mine
    <2> QED
      BY <1>2, <2>2, <2>3, <2>5
  \* A new sample is newer than all the others.
  <1>11. CASE IsNew(c)
    <2>1. consumed[c] < gen /\ gen > 0
      BY <1>2, <1>4, <1>11 DEF IsNew, gen
    <2>2. seen'[c] = seen[c] \union {mine}
      BY <1>1, <1>7, <2>1
    <2>3. /\ \A k \in seen[c] : k.value < gen
          /\ \A k \in seen[c] : k.value \in Nat
          /\ \A k \in seen[c] : k.value > 0
      BY <1>2, <1>5, <2>1
    <2>4. lastValid[c] < gen
      <3>1. Record(lastValid[c], TRUE).value = lastValid[c]
        BY DEF Record
      <3>2. CASE lastValid[c] > 0
        BY <1>5, <2>3, <3>1, <3>2
      <3>3. CASE lastValid[c] = 0
        BY <2>1, <3>3
      <3> QED
        BY <1>2, <3>2, <3>3
    <2>5. \A k \in seen'[c] : k.value \in 1..gen
      BY <1>2, <1>6, <2>1, <2>2, <2>3
    <2>6. mine \in seen'[c] /\ mine \notin seen[c]
      BY <1>2, <1>6, <2>2, <2>3
    <2>7. CASE ok
      <3>1. lastValid'[c] = gen /\ invalidSteps'[c] = 0
        BY <1>1, <1>4, <1>11, <2>7 DEF StepValue, InvalidSteps, ok
      <3>2. Run(c)' = {}
        BY <1>2, <1>9, <2>5, <3>1
      <3>3. mine = Record(gen, TRUE)
        BY <1>2, <2>7 DEF mine
      <3>4. ChannelInv(c)'
        <4>1. gen <= gen /\ \A k \in seen'[c] : k.value <= gen
          BY <1>2, <2>5
        <4>2. IsFiniteSet(Run(c)') /\ Cardinality(Run(c)') = 0
          BY <3>2, FS_EmptySet
        <4>3. Record(candidate'[c].value, candidate'[c].valid) \in seen'[c]
          BY <1>8, <2>6 DEF mine
        <4> QED
          BY <1>1, <1>6, <1>8, <2>5, <2>6, <3>1, <3>3, <4>1, <4>2, <4>3 DEF ChannelInv
      <3> QED
        BY <1>2, <1>6, <2>2, <3>1, <3>4
    <2>8. CASE ~ok
      <3>1. lastValid'[c] = lastValid[c] /\ invalidSteps'[c] = invalidSteps[c] + 1
        BY <1>1, <1>11, <2>8 DEF StepValue, InvalidSteps, ok
      <3>2. Run(c)' = Run(c) \union {mine} /\ mine \notin Run(c)
        BY <1>2, <1>6, <1>9, <2>2, <2>4, <2>6, <3>1 DEF Run
      <3>3. IsFiniteSet(Run(c)') /\ Cardinality(Run(c)') = invalidSteps[c] + 1
        BY <1>5, <3>2, FS_AddElement
      <3>4. \A k \in seen'[c] : k.valid => k.value <= lastValid'[c]
        BY <1>5, <1>6, <2>2, <2>8, <3>1
      <3>5. ChannelInv(c)'
        <4>1. gen <= gen
          BY <1>2
        <4>2. lastValid'[c] > 0 => Record(lastValid'[c], TRUE) \in seen'[c]
          BY <1>5, <2>2, <3>1
        <4>3. Record(candidate'[c].value, candidate'[c].valid) \in seen'[c]
          BY <1>8, <2>6 DEF mine
        <4> QED
          BY <1>1, <1>6, <1>8, <2>5, <2>6, <3>1, <3>3, <3>4, <4>1, <4>2, <4>3
          DEF ChannelInv
      <3> QED
        BY <1>2, <1>6, <2>2, <3>1, <3>5
    <2> QED
      BY <2>7, <2>8
  <1> QED
    BY <1>10, <1>11

-----------------------------------------------------------------------------
(* The steps.                                                                *)

\* Most steps leave inputs and worker alone.
LEMMA QuietKeeps ==
    ASSUME InputInv, UNCHANGED <<inputVars, workerVars, seen>>, ProtectInv'
    PROVE  InputInv'
PROOF
  <1>1. UNCHANGED <<candidate, consumed, lastValid, invalidSteps, protect,
                    initialized, frame, field, seen>>
    BY DEF inputVars, workerVars
  <1>2. InputTypes' /\ WorkerInv'
    BY <1>1 DEF InputInv, InputTypes, WorkerInv
  <1>3. \A c \in Channels : ChannelInv(c)'
    BY <1>1 DEF InputInv, ChannelInv, Run
  <1> QED
    BY <1>2, <1>3 DEF InputInv

\* The steps that touch no input.
LEMMA ThreadKeeps ==
    ASSUME InputInv,
           \/ ConfigureRealtimeThread \/ LoopTest \/ Advance \/ Wake \/ DoStep
           \/ Verdict \/ RequestStop \/ Tick \/ Terminated \/ UNCHANGED vars
    PROVE  InputInv'
PROOF
  <1>1. UNCHANGED <<inputVars, workerVars, seen>>
    BY DEF ConfigureRealtimeThread, LoopTest, Advance, Wake, DoStep, Verdict,
           RequestStop, Tick, Terminated, vars, inputVars, workerVars
  <1>2. /\ pc' = "done" <=> pc = "done"
        /\ pc' \notin {"finish", "done"} => pc \notin {"finish", "done"}
        /\ \/ UNCHANGED stage /\ (pc \in {"finish", "done"} => pc' = pc)
           \/ stage' # "input-protection" /\ pc' = "finish"
    BY DEF ConfigureRealtimeThread, LoopTest, Advance, Wake, DoStep, FmuFails,
           PublishFails, StepDone, Verdict, RequestStop, Tick, Terminated, vars,
           loopVars, Fail, Goto
  <1> QED
    BY <1>1, <1>2, QuietKeeps DEF InputInv, ProtectInv, inputVars

\* Places of Physical among the channels.
LEMMA PhysicalChannels == Physical \subseteq Channels /\ Physical \subseteq Nat
                          /\ NPhysical \in Nat
  BY LoopAssumption DEF Physical

\* A field of an acquisition frame: the next publication of its channel.
LEMMA FieldKeeps ==
    ASSUME InputInv, FirstField \/ OtherField
    PROVE  InputInv'
PROOF
  <1> DEFINE f == IF field = 0 THEN 1 ELSE field
  <1>1. field \in 0..NPhysical /\ frame \in Nat /\ NPhysical \in Nat
    BY PhysicalChannels DEF InputInv, InputTypes
  <1>2. f \in Physical /\ f \in Channels /\ f \in Nat
    BY <1>1, PhysicalChannels DEF FirstField, OtherField, Physical
  <1>3. /\ frame' = IF field = 0 THEN frame + 1 ELSE frame
        /\ PublishField(f)
    BY <1>1 DEF FirstField, OtherField
  <1>4. frame' \in Nat /\ (field > 0 => frame > 0) /\ frame' > 0
    BY <1>1, <1>3 DEF InputInv, WorkerInv
  <1>5. UNCHANGED <<seen, pc, stage>>
    BY <1>3 DEF PublishField, loopVars
  <1>6. CASE ~initialized
    <2>1. field' = 0 /\ UNCHANGED inputVars
      BY <1>3, <1>6 DEF PublishField
    <2>2. UNCHANGED <<candidate, consumed, lastValid, invalidSteps, protect,
                      initialized>>
      BY <2>1 DEF inputVars
    <2>3. InputTypes' /\ WorkerInv' /\ ProtectInv'
      BY <1>1, <1>4, <1>5, <1>6, <2>1, <2>2
      DEF InputInv, InputTypes, WorkerInv, ProtectInv
    <2>4. \A c \in Channels : ChannelInv(c)'
      BY <1>5, <2>2 DEF InputInv, ChannelInv, Run
    <2> QED
      BY <2>3, <2>4 DEF InputInv
  <1>7. CASE initialized
    <2>1. candidate[f].generation \in Nat
      BY <1>2, Fields DEF InputInv
    <2>2. frame' = candidate[f].generation + 1
      BY <1>1, <1>2, <1>3, <1>4, <1>7 DEF InputInv, WorkerInv
    <2>3. PICK v \in BOOLEAN : /\ InputStatePublish(f, frame', v)
                               /\ field' = NextField(f, v)
      BY <1>3, <1>7 DEF PublishField
    <2> HIDE DEF f
    <2>4. InputStatePublish(f, candidate[f].generation + 1, v)
      BY <2>2, <2>3
    <2>5. /\ candidate' \in [Channels -> [value : Nat, valid : BOOLEAN, generation : Nat]]
          /\ candidate'[f].generation = frame'
          /\ \A d \in Channels : d # f => candidate'[d] = candidate[d]
          /\ \A d \in Channels : ChannelInv(d)'
          /\ UNCHANGED <<consumed, lastValid, invalidSteps, protect, initialized>>
      BY <1>2, <1>5, <2>2, <2>4, PublishKeeps
    <2>6. field' = IF f = NPhysical THEN 0 ELSE f + 1
      BY <2>3 DEF NextField
    <2>7. field' \in 0..NPhysical
      BY <1>1, <1>2, <2>6 DEF Physical
    <2>8. ASSUME NEW c \in Physical
          PROVE  candidate'[c].generation
                   = IF field' > 0 /\ field' <= c THEN frame' - 1 ELSE frame'
      <3>1. c \in Channels /\ c \in Nat /\ c <= NPhysical
        BY PhysicalChannels DEF Physical
      <3>2. CASE c = f
        BY <1>1, <1>2, <1>4, <2>5, <2>6, <3>2
      <3>3. CASE c # f
        <4>1. candidate'[c].generation
                = IF field > 0 /\ field <= c THEN frame - 1 ELSE frame
          BY <1>7, <2>5, <3>1, <3>3 DEF InputInv, WorkerInv
        <4>2. field = 0 => frame' = frame + 1 /\ f = 1 /\ c > 1
          BY <1>3, <3>1, <3>3 DEF f, Physical
        <4>3. field > 0 => frame' = frame /\ f = field
          BY <1>3 DEF f
        <4> QED
          BY <1>1, <1>2, <2>6, <3>1, <3>3, <4>1, <4>2, <4>3
      <3> QED
        BY <3>2, <3>3
    <2>9. InputTypes' /\ WorkerInv' /\ ProtectInv'
      BY <1>4, <1>5, <2>5, <2>7, <2>8
      DEF InputInv, InputTypes, WorkerInv, ProtectInv
    <2> QED
      BY <2>5, <2>9 DEF InputInv
  <1> QED
    BY <1>6, <1>7 DEF InputInv, InputTypes

\* A virtual value: the next publication of a channel the worker never touches.
LEMMA VirtualKeeps ==
    ASSUME InputInv, SetVirtualInput
    PROVE  InputInv'
PROOF
  <1>1. PICK c \in Channels \ Physical :
          InputStatePublish(c, candidate[c].generation + 1, TRUE)
    BY DEF SetVirtualInput
  <1>2. UNCHANGED <<seen, pc, stage, frame, field>>
    BY DEF SetVirtualInput, loopVars, workerVars
  <1>3. /\ candidate' \in [Channels -> [value : Nat, valid : BOOLEAN, generation : Nat]]
        /\ \A d \in Channels : d # c => candidate'[d] = candidate[d]
        /\ \A d \in Channels : ChannelInv(d)'
        /\ UNCHANGED <<consumed, lastValid, invalidSteps, protect, initialized>>
    BY <1>1, <1>2, PublishKeeps
  <1>4. WorkerInv'
    BY <1>1, <1>2, <1>3, PhysicalChannels DEF InputInv, WorkerInv
  <1> QED
    BY <1>2, <1>3, <1>4 DEF InputInv, InputTypes, ProtectInv

\* The step takes the inputs of all channels at once.
LEMMA PrepareStepKeeps ==
    ASSUME InputInv, PrepareStep
    PROVE  InputInv'
PROOF
  <1>1. /\ InputStatePrepareStep
        /\ seen' = [d \in Channels |-> seen[d] \union Sample(candidate[d])]
        /\ UNCHANGED <<frame, field>> /\ pc = "prepare"
    BY DEF PrepareStep, workerVars
  <1>2. \A c \in Channels : /\ ChannelInv(c)'
                            /\ lastValid'[c] \in Nat /\ invalidSteps'[c] \in Nat
                            /\ seen'[c] \subseteq [value : Nat, valid : BOOLEAN]
    BY <1>1, PrepareKeeps
  <1>3. /\ consumed' = [c \in Channels |-> candidate[c].generation]
        /\ lastValid' = [c \in Channels |-> StepValue(c)]
        /\ invalidSteps' = [c \in Channels |-> InvalidSteps(c)]
        /\ UNCHANGED <<candidate, protect, initialized>>
    BY <1>1 DEF InputStatePrepareStep
  <1>4. InputTypes'
    <2>1. consumed' \in [Channels -> Nat]
      BY <1>3, Fields DEF InputInv
    <2>2. lastValid' \in [Channels -> Nat] /\ invalidSteps' \in [Channels -> Nat]
      BY <1>2, <1>3
    <2>3. seen' \in [Channels -> SUBSET [value : Nat, valid : BOOLEAN]]
      BY <1>1, <1>2
    <2> QED
      BY <1>1, <1>3, <2>1, <2>2, <2>3 DEF InputInv, InputTypes
  <1>5. WorkerInv'
    BY <1>1, <1>3 DEF InputInv, WorkerInv
  <1>6. ProtectInv'
    <2>1. /\ initialized /\ stage = "none"
          /\ protect => \A c \in Channels : invalidSteps[c] < InvalidLimit
      BY <1>1 DEF InputInv, ProtectInv
    <2>2. CASE LimitChannels = {}
      <3>1. pc' = "compute" /\ stage' = "none"
        BY <2>1, <2>2 DEF PrepareStep, Goto
      <3>2. ASSUME NEW c \in Channels, protect PROVE invalidSteps'[c] < InvalidLimit
        <4>1. invalidSteps'[c] = InvalidSteps(c) /\ InvalidSteps(c) \in Nat
          BY <1>2, <1>3
        <4>2. ~(IsNew(c) /\ ~candidate[c].valid /\ InvalidSteps(c) >= InvalidLimit)
          BY <2>2, <3>2 DEF LimitChannels
        <4>3. CASE IsNew(c) /\ ~candidate[c].valid
          BY <4>1, <4>2, <4>3, InputAssumption
        <4>4. CASE ~IsNew(c)
          BY <2>1, <3>2, <4>1, <4>4 DEF InvalidSteps
        <4>5. CASE IsNew(c) /\ candidate[c].valid
          BY <4>1, <4>5, InputAssumption DEF InvalidSteps
        <4> QED
          BY <4>3, <4>4, <4>5
      <3> QED
        BY <1>3, <2>1, <3>1, <3>2 DEF ProtectInv
    <2>3. CASE LimitChannels # {}
      <3>1. pc' = "finish"
        BY <2>3 DEF PrepareStep, Fail
      <3>2. PICK c \in Channels : InvalidSteps(c) >= InvalidLimit
        BY <2>3 DEF LimitChannels
      <3>3. invalidSteps'[c] >= InvalidLimit
        BY <1>3, <3>2
      <3> QED
        BY <1>3, <2>1, <3>1, <3>3 DEF ProtectInv
    <2> QED
      BY <2>2, <2>3
  <1> QED
    BY <1>2, <1>4, <1>5, <1>6 DEF InputInv

\* InputStateDestroy zeroes the state; nothing has been seen of it.
LEMMA ReleaseKeeps ==
    ASSUME InputInv, Release
    PROVE  InputInv'
PROOF
  <1>1. /\ candidate' = [c \in Channels |->
                           [value |-> 0, valid |-> FALSE, generation |-> 0]]
        /\ consumed' = [c \in Channels |-> 0] /\ lastValid' = [c \in Channels |-> 0]
        /\ invalidSteps' = [c \in Channels |-> 0] /\ seen' = [c \in Channels |-> {}]
        /\ initialized' = FALSE /\ protect' = FALSE /\ pc' = "done"
        /\ UNCHANGED <<frame, field>>
    BY DEF Release, InputStateDestroy, Goto, workerVars
  <1>2. ASSUME NEW c \in Channels PROVE ChannelInv(c)'
    <2>1. Run(c)' = {}
      BY <1>1 DEF Run
    <2> QED
      BY <1>1, <2>1, FS_EmptySet DEF ChannelInv
  <1>3. InputTypes'
    BY <1>1 DEF InputInv, InputTypes
  <1>4. WorkerInv' /\ ProtectInv'
    BY <1>1 DEF InputInv, WorkerInv, ProtectInv
  <1> QED
    BY <1>2, <1>3, <1>4 DEF InputInv

\* The newest of some samples, told by its two properties.
LEMMA NewestIs ==
    ASSUME NEW S, NEW n \in Nat, \A k \in S : k.value \in Nat /\ k.value <= n,
           n > 0 => \E k \in S : k.value = n
    PROVE  Newest(S) = n
PROOF
  <1> DEFINE V == {0} \union {k.value : k \in S}
  <1>1. V \subseteq Nat /\ n \in V /\ \A y \in V : n >= y
    OBVIOUS
  <1> HIDE DEF V
  <1> DEFINE m == Max(V)
  <1>2. \E x \in V : \A y \in V : x >= y
    BY <1>1
  <1>3. m \in V /\ \A y \in V : m >= y
    BY <1>2, Zenon DEF Max
  <1> HIDE DEF m
  <1>4. m \in Nat /\ m >= n /\ n >= m
    BY <1>1, <1>3
  <1>5. m = n
    BY <1>4
  <1> QED
    BY <1>5 DEF Newest, V, m

\* The value in use is that of the newest valid sample seen.
LEMMA LastValidIsNewest ==
    ASSUME InputInv, NEW c \in Channels
    PROVE  lastValid[c] = Newest(ValidSeen(c))
PROOF
  <1>1. lastValid[c] \in Nat /\ seen[c] \subseteq [value : Nat, valid : BOOLEAN]
    BY Fields DEF InputInv
  <1>2. ChannelInv(c)
    BY DEF InputInv
  <1>3. \A k \in ValidSeen(c) : k.value \in Nat /\ k.value <= lastValid[c]
    BY <1>1, <1>2 DEF ValidSeen, ChannelInv
  <1>4. lastValid[c] > 0 => \E k \in ValidSeen(c) : k.value = lastValid[c]
    <2>1. /\ Record(lastValid[c], TRUE).value = lastValid[c]
          /\ Record(lastValid[c], TRUE).valid
      BY DEF Record
    <2> QED
      BY <1>2, <2>1 DEF ValidSeen, ChannelInv
  <1> QED
    BY <1>1, <1>3, <1>4, NewestIs

-----------------------------------------------------------------------------
(* Theorems.                                                                 *)

\* The inputs, the worker and the protection agree with what the steps have seen,
\* in every run.
THEOREM InputInvariant == Spec => []InputInv
PROOF
  <1>1. Init => InputInv
    <2> SUFFICES ASSUME Init PROVE InputInv
      OBVIOUS
    <2> USE DEF Init, InputStateInit
    <2>1. ASSUME NEW c \in Channels PROVE ChannelInv(c)
      <3>1. Run(c) = {}
        BY DEF Run
      <3> QED
        BY <3>1, FS_EmptySet DEF ChannelInv
    <2>2. InputTypes
      BY PhysicalChannels DEF InputTypes
    <2>3. WorkerInv
      BY PhysicalChannels DEF WorkerInv
    <2>4. ProtectInv
      BY InputAssumption DEF ProtectInv
    <2> QED
      BY <2>1, <2>2, <2>3, <2>4 DEF InputInv
  <1>2. InputInv /\ [Next]_vars => InputInv'
    BY ThreadKeeps, FieldKeeps, VirtualKeeps, PrepareStepKeeps, ReleaseKeeps
    DEF Next, SimulationThread
  <1> QED
    BY <1>1, <1>2, PTL DEF Spec

\* InputStatePrepareStep hands every step the newest valid sample that steps have
\* looked at, or the initial value, whatever is published in between.
THEOREM InputStepUsesLastValid == Spec => []StepUsesLastValid
PROOF
  <1>1. InputInv => StepUsesLastValid
    BY LastValidIsNewest DEF StepUsesLastValid
  <1> QED
    BY <1>1, InputInvariant, PTL

\* The protection of INPUT_STATE_INVALID_STEP_LIMIT ends a run exactly when some
\* input has given that many invalid samples in a row, for every limit.
THEOREM InputProtectionExact == Spec => []ProtectionExact
PROOF
  <1>1. ASSUME InputInv, NEW c \in Channels
        PROVE  Cardinality(InvalidRun(c)) = invalidSteps[c]
    <2>1. Newest(ValidSeen(c)) = lastValid[c]
      BY <1>1, LastValidIsNewest
    <2>2. InvalidRun(c) = Run(c)
      BY <2>1 DEF InvalidRun, Run
    <2> QED
      BY <1>1, <2>2 DEF InputInv, ChannelInv
  <1>2. ASSUME InputInv PROVE ProtectionExact
    <2>1. (stage = "input-protection" /\ pc = "finish") =>
             \E c \in Channels : Cardinality(InvalidRun(c)) >= InvalidLimit
      BY <1>1, <1>2 DEF InputInv, ProtectInv
    <2>2. (protect /\ pc = "compute") =>
             \A c \in Channels : Cardinality(InvalidRun(c)) < InvalidLimit
      BY <1>1, <1>2 DEF InputInv, ProtectInv
    <2> QED
      BY <2>1, <2>2 DEF ProtectionExact
  <1> QED
    BY <1>2, InputInvariant, PTL

\* A step mixes two acquisition frames exactly when it looks while the worker is
\* between their fields (DaqAcquisitionApply publishes channel by channel), and
\* then two consecutive ones, for every number of physical inputs.
THEOREM InputMixedExactlyMidway == Spec => MixedExactlyMidway
PROOF
  <1>1. ASSUME InputInv, PrepareStep, NEW c \in Physical
        PROVE  /\ Newest(seen'[c]) = candidate[c].generation
               /\ candidate[c].generation
                    = IF field > 0 /\ field <= c THEN frame - 1 ELSE frame
    <2>1. c \in Channels
      BY PhysicalChannels
    <2>2. /\ InputStatePrepareStep /\ pc = "prepare"
          /\ seen' = [d \in Channels |-> seen[d] \union Sample(candidate[d])]
      BY <1>1 DEF PrepareStep
    <2>3. ChannelInv(c)' /\ seen'[c] \subseteq [value : Nat, valid : BOOLEAN]
      BY <1>1, <2>1, <2>2, PrepareKeeps
    <2>4. consumed'[c] = candidate[c].generation /\ candidate[c].generation \in Nat
      BY <1>1, <2>1, <2>2, Fields DEF InputStatePrepareStep, InputInv
    <2>5. \A k \in seen'[c] : k.value \in Nat /\ k.value <= candidate[c].generation
      BY <2>3, <2>4 DEF ChannelInv
    <2>6. candidate[c].generation > 0
            => \E k \in seen'[c] : k.value = candidate[c].generation
      BY <2>3, <2>4 DEF ChannelInv
    <2>7. Newest(seen'[c]) = candidate[c].generation
      BY <2>4, <2>5, <2>6, NewestIs
    <2>8. initialized
      BY <1>1, <2>2 DEF InputInv, ProtectInv
    <2> QED
      BY <1>1, <2>7, <2>8 DEF InputInv, WorkerInv
  <1>2. ASSUME Next, pc = "prepare", pc' # pc PROVE PrepareStep
    BY <1>2 DEF Next, SimulationThread, ConfigureRealtimeThread, LoopTest, Advance,
       Wake, DoStep, Verdict, Release, FirstField, OtherField, PublishField,
       SetVirtualInput, RequestStop, Tick, Terminated, loopVars, vars
  <1>3. ASSUME InputInv, Next, pc = "prepare", pc' # pc,
               NEW i \in Physical, NEW j \in Physical, i < j
        PROVE  Newest(seen'[i]) - Newest(seen'[j])
                 = IF i < field /\ field <= j THEN 1 ELSE 0
    <2>1. PrepareStep
      BY <1>2, <1>3
    <2>2. field \in Nat /\ frame \in Nat /\ i \in Nat /\ j \in Nat /\ i > 0
      BY <1>3, PhysicalChannels DEF InputInv, InputTypes, Physical
    <2>3. /\ Newest(seen'[i]) = IF field > 0 /\ field <= i THEN frame - 1 ELSE frame
          /\ Newest(seen'[j]) = IF field > 0 /\ field <= j THEN frame - 1 ELSE frame
      BY <1>1, <1>3, <2>1
    <2> QED
      BY <1>3, <2>2, <2>3
  <1>4. InputInv /\ [Next]_vars
          => [pc = "prepare" /\ pc' # pc =>
                \A i, j \in Physical : i < j =>
                  Newest(seen'[i]) - Newest(seen'[j])
                    = IF i < field /\ field <= j THEN 1 ELSE 0]_vars
    BY <1>3
  <1> QED
    BY <1>4, InputInvariant, PTL DEF Spec, MixedExactlyMidway
=============================================================================
