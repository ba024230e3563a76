-------------------------- MODULE ReleaseSchedule --------------------------
(***************************************************************************)
(* The fixed grid of releases of release_schedule.c.  Release j of a run   *)
(* is due j * StepNs after its origin; a step that is not done by the next *)
(* release gives up the releases it overran and waits for the first one    *)
(* that is not past.  The operators take the schedule, a record, and give  *)
(* the schedule the C function leaves behind; the Fails operators say when *)
(* the function returns false and leaves it as it was.                     *)
(*                                                                         *)
(* U64Max is UINT64_MAX in the code: the arithmetic and its guards are     *)
(* those of an unsigned integer that ends there.                           *)
(***************************************************************************)
EXTENDS Naturals

CONSTANTS StepNs,   \* step_ns
          U64Max    \* the largest value of a uint64_t

\* SecondsToNanoseconds lets only such steps through.
ASSUME StepAssumption == /\ U64Max \in Nat
                         /\ StepNs \in 1..U64Max

Wrap(n) == n % (U64Max + 1)

NewSchedule == [release_index |-> 0, unused_releases |-> 0, late_steps |-> 0,
                max_lateness |-> 0]

ReleaseNs(s) == IF s.release_index > U64Max \div StepNs
                  THEN U64Max
                  ELSE s.release_index * StepNs

\* A variant that rounds down, to a release that is already past.
EarliestRelease_Floor(t) == t \div StepNs

\* The first release that is not before t.
EarliestRelease(t) == (t \div StepNs) + (IF t % StepNs # 0 THEN 1 ELSE 0)

AdvanceFails(s, t) ==
    IF t <= ReleaseNs(s)
      THEN ReleaseNs(s) = U64Max
      ELSE \/ EarliestRelease(t) < s.release_index
           \/ EarliestRelease(t) = U64Max

\* A variant that does not count the releases it skips.
AdvanceToEarliestRelease_Uncounted(s, t) ==
    IF t <= ReleaseNs(s) THEN s
    ELSE [s EXCEPT !.release_index = EarliestRelease(t)]

AdvanceToEarliestRelease(s, t) ==
    IF t <= ReleaseNs(s) THEN s
    ELSE [s EXCEPT
            !.unused_releases = @ + EarliestRelease(t) - s.release_index,
            !.release_index = EarliestRelease(t)]

\* A variant of the guard that leaves out the release after this one.
CompleteFails_LastDeadline(s) == s.release_index > U64Max \div StepNs

\* The deadline of the step must be a uint64_t; the quotient is at least 1.
CompleteFails(s) == s.release_index > (U64Max \div StepNs) - 1

Deadline(s) == Wrap((s.release_index + 1) * StepNs)

\* The release the next step may use: never the one just used.
NextRelease(s, t) == IF EarliestRelease(t) <= s.release_index
                       THEN s.release_index + 1
                       ELSE EarliestRelease(t)

CompleteStep(s, t) ==
    LET late == t > Deadline(s)
        lateness == IF late THEN t - Deadline(s) ELSE 0
    IN  [release_index |-> NextRelease(s, t),
         unused_releases |-> s.unused_releases
                               + (NextRelease(s, t) - s.release_index - 1),
         late_steps |-> s.late_steps + (IF late THEN 1 ELSE 0),
         max_lateness |-> IF lateness > s.max_lateness
                            THEN lateness ELSE s.max_lateness]
=============================================================================
