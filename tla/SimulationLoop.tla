--------------------------- MODULE SimulationLoop ---------------------------
(***************************************************************************)
(* The loop of SimulationThread (rt_simulation.c) with what runs beside    *)
(* it: the serial worker, which publishes an acquisition frame channel by  *)
(* channel (daq_acquisition.c), the window, which sets virtual inputs      *)
(* (execution_session.c), the Stop request, and the clock.                 *)
(*                                                                         *)
(* Inputs 1..NPhysical are mapped to the board, in the order of the        *)
(* acquisition schema; the others are virtual.  Both kinds number their    *)
(* publications, so publication f of every physical input is frame f.      *)
(* The clock is read where the code reads it and may tick anywhere.        *)
(***************************************************************************)
EXTENDS InputState, ReleaseSchedule, FiniteSets, FiniteSetsExt

CONSTANTS NPhysical,   \* inputs mapped to the board: 1..NPhysical
          Outputs,     \* FMU outputs mapped to the board
          Steps,       \* steps until stop_time_s
          MaxFrames,   \* bound on the frames of a run
          MaxVirtual   \* bound on the virtual values set during a run

ASSUME LoopAssumption == /\ NPhysical \in Nat /\ 1..NPhysical \subseteq Channels
                         /\ Steps \in Nat /\ MaxFrames \in Nat /\ MaxVirtual \in Nat
                         /\ IsFiniteSet(Outputs)

VARIABLES
    now,          \* nanoseconds since wall_start
    schedule,     \* release_schedule
    pc,           \* the simulation thread
    result,       \* run_result.state
    stage,        \* run_result.stage of a failure
    completed,    \* stats.completed_steps
    hasLast,      \* field_has_last_value of the actuation
    stop,         \* stop_requested
    frame, field, \* the worker: frames begun, and the field it comes to (0: none)
    readAt,       \* history: the clock at the advance before this step
    doneAt,       \* history: the clock at the end of the step before it
    seen          \* history: the samples the steps have looked at

loopVars == <<now, schedule, pc, result, stage, completed, hasLast, readAt, doneAt>>
workerVars == <<frame, field>>
vars == <<inputVars, loopVars, workerVars, stop, seen>>

Physical == 1..NPhysical
Failures == {"realtime", "schedule", "input-protection", "inputs", "step",
             "outputs", "actuation"}

TypeOK ==
    /\ InputTypeOK
    /\ now \in 0..U64Max /\ readAt \in 0..U64Max /\ doneAt \in 0..U64Max
    /\ schedule \in [release_index : Nat, unused_releases : Nat,
                     late_steps : Nat, max_lateness : 0..U64Max]
    /\ pc \in {"start", "test", "advance", "sleep", "prepare", "compute", "verdict",
               "finish", "done"}
    /\ result \in {"Error", "Stopped", "Finished"}
    /\ stage \in Failures \union {"none"}
    /\ completed \in 0..Steps
    /\ hasLast \subseteq Outputs
    /\ stop \in BOOLEAN
    /\ frame \in 0..MaxFrames /\ field \in 0..NPhysical
    /\ seen \in [Channels -> SUBSET [value : Nat, valid : BOOLEAN]]

Init ==
    /\ InputStateInit
    /\ now = 0 /\ readAt = 0 /\ doneAt = 0
    /\ schedule = NewSchedule
    /\ pc = "start" /\ result = "Error" /\ stage = "none"
    /\ completed = 0
    /\ hasLast = {}
    /\ stop = FALSE
    /\ frame = 0 /\ field = 0
    /\ seen = [c \in Channels |-> {}]

-----------------------------------------------------------------------------
(* The simulation thread.                                                    *)

\* SetRunFailure and SetInputProtectionFailure, and the jump to finish.
Fail(where) == pc' = "finish" /\ result' = "Error" /\ stage' = where

Goto(where) == pc' = where /\ UNCHANGED <<result, stage>>

\* Priority and affinity are set, or the run ends here; then the clock starts.
ConfigureRealtimeThread ==
    /\ pc = "start"
    /\ Fail("realtime") \/ Goto("test")
    /\ UNCHANGED <<inputVars, workerVars, stop, seen, now, schedule,
                   completed, hasLast, readAt, doneAt>>

\* The loop's condition; the first step waits for no release.
LoopTest ==
    /\ pc = "test"
    /\ Goto(IF completed = Steps \/ stop THEN "verdict"
            ELSE IF completed = 0 THEN "prepare" ELSE "advance")
    /\ UNCHANGED <<inputVars, workerVars, stop, seen, now, schedule,
                   completed, hasLast, readAt, doneAt>>

\* The clock is read and the grid advanced to the first release not past.
Advance ==
    /\ pc = "advance"
    /\ readAt' = now
    /\ IF AdvanceFails(schedule, now)
         THEN Fail("schedule") /\ UNCHANGED schedule
         ELSE /\ Goto("sleep")
              /\ schedule' = AdvanceToEarliestRelease(schedule, now)
    /\ UNCHANGED <<inputVars, workerVars, stop, seen, now, completed,
                   hasLast, doneAt>>

\* clock_nanosleep to the absolute release, again after a signal unless a stop
\* was requested; any other error ends the run, and the stop is looked at once
\* more on waking up.
Wake ==
    /\ pc = "sleep"
    /\ \/ /\ now >= ReleaseNs(schedule) \/ stop
          /\ Goto(IF stop THEN "verdict" ELSE "prepare")
       \/ Fail("schedule")
    /\ UNCHANGED <<inputVars, workerVars, stop, seen, now, schedule,
                   completed, hasLast, readAt, doneAt>>

\* What there is to see in a candidate: nothing before the first publication.
Sample(k) == IF k.generation = 0 THEN {}
             ELSE {[value |-> k.value, valid |-> k.valid]}

\* The inputs of the step, all taken under one hold of the mutex.
PrepareStep ==
    /\ pc = "prepare"
    /\ InputStatePrepareStep
    /\ seen' = [c \in Channels |-> seen[c] \union Sample(candidate[c])]
    /\ IF LimitChannels # {} THEN Fail("input-protection") ELSE Goto("compute")
    /\ readAt' = 0 /\ doneAt' = 0
    /\ UNCHANGED <<workerVars, stop, now, schedule, completed, hasLast>>

\* The FMU takes the inputs, computes and gives its outputs, or fails.
FmuFails == \E where \in {"inputs", "step", "outputs"} :
              Fail(where) /\ UNCHANGED <<schedule, completed, hasLast, doneAt>>

\* DaqActuationPack puts the outputs in `good` on the wire and repeats the last
\* value of the others: every one must have a value by now.
CanPack(good) == hasLast \union good = Outputs

\* DaqOutputBridgePublish: the payload cannot be packed, or the coordinator
\* refuses it because the link has left STREAMING.
PublishFails(good) ==
    /\ Fail("actuation")
    /\ hasLast' = (IF CanPack(good) THEN Outputs ELSE hasLast)
    /\ UNCHANGED <<schedule, completed, doneAt>>

\* The clock is read at the end of the computation and the step accounted for;
\* its sample goes to the log and to the plot queue, and it counts.
StepDone(good) ==
    /\ CanPack(good)
    /\ hasLast' = Outputs
    /\ doneAt' = now
    /\ IF CompleteFails(schedule)
         THEN Fail("schedule") /\ UNCHANGED <<schedule, completed>>
         ELSE /\ schedule' = CompleteStep(schedule, now)
              /\ completed' = completed + 1
              /\ Goto("test")

DoStep ==
    /\ pc = "compute"
    /\ \/ FmuFails
       \/ \E good \in SUBSET Outputs : PublishFails(good) \/ StepDone(good)
    /\ UNCHANGED <<inputVars, workerVars, stop, seen, now, readAt>>

Verdict ==
    /\ pc = "verdict"
    /\ pc' = "finish"
    /\ result' = (IF stop THEN "Stopped" ELSE "Finished")
    /\ UNCHANGED <<inputVars, workerVars, stop, seen, now, schedule,
                   stage, completed, hasLast, readAt, doneAt>>

\* ReleasePreparedSimulation; the worker is joined later and may be publishing.
Release ==
    /\ pc = "finish"
    /\ InputStateDestroy
    /\ Goto("done")
    /\ seen' = [c \in Channels |-> {}]
    /\ UNCHANGED <<workerVars, stop, now, schedule, completed, hasLast,
                   readAt, doneAt>>

SimulationThread == \/ ConfigureRealtimeThread
                    \/ LoopTest \/ Advance \/ Wake \/ PrepareStep \/ DoStep
                    \/ Verdict \/ Release

-----------------------------------------------------------------------------
(* The serial worker, the window and the clock.                              *)

\* A variant that gives up the frame at its first invalid value.
NextField_StopsAtInvalid(f, valid) ==
    IF f = NPhysical \/ ~valid THEN 0 ELSE f + 1

NextField(f, valid) == IF f = NPhysical THEN 0 ELSE f + 1

\* DaqAcquisitionApply, one field at a time: it is decoded, valid or not, and
\* published.  Once the input state is gone InputStatePublish refuses it and
\* the rest of the frame is dropped.
PublishField(f) ==
    /\ IF initialized
         THEN \E valid \in BOOLEAN :
                /\ InputStatePublish(f, frame', valid)
                /\ field' = NextField(f, valid)
         ELSE field' = 0 /\ UNCHANGED inputVars
    /\ UNCHANGED <<loopVars, stop, seen>>

\* An acquisition frame of the right size arrives ...
FirstField ==
    /\ field = 0 /\ frame < MaxFrames /\ NPhysical > 0
    /\ frame' = frame + 1
    /\ PublishField(1)

\* ... and its other fields follow.
OtherField ==
    /\ field > 0
    /\ UNCHANGED frame
    /\ PublishField(field)

\* ExecutionSessionSetVirtualInput on an input without physical mapping: a
\* value that does not convert is refused, so what is published is valid.
SetVirtualInput ==
    /\ initialized
    /\ \E c \in Channels \ Physical :
         LET n == candidate[c].generation + 1 IN
         /\ n <= MaxVirtual
         /\ InputStatePublish(c, n, TRUE)
    /\ UNCHANGED <<loopVars, workerVars, stop, seen>>

\* A request that comes after the verdict changes nothing here.
RequestStop ==
    /\ ~stop /\ pc \notin {"finish", "done"}
    /\ stop' = TRUE
    /\ UNCHANGED <<inputVars, loopVars, workerVars, seen>>

Tick ==
    /\ pc \notin {"start", "verdict", "finish", "done"} /\ now < U64Max
    /\ now' = now + 1
    /\ UNCHANGED <<inputVars, schedule, pc, result, stage, completed, hasLast,
                   readAt, doneAt, workerVars, stop, seen>>

Terminated == pc = "done" /\ UNCHANGED vars

Next == \/ SimulationThread
        \/ FirstField \/ OtherField \/ SetVirtualInput
        \/ RequestStop \/ Tick \/ Terminated

Spec == Init /\ [][Next]_vars

-----------------------------------------------------------------------------
(* Properties.                                                               *)

\* The number of the newest of some samples, and the invalid samples of an
\* input that came after its last valid one.
Newest(samples) == Max({0} \union {k.value : k \in samples})
ValidSeen(c) == {k \in seen[c] : k.valid}
InvalidRun(c) == {k \in seen[c] : k.value > Newest(ValidSeen(c))}

\* Every release of the grid up to the next one has been used by exactly one
\* step or counted as unused, however late steps end and the thread wakes.
GridAccounting ==
    schedule.release_index = completed + schedule.unused_releases

\* A step begins at or after its release, that release is not before the end
\* of the step before it, and it is the first such one: an overrun is never
\* caught up by a burst, and no free release is passed over.
NoBurst ==
    (pc = "prepare" /\ completed > 0)
        => LET release == ReleaseNs(schedule) IN
           /\ now >= release
           /\ release >= doneAt
           /\ release <= readAt + StepNs

\* A late step costs at least one release, and the worst lateness is no more
\* than the releases that were given up: the three figures of a run agree.
LatenessAccounting ==
    /\ schedule.late_steps <= schedule.unused_releases
    /\ schedule.max_lateness <= schedule.unused_releases * StepNs
    /\ (schedule.late_steps = 0) = (schedule.max_lateness = 0)

\* A step uses, for every input, the newest valid sample among those that
\* steps have looked at, or the initial value: an invalid sample changes
\* nothing, of its own channel or of another.
StepUsesLastValid ==
    pc = "compute"
        => \A c \in Channels : lastValid[c] = Newest(ValidSeen(c))

\* The protection ends the run exactly when some input has given InvalidLimit
\* new samples in a row that were invalid; a sample looked at again by a later
\* step, and one replaced before any step saw it, do not count.
ProtectionExact ==
    /\ (stage = "input-protection" /\ pc = "finish") =>
         \E c \in Channels : Cardinality(InvalidRun(c)) >= InvalidLimit
    /\ (protect /\ pc = "compute") =>
         \A c \in Channels : Cardinality(InvalidRun(c)) < InvalidLimit

\* docs/spec.md:355 wants a snapshot that never mixes generations, and
\* DaqAcquisitionApply, which publishes channel by channel, does not give it.
\* A step mixes two frames exactly when it looks between the fields of a frame:
\* the inputs published so far are one frame ahead of the others, and by
\* nothing more, whatever was invalid or went unseen before.
MixedExactlyMidway ==
    [][pc = "prepare" /\ pc' # pc =>
         \A i, j \in Physical : i < j =>
           Newest(seen'[i]) - Newest(seen'[j])
             = IF i < field /\ field <= j THEN 1 ELSE 0]_vars
=============================================================================
