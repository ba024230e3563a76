------------------------------- MODULE Console -------------------------------
(***************************************************************************)
(* The command-line runner, src/main.c: the menu that builds a             *)
(* configuration one command at a time, and run_simulation, which takes    *)
(* the FMU, the board, the log, the plotter and the simulation thread in   *)
(* one order and gives them back in another.  With it the parts only the   *)
(* runner composes: the FMU adapter (FmuModel), the configuration          *)
(* (RunConfiguration), the sample queue (src/sample_queue.c) and the       *)
(* plotter (src/plotter.c).                                                *)
(*                                                                         *)
(* Three threads: the runner (pc), the simulation (simPc) and the plotter  *)
(* (plotPc); a signal may come at any time.  The log is BinaryLogger's and *)
(* LogFile's subject: here a run's log is a record of the run and of the   *)
(* descriptor it was written with, complete or not.  A sample is its       *)
(* number, which is also its time.                                         *)
(***************************************************************************)
EXTENDS RunConfiguration, FmuModel

CONSTANTS
    Fmus,           \* FMU files: a function from name to variables
    Profiles,       \* profile documents
    StepSizes,      \* step sizes the operator types
    MaxSteps,       \* communication steps of a run
    MaxRuns,        \* bound: runs that get past their checks
    Capacity,       \* SAMPLE_QUEUE_CAPACITY
    HistoryMax,     \* PLOT_HISTORY_MAX
    Window,         \* plot_window_s
    NoLog           \* no log file, no conversion yet

ASSUME ConsoleAssumption ==
    /\ MaxSteps \in Nat /\ MaxRuns \in Nat /\ HistoryMax \in Nat \ {0, 1}
    /\ Capacity \in Nat \ {0, 1} /\ Window \in Nat

\* What the XML parser and the YAML parser deliver.
ASSUME FilesAssumption ==
    /\ \A f \in DOMAIN Fmus :
          Fmus[f] \in Seq([name : STRING, causality : STRING, type : STRING, vr : Nat])
    /\ \A doc \in Profiles \ {BadYaml} :
          doc.mappings \in Seq([channel : STRING, variable : STRING, type : STRING,
                                scale : Int, offset : Int])

VARIABLES
    pc, model,
    config,         \* AppConfig: FMU path, outputs, inputs, profile, step size
    \* execution_session_t, and the pointer the signal handler writes through
    prepared, runStarted, stopRequested, producerDone, stopTarget,
    runtime, logging,
    simPc, steps,
    head, tail, slots,
    plotStarted, plotPc, consumed, history,
    logFile, lastLog, lastLogClosed,
    \* history: runs begun, what the queue accepted and the plotter took,
    \* whether the plotter started on a clear producer_done, the last CSV
    runs, accepted, taken, fresh, csv

session == <<prepared, runStarted, stopRequested, producerDone, stopTarget>>
queue == <<head, tail, slots, accepted>>
plotter == <<plotStarted, plotPc, consumed, history, taken, fresh>>
log == <<logging, logFile, lastLog, lastLogClosed, csv>>
vars == <<pc, config, model, session, runtime, simPc, steps, queue, plotter,
          log, runs>>

Init ==
    /\ pc = "menu" /\ model = NewModel
    /\ config = [fmu |-> NoFmu, outputs |-> <<>>, inputs |-> <<>>, profile |-> Failed,
                 step |-> 1]
    /\ prepared = FALSE /\ runStarted = FALSE /\ stopRequested = FALSE
    /\ producerDone = FALSE /\ stopTarget = FALSE
    /\ runtime = "off" /\ logging = "off"
    /\ simPc = "none" /\ steps = 0
    /\ head = 0 /\ tail = 0 /\ slots = [i \in 0..Capacity - 1 |-> 0]
    /\ plotStarted = FALSE /\ plotPc = "none" /\ consumed = FALSE /\ history = <<>>
    /\ logFile = NoLog /\ lastLog = FALSE /\ lastLogClosed = FALSE
    /\ runs = 0 /\ accepted = <<>> /\ taken = <<>> /\ fresh = FALSE /\ csv = NoLog

\* What run_simulation and its threads keep on their stacks is gone when it
\* returns.
Return ==
    /\ pc' = "menu"
    /\ head' = 0 /\ tail' = 0 /\ slots' = [i \in 0..Capacity - 1 |-> 0]
    /\ plotStarted' = FALSE /\ plotPc' = "none" /\ consumed' = FALSE
    /\ history' = <<>> /\ accepted' = <<>> /\ taken' = <<>> /\ fresh' = FALSE

-----------------------------------------------------------------------------
(***************************************************************************)
(* The menu.  A command that is refused changes nothing and is left out.   *)
(***************************************************************************)

Idle == UNCHANGED <<session, runtime, simPc, steps, queue, plotter, log, runs>>

\* fmu_model_load, and the configuration of an FMU that was loaded: an FMU with
\* too many inputs stays loaded, with no inputs.  A failed load leaves no model
\* and the configuration of the FMU before.
LoadFmu(profile) ==
    /\ pc = "menu" /\ UNCHANGED pc /\ Idle
    /\ \E f \in DOMAIN Fmus :
          \/ model' \in fmu_model_load(model, f).failed /\ UNCHANGED config
          \/ /\ model' \in fmu_model_load(model, f).loaded
             /\ config' = [config EXCEPT
                   !.fmu = f, !.outputs = <<>>, !.profile = profile,
                   !.inputs = IF Len(ListInputs(Fmus[f])) > MaxInputs THEN <<>>
                              ELSE ListInputs(Fmus[f])]

load_fmu_menu_KeepsProfile == LoadFmu(config.profile)

\* The profile of the FMU before goes with it.
load_fmu_menu == LoadFmu(Failed)

\* select_outputs: the numbers the operator types, in that order, a repeated
\* one counted once.  The menu offers more outputs than a run can take.
select_outputs ==
    /\ pc = "menu" /\ model.fmu
    /\ LET candidates == ListOutputs(Fmus[model.name])
       IN  \E n \in 0..MaxOutputs :
             \E typed \in [1..n -> DOMAIN candidates \cap 1..MaxCandidates] :
                /\ IsInjective(typed)
                /\ config' = [config EXCEPT
                      !.outputs = [i \in 1..n |-> candidates[typed[i]]]]
    /\ UNCHANGED <<pc, model>> /\ Idle

\* load_profile_menu: the candidate replaces the profile as a whole.
load_profile_menu ==
    /\ pc = "menu" /\ model.fmu
    /\ \E doc \in Profiles :
          \E candidate \in LoadProfileCandidate(Fmus[model.name], doc) :
             config' = [config EXCEPT !.profile = candidate, !.step = candidate.step]
    /\ UNCHANGED <<pc, model>> /\ Idle

configure_timing ==
    /\ pc = "menu"
    /\ \E step \in StepSizes : config' = [config EXCEPT !.step = step]
    /\ UNCHANGED <<pc, model>> /\ Idle

\* What the other configuration commands set is read only by a run, at one
\* place each: whether the board, the log and the plot are enabled is chosen
\* there.

\* ClearRunState.
ClearRunState ==
    /\ prepared' = FALSE /\ runStarted' = FALSE /\ stopRequested' = FALSE
    /\ producerDone' = FALSE

\* End of input or option 0: ExecutionSessionDestroy.
Exit ==
    /\ pc = "menu" /\ pc' = "exited"
    /\ ClearRunState /\ model' = fmu_model_unload(model)
    /\ UNCHANGED <<config, stopTarget, runtime, simPc, steps, queue,
                   plotter, log, runs>>

-----------------------------------------------------------------------------
(***************************************************************************)
(* Conversion of the last log.                                             *)
(***************************************************************************)

\* RunLoggingBuildDescriptor: what identifies a log.
Descriptor(c) == [fmu |-> c.fmu, outputs |-> c.outputs, step |-> c.step]

\* ConvertClosedLog: the converter refuses a file whose header differs from
\* the descriptor of the current configuration; the operator may name no CSV.
ConvertClosedLog ==
    /\ pc = "menu" /\ lastLogClosed /\ lastLog
    /\ LET normal == [config EXCEPT !.outputs = Normalize(@)]
       IN  /\ config' = normal
           /\ \/ UNCHANGED csv
              \/ /\ Len(config.outputs) > 0 /\ logFile # NoLog
                 /\ logFile.descriptor = Descriptor(normal)
                 /\ csv' = logFile
    /\ UNCHANGED <<pc, model, session, runtime, simPc, steps, queue, plotter,
                   logging, logFile, lastLog, lastLogClosed, runs>>

-----------------------------------------------------------------------------
(***************************************************************************)
(* run_simulation.                                                         *)
(***************************************************************************)

\* The checks, the normalized outputs and the empty queue.
PassChecks ==
    /\ pc = "menu" /\ runs < MaxRuns
    /\ model.fmu /\ Len(config.outputs) > 0
    /\ config.profile # Failed => MappedOutputsSelected(config.profile, config.outputs)
    /\ ~Duplicated(config.outputs)
    /\ config' = [config EXCEPT !.outputs = Normalize(@)]
    /\ pc' = "prepare" /\ runs' = runs + 1 /\ csv' = NoLog
    /\ UNCHANGED <<model, session, runtime, simPc, steps, queue, plotter, logging,
                   logFile, lastLog>>

Begin_KeepsClosed == PassChecks /\ UNCHANGED lastLogClosed

\* From here on the log of the run before is no longer the last one.
Begin == PassChecks /\ lastLogClosed' = FALSE

\* ExecutionSessionPrepare.
Prepare ==
    /\ pc = "prepare"
    /\ \/ /\ model' \in RtSimulationPrepare(model).prepared
          /\ prepared' = TRUE
          /\ pc' \in {"daqc", "log"}   \* daqc_enabled
          /\ UNCHANGED <<queue, plotter>>
       \/ /\ model' \in RtSimulationPrepare(model).failed
          /\ Return /\ UNCHANGED prepared
    /\ UNCHANGED <<config, runStarted, stopRequested, producerDone, stopTarget,
                   runtime, simPc, steps, log, runs>>

\* DaqcRuntimeStart; without a profile whose acquisition fits the inputs, a
\* device or an answer from the board what was started is stopped and the
\* preparation given back.
StartDaqc ==
    /\ pc = "daqc"
    /\ \/ /\ config.profile # Failed
          /\ AcquisitionFits(config.profile.acquisition, config.inputs)
          /\ runtime' = "on" /\ pc' = "log"
          /\ UNCHANGED <<model, prepared, runStarted, stopRequested,
                         producerDone, queue, plotter>>
       \/ /\ Return /\ model' = fmu_model_terminate(model)
          /\ ClearRunState /\ UNCHANGED runtime
    /\ UNCHANGED <<config, stopTarget, simPc, steps, log, runs>>

\* This run's log, as far as it is written.
Written(whole) == [run |-> runs, descriptor |-> Descriptor(config), complete |-> whole]

\* ExecutionSessionStartLogging: the logger thread opens the file, or cannot;
\* or logging is disabled, or there is no thread.
StartLogging ==
    /\ pc = "log" /\ pc' = "plot"
    /\ \/ logging' = "started" /\ lastLog' = TRUE /\ logFile' = Written(FALSE)
       \/ logging' = "unopened" /\ lastLog' = TRUE /\ UNCHANGED logFile
       \/ logging' = "off" /\ UNCHANGED <<lastLog, logFile>>
    /\ UNCHANGED <<config, model, session, runtime, simPc, steps, queue, plotter,
                   lastLogClosed, csv, runs>>

\* plotter_start, on the producer_done the run before left behind; or the plot
\* is disabled, or there is no thread.
StartPlotter ==
    /\ pc = "plot" /\ pc' = "start"
    /\ \/ /\ plotStarted' = TRUE /\ plotPc' = "open" /\ fresh' = ~producerDone
          /\ consumed' = FALSE /\ history' = <<>>
       \/ /\ plotStarted' = FALSE
          /\ UNCHANGED <<plotPc, consumed, history, fresh>>
    /\ UNCHANGED <<config, model, session, runtime, simPc, steps, queue,
                   taken, log, runs>>

\* RunLoggingFinish: the log is whole, or the run is told that it is not.
FinishLogging ==
    \/ logging = "started" /\ logging' = "complete" /\ logFile' = Written(TRUE)
    \/ logging \in {"started", "unopened"} /\ logging' = "incomplete" /\ UNCHANGED logFile
    \/ logging = "off" /\ UNCHANGED <<logging, logFile>>

\* ExecutionSessionStart.
Start ==
    /\ pc = "start" /\ prepared /\ ~runStarted
    /\ stopRequested' = FALSE /\ stopTarget' = TRUE
    /\ simPc' = "loop" /\ steps' = 0 /\ runStarted' = TRUE
    /\ pc' = "join"
    /\ UNCHANGED <<config, model, prepared, producerDone, runtime, queue,
                   plotter, log, runs>>

\* The thread cannot be created: ExecutionSessionAbort clears producer_done,
\* then the plotter is joined.
StartFails ==
    /\ pc = "start"
    /\ ClearRunState /\ model' = fmu_model_terminate(model)
    /\ FinishLogging
    /\ pc' = "abandon"
    /\ UNCHANGED <<config, stopTarget, runtime, simPc, steps, queue, plotter,
                   lastLog, lastLogClosed, csv, runs>>

PlotterJoined == plotStarted => plotPc \in {"ended", "disabled"}

Abandon ==
    /\ pc = "abandon" /\ PlotterJoined
    /\ runtime' = "off" /\ logging' = "off" /\ Return
    /\ UNCHANGED <<config, model, session, simPc, steps, logFile, lastLog,
                   lastLogClosed, csv, runs>>

\* ExecutionSessionJoin.
Join ==
    /\ pc = "join" /\ simPc = "exited"
    /\ simPc' = "none" /\ steps' = 0 /\ runStarted' = FALSE /\ prepared' = FALSE
    /\ stopTarget' = FALSE
    /\ FinishLogging
    /\ pc' = "stopDaqc"
    /\ UNCHANGED <<config, model, stopRequested, producerDone, runtime,
                   queue, plotter, lastLog, lastLogClosed, csv, runs>>

StopDaqc ==
    /\ pc = "stopDaqc" /\ pc' = "plotJoin" /\ runtime' = "off"
    /\ UNCHANGED <<config, model, session, simPc, steps, queue, plotter,
                   log, runs>>

JoinPlotter ==
    /\ pc = "plotJoin" /\ PlotterJoined
    /\ lastLogClosed' = (logging = "complete")
    /\ logging' = "off" /\ Return
    /\ UNCHANGED <<config, model, session, runtime, simPc, steps, logFile, lastLog,
                   csv, runs>>

\* signal_handler.
Signal ==
    /\ stopTarget /\ ~stopRequested /\ stopRequested' = TRUE
    /\ UNCHANGED <<pc, config, model, prepared, runStarted, producerDone, stopTarget,
                   runtime, simPc, steps, queue, plotter, log, runs>>

Run == \/ Prepare \/ StartDaqc \/ StartLogging \/ StartPlotter \/ Start
       \/ StartFails \/ Abandon \/ Join \/ StopDaqc \/ JoinPlotter

-----------------------------------------------------------------------------
(***************************************************************************)
(* The simulation thread, and sample_queue_push.                           *)
(***************************************************************************)

SimOnly == UNCHANGED <<pc, config, prepared, runStarted, stopRequested, stopTarget,
                       runtime, plotter, log, runs>>

\* One communication step; the sample goes to the queue if there is a plotter.
SimStep ==
    /\ simPc = "loop" /\ steps < MaxSteps /\ ~stopRequested
    /\ \/ /\ model' \in fmu_model_step(model).done
          /\ \/ plotStarted /\ simPc' = "push" /\ UNCHANGED steps
             \/ ~plotStarted /\ steps' = steps + 1 /\ UNCHANGED simPc
       \/ /\ model' \in fmu_model_step(model).failed
          /\ simPc' = "release" /\ UNCHANGED steps
    /\ UNCHANGED <<producerDone, queue>> /\ SimOnly

\* tail is read: a full ring drops the sample.
PushCheck ==
    /\ simPc = "push"
    /\ IF (head + 1) % Capacity = tail
       THEN simPc' = "loop" /\ steps' = steps + 1
       ELSE simPc' = "write" /\ UNCHANGED steps
    /\ UNCHANGED <<model, producerDone, queue>> /\ SimOnly

\* The slot is filled, then head published.
PushPublish ==
    /\ simPc = "write" /\ simPc' = "loop" /\ steps' = steps + 1
    /\ slots' = [slots EXCEPT ![head] = steps + 1]
    /\ head' = (head + 1) % Capacity
    /\ accepted' = Append(accepted, steps + 1)
    /\ UNCHANGED <<model, producerDone, tail>> /\ SimOnly

SimLeave ==
    /\ simPc = "loop" /\ (steps = MaxSteps \/ stopRequested)
    /\ simPc' = "release"
    /\ UNCHANGED <<model, steps, producerDone, queue>> /\ SimOnly

ReleasePreparedSimulation ==
    /\ simPc = "release" /\ simPc' = "done"
    /\ model' = fmu_model_terminate(model)
    /\ UNCHANGED <<steps, producerDone, queue>> /\ SimOnly

Exits == simPc = "done" /\ simPc' = "exited" /\ UNCHANGED <<model, steps, queue>>

SimDone_Silent == Exits /\ UNCHANGED producerDone /\ SimOnly

SimDone == Exits /\ producerDone' = TRUE /\ SimOnly

Sim == \/ SimStep \/ PushCheck \/ PushPublish \/ SimLeave
       \/ ReleasePreparedSimulation \/ SimDone

-----------------------------------------------------------------------------
(***************************************************************************)
(* plotter_thread, and sample_queue_pop.                                   *)
(***************************************************************************)

PlotOnly == UNCHANGED <<pc, config, model, session, runtime, simPc, steps,
                        head, slots, accepted, plotStarted, fresh, log, runs>>

PlotSteps(from, to) == plotPc = from /\ plotPc' = to

\* history_push: the oldest sample makes room, and what is older than the
\* window goes, down to two samples.
HistoryPush(h, sample) ==
    LET all == Append(h, sample)
        kept == IF Len(all) > HistoryMax THEN Tail(all) ELSE all
        starts == {i \in DOMAIN kept :
                      \/ i = Len(kept) - 1
                      \/ i < Len(kept) /\ sample - kept[i] <= Window}
    IN  IF Len(kept) <= 2 THEN kept
        ELSE SubSeq(kept, CHOOSE i \in starts : \A j \in starts : i <= j, Len(kept))

\* Without gnuplot the thread ends and the queue has no consumer.
PlotOpen ==
    /\ PlotSteps("open", "pop") \/ PlotSteps("open", "disabled")
    /\ UNCHANGED <<consumed, history, taken, tail>> /\ PlotOnly

\* head is read.
PopCheck ==
    /\ \/ PlotSteps("pop", "copy") /\ head # tail
       \/ PlotSteps("pop", "flag") /\ head = tail
    /\ UNCHANGED <<consumed, history, taken, tail>> /\ PlotOnly

\* The slot is copied, then tail published; the sample joins the history.
PopTake ==
    /\ \/ PlotSteps("copy", "pop") /\ consumed' = TRUE
       \/ PlotSteps("recopy", "pop") /\ consumed' = FALSE
    /\ tail' = (tail + 1) % Capacity
    /\ taken' = Append(taken, slots[tail])
    /\ history' = HistoryPush(history, slots[tail])
    /\ PlotOnly

\* producer_done is read; nothing consumed since it was last read leads to next.
ReadFlag(next) ==
    /\ \/ producerDone /\ ~consumed /\ PlotSteps("flag", next)
       \/ ~(producerDone /\ ~consumed) /\ PlotSteps("flag", "pop")
    /\ consumed' = FALSE
    /\ UNCHANGED <<history, taken, tail>> /\ PlotOnly

PlotFlag_Leaves == ReadFlag("ended")

\* One more look at the queue.
PlotFlag == ReadFlag("repop")

PlotLastLook ==
    /\ \/ PlotSteps("repop", "recopy") /\ head # tail
       \/ PlotSteps("repop", "ended") /\ head = tail
    /\ UNCHANGED <<consumed, history, taken, tail>> /\ PlotOnly

Plot == PlotOpen \/ PopCheck \/ PopTake \/ PlotFlag \/ PlotLastLook

-----------------------------------------------------------------------------
Menu == \/ load_fmu_menu \/ select_outputs \/ load_profile_menu
        \/ configure_timing \/ ConvertClosedLog \/ Begin \/ Exit

Next == Menu \/ Run \/ Signal \/ Sim \/ Plot

Spec == Init /\ [][Next]_vars

(***************************************************************************)
(* Threads that can run do run.  The operator and the signals owe nothing. *)
(***************************************************************************)
FairSpec == Spec /\ WF_vars(Run) /\ WF_vars(Sim) /\ WF_vars(Plot)

-----------------------------------------------------------------------------
\* fmu_model.c and its callers: no order of loads, failed loads, preparations
\* that fail half-way, steps that fail, runs and aborts calls the FMI library on
\* an object that is gone or in a mode that forbids the call, but for the calls
\* of OnBrokenInstance: an instance that answered with an error is terminated
\* though FMI 2.0 then allows its release only, after a fatal error it is
\* released too, and a failed set_debug_logging is followed by the setup.  No
\* instance survives the run it was made for, and the runner leaves nothing
\* behind when it ends.
FmuLifecycle ==
    /\ ~model.misused
    /\ pc = "menu" => model.mode = "none"
    /\ pc = "exited" => model.live = {}

Bytes(field) == field.at..(field.at + field.width - 1)

\* A variable of the loaded FMU with this reference, causality and type.
Denotes(fmu, v, causality) ==
    \E i \in DOMAIN fmu : /\ fmu[i].causality = causality /\ fmu[i].vr = v.vr
                          /\ fmu[i].type = v.type

\* The variable a field is exchanged with: its index counts the numeric inputs,
\* or the numeric outputs, in XML order.
VariableOf(fmu, field, causality) == fmu[Positions(fmu, causality)[field.index + 1]]

\* Each mapped pin has bytes of its own and a variable of its own, the one the
\* profile names, or, past the array that is searched, one of the same kind.
LayoutFor(fmu, schema, mappings, input) ==
    LET causality == IF input THEN "input" ELSE "output"
        limit == IF input THEN MaxInputs ELSE MaxOutputs
        fields == {schema.fields[i] : i \in DOMAIN schema.fields}
        mapped == {i \in DOMAIN mappings : IsInput(mappings[i]) = input}
    IN  /\ \A f, g \in fields : f # g =>
              Bytes(f) \cap Bytes(g) = {} /\ f.index # g.index
        /\ \A f \in fields : Bytes(f) \subseteq 0..(schema.size - 1)
        /\ Cardinality(fields) = Cardinality(mapped)
        /\ \A i \in mapped : \E f \in fields :
              LET v == VariableOf(fmu, f, causality)
              IN  /\ f.gpio = Pins[mappings[i].channel].gpio
                  /\ f.index + 1 \in DOMAIN Positions(fmu, causality)
                  /\ v.causality = causality /\ v.vr = f.vr
                  /\ v.type = mappings[i].type
                  /\ f.index < limit => v.name = mappings[i].variable

\* While a run lasts, what it reads, writes, logs and exchanges with the board
\* are variables of the FMU that is loaded, whatever was loaded, selected or
\* mapped before it; the outputs are in ascending XML order; each mapped pin
\* has bytes of its own and a variable of its own.  That holds even where
\* fmu_model_resolve_profile_mappings searched past its array and took what lay
\* there: an input found so is refused by DaqAcquisitionInit, and an output
\* unless a selected one has its index, reference and type; only its name may
\* then be another than the profile's.
RunUsesLoadedFmu ==
    simPc # "none" =>
        LET fmu == Fmus[model.name]
        IN  /\ config.fmu = model.name
            /\ \A i \in DOMAIN config.outputs : Denotes(fmu, config.outputs[i], "output")
            /\ \A i, j \in DOMAIN config.outputs :
                  i < j => config.outputs[i].xml < config.outputs[j].xml
            /\ \A i \in DOMAIN config.inputs : Denotes(fmu, config.inputs[i], "input")
            /\ runtime = "on" =>
                  /\ LayoutFor(fmu, config.profile.acquisition, config.profile.mappings, TRUE)
                  /\ LayoutFor(fmu, config.profile.actuation, config.profile.mappings, FALSE)
                  /\ \A i \in DOMAIN config.profile.acquisition.fields :
                        config.profile.acquisition.fields[i].index < Len(config.inputs)

\* What is in the ring, oldest first.
Queued == [i \in 1..((head - tail + Capacity) % Capacity) |-> slots[(tail + i - 1) % Capacity]]

\* sample_queue.c and plotter.c: the plotter shows the samples the queue took,
\* in order, none twice and none torn by a write to the slot it copies; and a
\* plotter that started on a clear producer_done ends only after the last one.
PlotIsFaithful ==
    /\ ~(simPc = "write" /\ plotPc \in {"copy", "recopy"} /\ head = tail)
    /\ accepted = taken \o Queued
    /\ IsSuffix(history, taken)
    /\ plotPc = "ended" /\ fresh => simPc \in {"exited", "none"} /\ taken = accepted

\* ConvertClosedLog: a CSV is made only of the whole log of the latest run,
\* however that run ended and whatever was configured since.
CsvIsOfLastRun ==
    csv # NoLog => csv.run = runs /\ csv.complete

\* What a run takes is given back.
Quiet ==
    /\ pc = "menu" /\ ~prepared /\ ~runStarted /\ ~stopTarget
    /\ simPc = "none" /\ plotPc = "none" /\ runtime = "off" /\ logging = "off"

\* The runner waits in plotter_join for a plotter that polls producer_done, and
\* no thread is left that would set it.
Hung ==
    /\ pc = "abandon" /\ plotStarted /\ plotPc \in {"pop", "flag"} /\ head = tail
    /\ ~producerDone /\ simPc = "none"

\* run_simulation comes back to the menu with no thread left running, however
\* the board, the logger, the simulation thread or the plotter ends, but for
\* one case: a simulation thread that cannot be created while a plotter runs
\* (ExecutionSessionAbort has cleared producer_done) leaves the runner waiting
\* for ever.
EveryRunReturns ==
    /\ pc = "prepare" ~> (Quiet \/ Hung)
    /\ [][Hung => Hung']_vars
=============================================================================
