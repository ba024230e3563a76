-------------------------- MODULE ExecutionSession --------------------------
(***************************************************************************)
(* The life of one execution session under the Qt interface:               *)
(* src/execution_session.c, the simulation thread of src/rt_simulation.c   *)
(* as the session sees it, gui/gui_controller.cpp and the Play, Stop and   *)
(* timer handlers of gui/Main.qml.                                         *)
(*                                                                         *)
(* Three threads share the session: the GUI thread (guiPc), the worker     *)
(* that QtConcurrent runs ExecutionSessionRunGuiHil on (hilPc), and the    *)
(* simulation thread (simPc).  A session outlives its runs: the flags that *)
(* one run leaves behind are what the next Play starts from.               *)
(*                                                                         *)
(* The FMU, the board and the values exchanged with them are abstracted to *)
(* who may use them: fmu is the instance the simulation thread steps,      *)
(* inputReady the InputState it reads, runtime the DAQC workers, logger    *)
(* the thread of BinaryLogger.                                             *)
(***************************************************************************)
EXTENDS Naturals

CONSTANTS
    MaxPlays,  \* bound: Play commands in one behaviour
    MaxSteps   \* communication steps between start and stop time

ASSUME SessionAssumption == MaxPlays \in Nat \ {0} /\ MaxSteps \in Nat

VARIABLES
    \* execution_session_t
    stopRequested, producerDone, hilActive, prepared, runStarted, result,
    fmu,             \* "none", "loaded" or "instantiated"
    logger,          \* the logger thread of the run: "off" or "running"
    runtime,         \* the DAQC workers of daqc_runtime_t: "off" or "on"
    \* RtSimulationContext
    inputReady,      \* input_state_ready, and prepared, which changes with it
    threadStarted, verdict, steps, simPc,
    hilPc,           \* the QtConcurrent worker
    \* GuiController and Main.qml
    guiPc, guiRunStarted, hilRunStarted, screen,
    runResult,       \* the window's copy of the result: the run it is of, or 0
    \* history: Play count, the last Play that was accepted, was Stop accepted
    \* since it, run of the result
    plays, lastStarted, stopAsked, resultOf,
    torn             \* history: an FMU was imported between the creation of the
                     \* last simulation thread and run_started

flags == <<stopRequested, producerDone, hilActive, prepared, runStarted>>
outcome == <<result, resultOf>>
context == <<inputReady, threadStarted, verdict, steps, simPc>>
gui == <<guiPc, guiRunStarted, hilRunStarted, screen, runResult>>
history == <<plays, lastStarted, stopAsked, torn>>
vars == <<flags, outcome, fmu, logger, runtime, context, hilPc, gui, history>>

Verdicts == {"Finished", "Stopped", "Error"}

TypeOK ==
    /\ {stopRequested, producerDone, hilActive, prepared, runStarted,
        inputReady, threadStarted, guiRunStarted, hilRunStarted,
        stopAsked, torn} \subseteq BOOLEAN
    /\ result \in Verdicts \cup {"none"}
    /\ verdict \in Verdicts
    /\ fmu \in {"none", "loaded", "instantiated"}
    /\ logger \in {"off", "running"}
    /\ runtime \in {"off", "on"}
    /\ steps \in 0..MaxSteps
    /\ plays \in 0..MaxPlays
    /\ resultOf \in 0..plays /\ runResult \in 0..plays /\ lastStarted \in 0..plays
    /\ simPc \in {"none", "configure", "loop", "left", "release", "logDone",
                  "publishDone", "exited", "crashed"}
    /\ hilPc \in {"none", "begin", "preflight", "prepare", "daqc", "play",
                  "publish", "daqcFailed", "abort", "logging", "start", "started", "join",
                  "stopDaqc", "finish", "done"}
    /\ guiPc \in {"idle", "join", "closeWait", "closeAbort", "closeJoin", "closed"}
    /\ screen \in Verdicts \cup {"Idle", "Running"}

Init ==
    /\ stopRequested = FALSE /\ producerDone = FALSE /\ hilActive = FALSE
    /\ prepared = FALSE /\ runStarted = FALSE /\ result = "none"
    /\ fmu = "none" /\ logger = "off" /\ runtime = "off"
    /\ inputReady = FALSE /\ threadStarted = FALSE /\ verdict = "Error"
    /\ steps = 0 /\ simPc = "none" /\ hilPc = "none"
    /\ guiPc = "idle" /\ guiRunStarted = FALSE /\ hilRunStarted = FALSE
    /\ screen = "Idle" /\ runResult = 0
    /\ plays = 0 /\ lastStarted = 0 /\ stopAsked = FALSE /\ resultOf = 0
    /\ torn = FALSE

-----------------------------------------------------------------------------
\* The process has not crashed: if it has, no thread takes a step.
Alive == simPc # "crashed"

(***************************************************************************)
(* Operations of execution_session.c that several callers share.           *)
(***************************************************************************)

\* The context of the simulation is cleared whole; a cleared state reads as
\* SIMULATION_RUN_FINISHED.
ClearRunState ==
    /\ stopRequested' = FALSE /\ producerDone' = FALSE /\ hilActive' = FALSE
    /\ prepared' = FALSE /\ runStarted' = FALSE
    /\ result' = "none" /\ resultOf' = 0
    /\ inputReady' = FALSE /\ threadStarted' = FALSE /\ verdict' = "Finished"

\* ExecutionSessionAbort of a session that has no run: what a preparation
\* took is given back, the logger is joined, the run state is cleared.
AbortPrepared ==
    /\ fmu' = IF prepared /\ inputReady /\ ~threadStarted THEN "loaded" ELSE fmu
    /\ logger' = IF prepared THEN "off" ELSE logger
    /\ ClearRunState

\* RtSimulationPrepare: the FMU is instantiated and the references of the
\* inputs are established.
Prepare ==
    /\ fmu = "loaded" /\ ~prepared /\ ~runStarted
    /\ fmu' = "instantiated"
    /\ inputReady' = TRUE /\ threadStarted' = FALSE

\* ExecutionSessionJoin.  RtSimulationJoin waits for the simulation thread; for
\* a cleared context it fails at once, and then the run stays started unless an
\* error is on record.
Join ==
    /\ \/ threadStarted /\ simPc = "exited" /\ simPc' = "none"
       \/ ~threadStarted /\ UNCHANGED simPc
    /\ IF threadStarted \/ verdict = "Error"
       THEN /\ runStarted' = FALSE /\ prepared' = FALSE /\ logger' = "off"
            /\ result' = verdict /\ resultOf' = plays
       ELSE UNCHANGED <<runStarted, prepared, logger, outcome>>
    /\ threadStarted' = FALSE

-----------------------------------------------------------------------------
(***************************************************************************)
(* The GUI thread.                                                         *)
(***************************************************************************)

\* The GUI thread is at a place of its handlers, in a process that is alive.
GuiAt(place) == guiPc = place /\ Alive

HilIdle == hilPc \in {"none", "done"}

\* The session gives up what is prepared and loads another FMU, or none.
Import ==
    /\ logger' = IF prepared THEN "off" ELSE logger
    /\ ClearRunState
    /\ fmu' \in {"loaded", "none"}
    /\ torn' = (torn \/ hilPc = "started")
    /\ UNCHANGED <<runtime, steps, simPc, hilPc, gui, plays, lastStarted, stopAsked>>

\* A variant that imports whatever runs.
LoadFmu_AnyTime == GuiAt("idle") /\ Import

\* The import button is always enabled; the session only refuses while
\* run_started.
LoadFmu == GuiAt("idle") /\ ~runStarted /\ Import

Play ==
    /\ GuiAt("idle") /\ screen # "Running" /\ plays < MaxPlays
    /\ plays' = plays + 1

\* The window empties its copy of the result only for a Play that is accepted.
Accepted ==
    /\ lastStarted' = plays + 1 /\ stopAsked' = FALSE
    /\ screen' = "Running" /\ runResult' = 0

\* Play debug, refused: the timing or the outputs are not valid, the FMU
\* cannot be prepared, a run is still started or (after a preparation that is
\* given back) the thread cannot be created.
StartRefused ==
    /\ Play
    /\ guiRunStarted' = FALSE /\ hilRunStarted' = FALSE
    /\ \/ /\ result' = "none" /\ resultOf' = 0
          /\ UNCHANGED <<flags, fmu, logger, inputReady, threadStarted, verdict>>
       \/ /\ fmu = "loaded" /\ ~prepared /\ ~runStarted
          /\ ClearRunState /\ UNCHANGED <<fmu, logger>>
    /\ UNCHANGED <<runtime, steps, simPc, hilPc, guiPc, screen, runResult,
                   lastStarted, stopAsked, torn>>

\* Play HiL, refused: no device is named.
StartHilRefused ==
    /\ Play
    /\ UNCHANGED <<flags, outcome, fmu, logger, runtime, context, hilPc, gui,
                   lastStarted, stopAsked, torn>>

\* Play debug, accepted: ExecutionSessionStartGui up to run_started.
StartSimulation ==
    /\ Play /\ Accepted /\ fmu = "loaded" /\ ~prepared /\ ~runStarted
    /\ result' = "none" /\ resultOf' = 0
    /\ prepared' = TRUE /\ inputReady' = TRUE /\ fmu' = "instantiated"
    /\ logger' \in {"off", "running"}
    /\ threadStarted' = TRUE /\ simPc' = "configure" /\ steps' = 0 /\ torn' = FALSE
    /\ runStarted' = TRUE
    /\ guiRunStarted' = TRUE /\ hilRunStarted' = FALSE
    /\ UNCHANGED <<stopRequested, producerDone, hilActive, runtime, verdict,
                   hilPc, guiPc>>

\* Play HiL: the run is handed to a QtConcurrent worker.
StartHilSimulation ==
    /\ Play /\ Accepted /\ ~guiRunStarted
    /\ guiRunStarted' = TRUE /\ hilRunStarted' = TRUE
    /\ hilPc' = "begin"
    /\ UNCHANGED <<flags, outcome, fmu, logger, runtime, context, guiPc, torn>>

\* ExecutionSessionStopGui; when neither a HiL run is active nor a run is
\* started it answers "not ready" and nothing changes.
StopGui(asked) ==
    /\ stopRequested' = (stopRequested \/ asked)
    /\ stopAsked' = (stopAsked \/ asked)

StopSimulation ==
    /\ GuiAt("idle") /\ screen = "Running"
    /\ StopGui(hilActive \/ runStarted)
    /\ UNCHANGED <<producerDone, hilActive, prepared, runStarted, outcome, fmu,
                   logger, runtime, context, hilPc, gui, plays, lastStarted, torn>>

\* What Main.qml shows when the controller reports the end of a run.
ShowResult ==
    /\ screen' = IF result' = "none" THEN "Finished" ELSE result'
    /\ runResult' = IF result' = "none" THEN 0 ELSE resultOf'

\* The 100 ms timer finds the HiL worker finished.
PollHilFinished ==
    /\ GuiAt("idle") /\ guiRunStarted /\ hilRunStarted /\ hilPc = "done"
    /\ guiRunStarted' = FALSE /\ hilRunStarted' = FALSE
    /\ UNCHANGED <<flags, outcome, fmu, logger, runtime, context, hilPc, guiPc,
                   history>>
    /\ ShowResult

\* The timer finds the debug run not running, and joins it: the GUI thread
\* blocks until the simulation thread returns.
PollNotRunning ==
    /\ GuiAt("idle") /\ guiRunStarted /\ ~hilRunStarted
    /\ ~(runStarted /\ ~producerDone)
    /\ guiPc' = "join"
    /\ UNCHANGED <<flags, outcome, fmu, logger, runtime, context, hilPc,
                   guiRunStarted, hilRunStarted, screen, runResult, history>>

PollJoined ==
    /\ GuiAt("join") /\ Join
    /\ guiPc' = "idle" /\ guiRunStarted' = FALSE /\ ShowResult
    /\ UNCHANGED <<stopRequested, producerDone, hilActive, fmu, runtime,
                   inputReady, verdict, steps, hilPc, hilRunStarted, history>>

\* ~GuiController: ask the run to stop, wait for the HiL worker, then
\* ExecutionSessionDelete, which stops and joins a run that is left.
CloseWindow ==
    /\ GuiAt("idle")
    /\ StopGui(guiRunStarted /\ (hilActive \/ runStarted))
    /\ guiPc' = "closeWait"
    /\ UNCHANGED <<producerDone, hilActive, prepared, runStarted, outcome, fmu,
                   logger, runtime, context, hilPc, guiRunStarted, hilRunStarted,
                   screen, runResult, plays, lastStarted, torn>>

CloseWorkerDone ==
    /\ GuiAt("closeWait") /\ HilIdle
    /\ guiPc' = "closeAbort"
    /\ UNCHANGED <<flags, outcome, fmu, logger, runtime, context, hilPc,
                   guiRunStarted, hilRunStarted, screen, runResult, history>>

CloseAbort ==
    /\ GuiAt("closeAbort")
    /\ IF runStarted
       THEN /\ stopRequested' = TRUE /\ guiPc' = "closeJoin"
            /\ UNCHANGED <<producerDone, hilActive, prepared, runStarted,
                           outcome, fmu, logger, inputReady, threadStarted, verdict>>
       ELSE /\ ClearRunState /\ guiPc' = "closed"
            /\ logger' = IF prepared THEN "off" ELSE logger
            /\ fmu' = "none"
    /\ UNCHANGED <<runtime, steps, simPc, hilPc, guiRunStarted,
                   hilRunStarted, screen, runResult, history>>

CloseJoined ==
    /\ GuiAt("closeJoin")
    /\ \/ threadStarted /\ simPc = "exited" /\ simPc' = "none"
       \/ ~threadStarted /\ UNCHANGED simPc
    /\ ClearRunState /\ logger' = "off" /\ fmu' = "none"
    /\ guiPc' = "closed"
    /\ UNCHANGED <<runtime, steps, hilPc, guiRunStarted, hilRunStarted,
                   screen, runResult, history>>

-----------------------------------------------------------------------------
(***************************************************************************)
(* The HiL worker: ExecutionSessionRunGuiHil.                              *)
(***************************************************************************)

HilSteps(from, to) == hilPc = from /\ hilPc' = to /\ Alive

\* A variant that keeps the result of the previous run.
HilBegin_KeepsResult ==
    /\ \/ HilSteps("begin", "done") /\ UNCHANGED hilActive
       \/ /\ HilSteps("begin", "preflight") /\ ~prepared /\ ~runStarted
          /\ hilActive' = TRUE
    /\ UNCHANGED <<stopRequested, producerDone, prepared, runStarted, outcome,
                   fmu, logger, runtime, context, gui, history>>

\* The result of the previous run is dropped first; a profile or a timing that
\* is not valid, a run that is still started and a build without ROS 2 return
\* before hil_run_active is set.
HilBegin ==
    /\ result' = "none" /\ resultOf' = 0
    /\ \/ HilSteps("begin", "done") /\ UNCHANGED hilActive
       \/ /\ HilSteps("begin", "preflight") /\ ~prepared /\ ~runStarted
          /\ hilActive' = TRUE
    /\ UNCHANGED <<stopRequested, producerDone, prepared, runStarted, fmu,
                   logger, runtime, context, gui, history>>

\* RtSimulationCheckHilRealtime.
HilPreflight ==
    /\ \/ HilSteps("preflight", "done") /\ hilActive' = FALSE
       \/ HilSteps("preflight", "prepare") /\ UNCHANGED hilActive
    /\ UNCHANGED <<stopRequested, producerDone, prepared, runStarted, outcome,
                   fmu, logger, runtime, context, gui, history>>

HilPrepare ==
    /\ \/ HilSteps("prepare", "publish") /\ Prepare
       \/ /\ HilSteps("prepare", "finish")
          /\ UNCHANGED <<fmu, inputReady, threadStarted>>
    /\ UNCHANGED <<flags, outcome, logger, runtime, verdict, steps, simPc, gui,
                   history>>

\* The virtual inputs are published, which may fail, before prepared is set.
HilPrepared ==
    /\ \/ HilSteps("publish", "daqc") /\ prepared' = TRUE
          /\ UNCHANGED <<fmu, inputReady>>
       \/ /\ HilSteps("publish", "finish") /\ UNCHANGED prepared
          /\ inputReady' = FALSE /\ fmu' = IF inputReady THEN "loaded" ELSE fmu
    /\ UNCHANGED <<stopRequested, producerDone, hilActive, runStarted, outcome,
                   logger, runtime, threadStarted, verdict, steps, simPc, gui,
                   history>>

\* DaqcRuntimeStart: its workers run while it waits for the board.
HilDaqcStart ==
    /\ HilSteps("daqc", "play") /\ runtime' = "on"
    /\ UNCHANGED <<flags, outcome, fmu, logger, context, gui, history>>

\* The board confirms STREAMING, or some stage of the start fails.
HilDaqcAnswer ==
    /\ \/ HilSteps("play", "logging")
       \/ HilSteps("play", "daqcFailed")
    /\ UNCHANGED <<flags, outcome, fmu, logger, runtime, context, gui, history>>

HilDaqcFailed ==
    /\ HilSteps("daqcFailed", "abort") /\ runtime' = "off"
    /\ UNCHANGED <<flags, outcome, fmu, logger, context, gui, history>>

HilAbort ==
    /\ HilSteps("abort", "finish") /\ AbortPrepared
    /\ UNCHANGED <<runtime, steps, simPc, gui, history>>

HilStartLogging ==
    /\ hilPc = "logging" /\ Alive
    /\ IF prepared
       THEN /\ hilPc' = "start" /\ logger' \in {"off", "running"}
            /\ UNCHANGED <<flags, outcome, fmu, inputReady, threadStarted, verdict>>
       ELSE hilPc' = "stopDaqc" /\ AbortPrepared
    /\ UNCHANGED <<runtime, steps, simPc, gui, history>>

\* RtSimulationStart: the thread is created before run_started is set.
HilStart ==
    /\ \/ /\ HilSteps("start", "started") /\ inputReady /\ ~threadStarted
          /\ threadStarted' = TRUE /\ simPc' = "configure" /\ steps' = 0
          /\ torn' = FALSE
          /\ UNCHANGED <<flags, outcome, fmu, logger, inputReady, verdict>>
       \/ /\ HilSteps("start", "stopDaqc") /\ AbortPrepared
          /\ UNCHANGED <<simPc, steps, torn>>
    /\ UNCHANGED <<runtime, gui, plays, lastStarted, stopAsked>>

HilStarted ==
    /\ HilSteps("started", "join") /\ runStarted' = TRUE
    /\ UNCHANGED <<stopRequested, producerDone, hilActive, prepared, outcome,
                   fmu, logger, runtime, context, gui, history>>

HilJoin ==
    /\ HilSteps("join", "stopDaqc") /\ Join
    /\ UNCHANGED <<stopRequested, producerDone, hilActive, fmu, runtime,
                   inputReady, verdict, steps, gui, history>>

HilStopDaqc_Skipped ==
    /\ HilSteps("stopDaqc", "finish")
    /\ UNCHANGED <<flags, outcome, fmu, logger, runtime, context, gui, history>>

HilStopDaqc ==
    /\ HilSteps("stopDaqc", "finish") /\ runtime' = "off"
    /\ UNCHANGED <<flags, outcome, fmu, logger, context, gui, history>>

HilFinish ==
    /\ HilSteps("finish", "done") /\ hilActive' = FALSE
    /\ UNCHANGED <<stopRequested, producerDone, prepared, runStarted, outcome,
                   fmu, logger, runtime, context, gui, history>>

Hil == \/ HilBegin \/ HilPreflight \/ HilPrepare \/ HilPrepared
       \/ HilDaqcStart \/ HilDaqcAnswer \/ HilDaqcFailed \/ HilAbort \/ HilStartLogging
       \/ HilStart \/ HilStarted \/ HilJoin \/ HilStopDaqc \/ HilFinish

-----------------------------------------------------------------------------
(***************************************************************************)
(* The simulation thread: SimulationThread of rt_simulation.c.             *)
(***************************************************************************)

SimSteps(from, to) == simPc = from /\ simPc' = to /\ ~torn
SimOnly == UNCHANGED <<inputReady, threadStarted, flags, outcome, fmu, logger,
                       runtime, hilPc, gui, history>>

\* The verdict is Error until the thread knows better; without the realtime
\* configuration the thread ends there.
SimConfigure ==
    /\ SimSteps("configure", "loop") \/ SimSteps("configure", "release")
    /\ verdict' = "Error"
    /\ UNCHANGED steps /\ SimOnly

\* One communication step, or a failure of one of its stages.
SimStep ==
    /\ simPc = "loop" /\ ~torn /\ steps < MaxSteps /\ ~stopRequested
    /\ \/ steps' = steps + 1 /\ UNCHANGED simPc
       \/ simPc' = "release" /\ UNCHANGED steps
    /\ UNCHANGED verdict /\ SimOnly

\* The loop condition fails: the stop time is reached or Stop is seen.
SimLeaveLoop ==
    /\ SimSteps("loop", "left") /\ (steps = MaxSteps \/ stopRequested)
    /\ UNCHANGED <<steps, verdict>> /\ SimOnly

\* stop_requested is read once more for the verdict.
SimVerdict ==
    /\ SimSteps("left", "release")
    /\ verdict' = IF stopRequested THEN "Stopped" ELSE "Finished"
    /\ UNCHANGED steps /\ SimOnly

ReleasePreparedSimulation ==
    /\ SimSteps("release", "logDone")
    /\ inputReady' = FALSE
    /\ fmu' = IF inputReady THEN "loaded" ELSE fmu
    /\ UNCHANGED <<threadStarted, verdict, steps, flags, outcome, logger,
                   runtime, hilPc, gui, history>>

\* RunLoggingProducerDone: BinaryLogger shows the logger then drains and exits.
SimLogDone ==
    /\ SimSteps("logDone", "publishDone")
    /\ UNCHANGED <<steps, verdict>> /\ SimOnly

SimPublishDone_Forgotten ==
    /\ SimSteps("publishDone", "exited")
    /\ UNCHANGED <<steps, verdict>> /\ SimOnly

SimPublishDone ==
    /\ SimSteps("publishDone", "exited") /\ producerDone' = TRUE
    /\ UNCHANGED <<stopRequested, hilActive, prepared, runStarted, outcome, fmu,
                   logger, runtime, inputReady, threadStarted, verdict, steps,
                   hilPc, gui, history>>

\* With its context cleared under it the thread reads through null pointers or
\* uses an FMU that is gone: the process crashes, or the thread takes its error
\* path to the end, where nothing is left to release or to signal.
SimTorn ==
    /\ torn /\ simPc \notin {"none", "exited", "crashed"}
    /\ \/ simPc' = "crashed" /\ UNCHANGED verdict
       \/ simPc' = "none" /\ verdict' \in {verdict, "Error"}
    /\ UNCHANGED steps /\ SimOnly

Sim == \/ SimConfigure \/ SimStep \/ SimLeaveLoop \/ SimVerdict
       \/ ReleasePreparedSimulation \/ SimLogDone \/ SimPublishDone
       \/ SimTorn

-----------------------------------------------------------------------------
Poll == PollHilFinished \/ PollNotRunning \/ PollJoined
Close == CloseWorkerDone \/ CloseAbort \/ CloseJoined

Next == \/ LoadFmu \/ StartRefused \/ StartHilRefused
        \/ StartSimulation \/ StartHilSimulation
        \/ StopSimulation \/ CloseWindow \/ Poll \/ Close \/ Hil \/ Sim

Spec == Init /\ [][Next]_vars

(***************************************************************************)
(* Threads that can run do run, the timer keeps firing, and a closing      *)
(* window proceeds.  The operator owes nothing: Play, Stop, import and     *)
(* closing the window have no fairness.                                    *)
(***************************************************************************)
FairSpec == Spec /\ WF_vars(Sim) /\ WF_vars(Hil) /\ WF_vars(Poll) /\ WF_vars(Close)

-----------------------------------------------------------------------------
\* From its creation to ReleasePreparedSimulation the simulation thread has the
\* instance it steps and the inputs it reads, unless an FMU is imported between
\* its creation and run_started: the one moment at which the session takes them
\* away under it.  No abort, window close or other import does.
SimOwnsModel ==
    simPc \in {"configure", "loop", "left", "release"} =>
        (fmu = "instantiated" /\ inputReady <=> ~torn)

\* Once the window shows a run as over, nothing of it is left: the logger is
\* joined, the DAQC workers are stopped, the preparation is given back, and,
\* unless an import fell into the start of the run, the simulation thread is
\* joined and the session can start again.
EndedMeansQuiet ==
    screen # "Running" =>
        /\ ~threadStarted /\ ~prepared /\ logger = "off" /\ runtime = "off" /\ HilIdle
        /\ ~torn => simPc = "none" /\ ~runStarted

\* The window shows no result while a run goes on, and otherwise none or that of
\* the last run that was started, whatever stage it failed at; a Play that is
\* refused leaves that result on the window.  A result that the session still
\* has, and exports, is the one the window shows.
ResultIsFresh ==
    /\ screen = "Running" => runResult = 0
    /\ screen # "Running" => /\ runResult \in {0, lastStarted}
                             /\ result # "none" => /\ resultOf = lastStarted
                                                   /\ runResult = resultOf

\* Every Play ends on the screen, or the window is closed, or the process has
\* crashed: no order of Stop, timer ticks, imports and worker steps leaves a run
\* that nobody joins.
EveryPlayEnds ==
    screen = "Running" ~> (screen # "Running" \/ guiPc = "closed" \/ ~Alive)

\* docs/spec.md:78: Play starts the simulation.  A run that ends as Stopped
\* was asked to stop after its own Play.
StoppedOnRequest ==
    screen = "Stopped" /\ result = "Stopped" /\ guiPc = "idle" => stopAsked
=============================================================================
