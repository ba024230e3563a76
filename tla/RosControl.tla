----------------------------- MODULE RosControl -----------------------------
(***************************************************************************)
(* How a HiL run configures the board over ROS: daqc_ros_control.c and the *)
(* start and stop of daqc_runtime.c on the host, daqc_ros.c with the tasks *)
(* of main.c that call it on the board.                                    *)
(*                                                                         *)
(* The state of the board moves by CONFIG frames only; its configuration   *)
(* arrives as a DaqcSetup and is confirmed by a DaqcState, which the board *)
(* also publishes, for anybody who listens, after every CONFIG it obeys.   *)
(* The three topics lose messages and deliver the others in order.         *)
(*                                                                         *)
(* A configuration is the number of the session that asked for it.  The    *)
(* profile is always 1, so profile_applied says no more than               *)
(* configuration_applied.  An exchange of CONFIG frames is a command in    *)
(* transit whose confirmation arrives or not: DaqLink is about them.       *)
(***************************************************************************)
EXTENDS Naturals, Sequences

CONSTANTS MaxSessions,  \* bound on the runs of a behaviour
          MaxQueue      \* bound on the messages in flight on a topic

ASSUME RosAssumption == MaxSessions \in Nat \ {0} /\ MaxQueue \in Nat \ {0}

VARIABLES
    \* the board
    state,          \* control->state
    config,         \* the configuration of the profile, 0: none
    applied,        \* control->configuration_applied
    rosUp,          \* g_ros.started
    statePending,   \* state_publication_pending, a request to RosTask
    supPc, rosPc, commPc, ioPc,  \* its tasks
    published,      \* history: the state RosTask published last
    \* the line and the topics
    uart,           \* a CONFIG command on its way, or NoCommand
    setups, states, errors,
    \* the host
    session, fresh, \* history: number of the run, it began with a reset
    pc, thread,     \* the caller of DaqcRuntimeStart / Stop; the ROS thread
    node, stopRequested, lastState, lastError,  \* daqc_ros_control_t
    signalled       \* the condition was broadcast while the caller slept

boardVars == <<state, config, applied, rosUp, statePending,
               supPc, rosPc, commPc, ioPc, published>>
topics == <<setups, states, errors>>
client == <<thread, node, stopRequested, lastState, lastError, signalled>>
hostVars == <<session, fresh, pc, client>>
vars == <<boardVars, uart, topics, hostVars>>

NoCommand == "none"
NoState == [state |-> "none", applied |-> FALSE]
Commands == {"DISABLE", "ENABLE", "STREAMING"}
DaqcState == [state : Commands, applied : BOOLEAN]

TypeOK ==
    /\ state \in Commands /\ config \in 0..MaxSessions
    /\ {applied, rosUp, statePending, errors, fresh, node,
        stopRequested, lastError, signalled} \subseteq BOOLEAN
    /\ supPc \in {"sleep", "started", "create"}
    /\ rosPc \in {"none", "spin", "announce", "state", "publish"}
    /\ commPc \in {"idle", "request", "confirm"} /\ ioPc \in {"idle", "request"}
    /\ published \in Commands \union {NoCommand}
    /\ uart \in Commands \union {NoCommand}
    /\ setups \in Seq(1..MaxSessions) /\ Len(setups) <= MaxQueue
    /\ states \in Seq(DaqcState) /\ Len(states) <= MaxQueue
    /\ session \in 0..MaxSessions
    /\ pc \in {"off", "baseline", "init", "enable", "setup", "check", "blocked",
               "play", "streaming", "stop", "disable", "rosStop", "rosJoin"}
    /\ thread \in {"none", "top", "wait", "exited"}
    /\ lastState \in DaqcState \union {NoState}

\* The board as DaqcControlInit and app_main leave it.
Booted ==
    /\ state = "DISABLE" /\ config = 0 /\ applied = FALSE
    /\ rosUp = FALSE /\ statePending = FALSE
    /\ supPc = "sleep" /\ rosPc = "none" /\ commPc = "idle" /\ ioPc = "idle"
    /\ published = NoCommand

\* The same after a pulse on the reset line.
Boot ==
    /\ state' = "DISABLE" /\ config' = 0 /\ applied' = FALSE
    /\ rosUp' = FALSE /\ statePending' = FALSE
    /\ supPc' = "sleep" /\ rosPc' = "none" /\ commPc' = "idle" /\ ioPc' = "idle"
    /\ published' = NoCommand

\* daqc_ros_control_t as DaqcRosControlInit leaves it.
ClientOff ==
    /\ thread = "none" /\ node = FALSE /\ stopRequested = FALSE
    /\ lastState = NoState /\ lastError = FALSE /\ signalled = FALSE

Init == /\ Booted
        /\ uart = NoCommand /\ setups = <<>> /\ states = <<>> /\ errors = FALSE
        /\ session = 0 /\ fresh = FALSE /\ pc = "off"
        /\ ClientOff

\* The topic q after message m was published on it: delivered or lost.
Sent(q, m) == {q} \union (IF Len(q) < MaxQueue THEN {Append(q, m)} ELSE {})

\* With the serial service stopped nothing of the board reaches the agent.
BridgeUp == pc \notin {"off", "rosStop", "rosJoin"}

-----------------------------------------------------------------------------
(* The board: RosSupervisorTask and DaqcRosStart.                            *)

\* Entities are created, or DaqcRosStart gives up and is tried again later;
\* then started is set ...
SupervisorStart ==
    /\ supPc = "sleep" /\ ~rosUp /\ state # "STREAMING"
    /\ rosUp' = TRUE /\ statePending' = FALSE
    /\ supPc' = "started"
    /\ UNCHANGED <<state, config, applied, rosPc, commPc, ioPc, published,
                   uart, topics, hostVars>>

\* ... a first publication requested ...
SupervisorRequest ==
    /\ supPc = "started"
    /\ statePending' = TRUE
    /\ supPc' = "create"
    /\ UNCHANGED <<state, config, applied, rosUp, rosPc, commPc, ioPc,
                   published, uart, topics, hostVars>>

\* ... and RosTask created, or everything undone by ResetRos.
SupervisorCreate ==
    /\ supPc = "create"
    /\ \/ rosPc' = "spin" /\ UNCHANGED <<rosUp, statePending>>
       \/ /\ rosUp' = FALSE /\ statePending' = FALSE
          /\ UNCHANGED rosPc
    /\ supPc' = "sleep"
    /\ UNCHANGED <<state, config, applied, commPc, ioPc, published, uart,
                   topics, hostVars>>

Supervisor == SupervisorStart \/ SupervisorRequest \/ SupervisorCreate

-----------------------------------------------------------------------------
(* The board: RosTask.                                                       *)

PublishErrors == errors' \in {errors, errors \/ BridgeUp}

\* PublishState: when rcl_publish fails, an error is published instead.
PublishState(a) ==
    /\ published' = state
    /\ \/ /\ states' \in IF BridgeUp THEN Sent(states, [state |-> state, applied |-> a])
                                    ELSE {states}
          /\ UNCHANGED errors
       \/ PublishErrors /\ UNCHANGED states

\* DaqcControlApplySetup refuses a command that is not the state.
SetupMatches == state = "ENABLE"

\* SetupCallback refuses the setup: out of range, mutex taken, wrong state.
SetupRefused ==
    /\ rosPc' = "state"
    /\ PublishErrors
    /\ UNCHANGED <<config, applied, published, states>>

\* DaqcProfileConfigure withdrew the old configuration and a driver refused
\* the new one.
SetupFails ==
    /\ rosPc' = "state"
    /\ SetupMatches
    /\ config' = 0 /\ applied' = FALSE
    /\ PublishErrors
    /\ UNCHANGED <<published, states>>

\* The configuration is in place and the mutex given back; the state that goes
\* into the answer is read afterwards.
SetupApplied ==
    /\ rosPc' = "announce"
    /\ SetupMatches
    /\ config' = Head(setups) /\ applied' = TRUE
    /\ UNCHANGED <<published, states, errors>>

\* rclc_executor_spin_some runs SetupCallback on the next setup, finds none, or
\* fails.  The report of invalid data that IoTask may have left is an error
\* published in a round that finds none.
RosSpin ==
    /\ rosPc = "spin"
    /\ \/ /\ setups # <<>> /\ setups' = Tail(setups)
          /\ SetupRefused \/ SetupFails \/ SetupApplied
       \/ /\ rosPc' = "state"
          /\ UNCHANGED errors \/ PublishErrors
          /\ UNCHANGED <<setups, config, applied, published, states>>
    /\ UNCHANGED <<state, rosUp, statePending, supPc, commPc, ioPc, uart,
                   hostVars>>

\* atomic_exchange of the request, before the state is read.
RosTakeRequest ==
    /\ rosPc = "state"
    /\ rosPc' = (IF statePending THEN "publish" ELSE "spin")
    /\ statePending' = FALSE
    /\ UNCHANGED <<state, config, applied, rosUp, supPc, commPc, ioPc,
                   published, uart, topics, hostVars>>

\* The state is published, to answer a setup or because it was requested.
RosPublish ==
    /\ rosPc \in {"announce", "publish"}
    /\ rosPc' = (IF rosPc = "announce" THEN "state" ELSE "spin")
    /\ PublishState(applied)
    /\ UNCHANGED <<state, config, applied, rosUp, statePending, supPc, commPc,
                   ioPc, setups, uart, hostVars>>

RosTask == RosSpin \/ RosTakeRequest \/ RosPublish

-----------------------------------------------------------------------------
(* The board: what CommunicationTask and IoTask do to the state.             *)

\* The command the caller waits for, place by place, and where it goes then.
Asked == CASE pc = "baseline" -> "DISABLE" [] pc = "enable" -> "ENABLE"
           [] pc = "play" -> "STREAMING" [] pc = "disable" -> "DISABLE"
           [] OTHER -> NoCommand
AfterConfirmation == [baseline |-> "init", enable |-> "setup",
                      play |-> "streaming", disable |-> "rosStop"]

Waiting == Asked # NoCommand

\* ProcessFrame applies the command, or finds the mutex taken, or refuses
\* STREAMING without a configuration.
CommApply ==
    /\ commPc = "idle" /\ uart # NoCommand
    /\ \/ /\ uart = "STREAMING" => config # 0
          /\ state' = uart /\ commPc' = "request"
       \/ UNCHANGED state /\ commPc' = "confirm"
    /\ UNCHANGED <<config, applied, rosUp, statePending, supPc, rosPc, ioPc,
                   published, uart, topics, hostVars>>

\* DaqcRosRequestStatePublication: nothing before ROS is up.
CommRequest ==
    /\ commPc = "request" /\ commPc' = "confirm"
    /\ statePending' = (statePending \/ rosUp)
    /\ UNCHANGED <<state, config, applied, rosUp, supPc, rosPc, ioPc,
                   published, uart, topics, hostVars>>

\* The confirmation reaches the host, or is lost.
CommConfirm ==
    /\ commPc = "confirm" /\ commPc' = "idle"
    /\ uart' = NoCommand
    /\ \/ UNCHANGED pc
       \/ state = uart /\ uart = Asked /\ pc' = AfterConfirmation[pc]
    /\ UNCHANGED <<state, config, applied, rosUp, statePending, supPc, rosPc,
                   ioPc, published, topics, session, fresh, client>>

\* A variant whose supervision announces nothing.
IoDisable_Unannounced ==
    /\ ioPc = "idle" /\ state = "STREAMING"
    /\ state' = "DISABLE"
    /\ UNCHANGED <<config, applied, rosUp, statePending, supPc, rosPc, commPc,
                   ioPc, published, uart, topics, hostVars>>

\* The read supervision of IoTask runs out.
IoDisable ==
    /\ ioPc = "idle" /\ state = "STREAMING"
    /\ state' = "DISABLE" /\ ioPc' = "request"
    /\ UNCHANGED <<config, applied, rosUp, statePending, supPc, rosPc, commPc,
                   published, uart, topics, hostVars>>

IoRequest ==
    /\ ioPc = "request" /\ ioPc' = "idle"
    /\ statePending' = (statePending \/ rosUp)
    /\ UNCHANGED <<state, config, applied, rosUp, supPc, rosPc, commPc,
                   published, uart, topics, hostVars>>

BoardTasks == CommApply \/ CommRequest \/ CommConfirm \/ IoDisable \/ IoRequest

-----------------------------------------------------------------------------
(* The host: DaqcRosControlThread.                                           *)

ThreadTop ==
    /\ thread = "top"
    /\ thread' = (IF stopRequested THEN "exited" ELSE "wait")
    /\ UNCHANGED <<boardVars, uart, topics, session, fresh, pc, node,
                   stopRequested, lastState, lastError, signalled>>

Undecided == pc \in {"enable", "setup", "check", "blocked"}

\* pthread_cond_broadcast wakes the caller if it sleeps; the variant forgets it.
Broadcast_Missing == signalled' = signalled
Broadcast == signalled' = (signalled \/ pc = "blocked")

\* One round after rcl_wait: TakeState and TakeErrors observe what there is, or
\* leave it for a later round.  A DaqcErrors of the board always has a flag set.
\* Once the caller has decided nobody looks at what is observed.
ThreadWait ==
    /\ thread = "wait" /\ thread' = "top"
    /\ \/ states # <<>> /\ states' = Tail(states)
          /\ lastState' = (IF Undecided THEN Head(states) ELSE lastState)
       \/ UNCHANGED <<states, lastState>>
    /\ \/ errors /\ errors' = FALSE
          /\ lastError' = (lastError \/ Undecided)
       \/ UNCHANGED <<errors, lastError>>
    /\ IF states' # states \/ errors' # errors THEN Broadcast ELSE UNCHANGED signalled
    /\ UNCHANGED <<boardVars, uart, setups, session, fresh, pc, node,
                   stopRequested>>

RosThread == ThreadTop \/ ThreadWait

-----------------------------------------------------------------------------
(* The host: DaqcRuntimeStart and DaqcRuntimeStop.                           *)

\* The port is opened and its input flushed, with a reset of the board or
\* without; the line is idle.  A reset also ends the XRCE session of the board
\* and what was queued for it.
OpenSession ==
    /\ pc = "off" /\ session < MaxSessions /\ uart = NoCommand /\ commPc = "idle"
    /\ session' = session + 1
    /\ pc' = "baseline"
    /\ \/ fresh' = TRUE /\ Boot /\ setups' = <<>>
       \/ fresh' = FALSE /\ UNCHANGED <<boardVars, setups>>
    /\ UNCHANGED <<uart, states, errors, client>>

\* DaqCoordinatorQueueCommand, and again while there is no answer.
QueueCommand ==
    /\ Waiting /\ uart = NoCommand
    /\ uart' = Asked
    /\ UNCHANGED <<boardVars, topics, hostVars>>

\* DaqcRosControlInit and Start: either may fail; the thread is created last.
StartClient ==
    /\ pc = "init"
    /\ \/ pc' = "stop" /\ UNCHANGED <<thread, node>>
       \/ pc' = "enable" /\ thread' = "top" /\ node' = TRUE
    /\ UNCHANGED <<boardVars, uart, topics, session, fresh, stopRequested,
                   lastState, lastError, signalled>>

\* DaqcRosControlPublishSetup, after the startup delay.
PublishSetup ==
    /\ pc = "setup"
    /\ \/ pc' = "stop" /\ UNCHANGED setups
       \/ pc' = "check" /\ setups' \in Sent(setups, session)
    /\ UNCHANGED <<boardVars, uart, states, errors, session, fresh, client>>

\* A variant that does not ask for the configuration.
Confirmed_StateOnly == lastState.state = "ENABLE"
Confirmed == lastState.state = "ENABLE" /\ lastState.applied

\* DaqcRosControlWaitConfiguration, with the mutex: an error received at any
\* time of the session ends it, a state received at any time confirms it, else
\* the caller sleeps.  DaqOutputBridgeInit, which follows, may fail.
WaitCheck ==
    /\ pc = "check"
    /\ pc' \in IF lastError THEN {"stop"}
               ELSE IF Confirmed THEN {"play", "stop"} ELSE {"blocked"}
    /\ UNCHANGED <<boardVars, uart, topics, session, fresh, client>>

Wake ==
    /\ pc = "blocked" /\ signalled
    /\ pc' = "check" /\ signalled' = FALSE
    /\ UNCHANGED <<boardVars, uart, topics, session, fresh, thread, node,
                   stopRequested, lastState, lastError>>

\* daqc_config_timeout_ms or daqc_ros_timeout_ms has passed; when it does, what
\* has arrived in the meantime is not looked at again.
Deadline ==
    /\ Waiting \/ pc = "blocked"
    /\ pc' = (IF pc = "disable" THEN "rosStop" ELSE "stop")
    /\ signalled' = FALSE
    /\ UNCHANGED <<boardVars, uart, topics, session, fresh, thread, node,
                   stopRequested, lastState, lastError>>

\* The simulation is over.
EndRun ==
    /\ pc = "streaming" /\ pc' = "stop"
    /\ UNCHANGED <<boardVars, uart, topics, session, fresh, client>>

\* DaqcRuntimeStop asks for DISABLE, unless its mode says it is there already.
StopEnter ==
    /\ pc = "stop"
    /\ pc' \in {"disable", "rosStop"}
    /\ UNCHANGED <<boardVars, uart, topics, session, fresh, client>>

\* A variant that goes to the join without the request.
RosStop_NoRequest ==
    /\ pc = "rosStop" /\ pc' = "rosJoin"
    /\ UNCHANGED <<boardVars, uart, topics, session, fresh, client>>

\* DaqcRosControlStop asks the thread to end ...
RosStop ==
    /\ pc = "rosStop" /\ pc' = "rosJoin"
    /\ stopRequested' = TRUE
    /\ UNCHANGED <<boardVars, uart, topics, session, fresh, thread, node,
                   lastState, lastError, signalled>>

\* ... joins it if there is one, and frees everything.
RosJoin ==
    /\ pc = "rosJoin" /\ thread \in {"none", "exited"}
    /\ thread' = "none" /\ node' = FALSE /\ stopRequested' = FALSE
    /\ lastState' = NoState /\ lastError' = FALSE /\ signalled' = FALSE
    /\ pc' = "off" /\ states' = <<>> /\ errors' = FALSE
    /\ UNCHANGED <<boardVars, uart, setups, session, fresh>>

Caller == \/ OpenSession \/ StartClient \/ PublishSetup
          \/ WaitCheck \/ Wake \/ StopEnter \/ RosStop \/ RosJoin

-----------------------------------------------------------------------------
Next == \/ Supervisor \/ RosTask \/ BoardTasks \/ RosThread
        \/ Caller \/ QueueCommand \/ Deadline \/ EndRun

Spec == Init /\ [][Next]_vars

\* The caller and the ROS thread are scheduled and deadlines pass.  The board,
\* the topics and the operator owe nothing.
FairSpec == Spec /\ WF_vars(Caller) /\ WF_vars(Deadline) /\ WF_vars(RosThread)

-----------------------------------------------------------------------------
(* Properties.                                                               *)

\* In a run that began with a reset, a confirmed configuration is the one that
\* run asked for, and stays so while it streams: neither the publications that
\* follow CONFIG nor a setup of an earlier run are taken for it.
ConfirmedIsMine ==
    (fresh /\ pc \in {"play", "streaming"}) => config = session /\ applied

\* Once RosTask has nothing left to do, what it published last is the state of
\* the board: no change made by another task, at any moment of a publication or
\* of the start of ROS, goes unannounced.
PublishedIsCurrent ==
    (rosPc \notin {"none", "publish"} /\ ~statePending
       /\ commPc # "request" /\ ioPc # "request") => published = state

\* The caller never sleeps on a confirmation or an error that has already
\* arrived, unless its wake-up is under way.
NoLostWakeup == (pc = "blocked" /\ ~signalled) => ~(lastError \/ Confirmed)

\* A start or a stop of the runtime ends: it streams or it is off, whatever the
\* board does and the topics lose.
RuntimeSettles == [](pc # "off" => <>(pc \in {"off", "streaming"}))
=============================================================================
