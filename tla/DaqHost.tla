------------------------------ MODULE DaqHost ------------------------------
(***************************************************************************)
(* The host side of the acquisition link: daq_coordinator.c,               *)
(* daq_link_state.c, daq_state_control.c, daq_serial_service.c and the     *)
(* life cycle of daqc_runtime.c.                                           *)
(*                                                                         *)
(* Two threads meet in the coordinator: the caller of DaqcRuntimeStart and *)
(* DaqcRuntimeStop, who queues commands and polls the link mode until a    *)
(* deadline, and the serial worker, who parses what arrives and writes one *)
(* frame at a time, a command before an acknowledgement before an output.  *)
(* The simulation thread publishes outputs into a one-slot mailbox.        *)
(*                                                                         *)
(* Deadlines and the 5 ms retry are not clocks here: a poll may find the   *)
(* deadline passed, a retry due, or neither.                               *)
(***************************************************************************)
EXTENDS Naturals, Sequences

CONSTANT MaxWire  \* bound on the frames in flight in each direction

ASSUME WireAssumption == MaxWire \in Nat

VARIABLES
    toDaqc, toHost,   \* UART frames in flight
    worker,           \* serial worker: "off", "running", or "dead" on an error
    slot,             \* pending_command with command_pending, or NoCommand
    mode,             \* link_state.mode, named after the command it confirms
    output, ack,      \* output_mailbox.pending, read_ack_pending
    answered,         \* config_confirmations > confirmation_count
    pc,               \* the caller: stage of DaqcRuntimeStart / Stop
    seen,             \* mode read by ConfirmDisable's current poll, or NoCommand
    baseline,         \* history: a DISABLE was confirmed since the port opened
    verdict           \* history: how the last DaqcRuntimeStop ended

coordVars == <<slot, mode, output, ack>>
callerVars == <<answered, pc, seen, baseline, verdict>>
hostVars == <<worker, slot, mode, output, ack, answered, pc, seen, baseline,
              verdict>>

NoCommand == "none"
Commands == {"DISABLE", "ENABLE", "STREAMING"}

HostTypeOK ==
    /\ worker \in {"off", "running", "dead"}
    /\ slot \in Commands \union {NoCommand}
    /\ mode \in Commands
    /\ output \in BOOLEAN /\ ack \in BOOLEAN
    /\ answered \in BOOLEAN
    /\ pc \in {"off", "count", "baseline", "enter", "enable", "setup", "play",
               "streaming", "stop", "stopping", "close"}
    /\ seen \in Commands \union {NoCommand}
    /\ baseline \in BOOLEAN
    /\ verdict \in {"none", "confirmed", "unconfirmed", "skipped"}

HostInit ==
    /\ worker = "off"
    /\ slot = NoCommand /\ mode = "DISABLE"
    /\ output = FALSE /\ ack = FALSE
    /\ answered = FALSE
    /\ pc = "off" /\ seen = NoCommand
    /\ baseline = FALSE /\ verdict = "none"

\* A frame handed to the TTY arrives or is lost on the line; the bound on the
\* wire makes a full one lose it.
Written(q, f) == {q} \union (IF Len(q) < MaxWire THEN {Append(q, f)} ELSE {})

-----------------------------------------------------------------------------
(* The serial worker.                                                        *)

\* A variant that does not compare the status with the command.
Accepts_IgnoresStatus(c, s) ==
    /\ c \in Commands
    /\ c = "STREAMING" => mode # "DISABLE"

\* DaqLinkStateConfirm accepts a confirmation whose status is the command, and
\* STREAMING only from ENABLED or STREAMING.
Accepts(c, s) ==
    /\ s = c /\ c \in Commands
    /\ c = "STREAMING" => mode # "DISABLE"

\* A variant in which what was waiting to be sent survives.
Kept_Always(waiting, c) == waiting

\* Of what waits to be sent, DaqLinkStateConfirm keeps only what STREAMING,
\* confirmed again, still wants.
Kept(waiting, c) == waiting /\ c = "STREAMING"

\* ProcessFrame on CONFIG: DaqLinkStateConfirm, then the confirmation count.
ReceiveConfirmation ==
    LET f == Head(toHost) IN
    /\ worker = "running" /\ toHost # <<>> /\ f.mid = "CONFIG"
    /\ toHost' = Tail(toHost)
    /\ IF Accepts(f.command, f.status)
         THEN /\ mode' = f.command
              /\ output' = Kept(output, f.command)
              /\ ack' = Kept(ack, f.command)
              /\ answered' = TRUE
              /\ baseline' = (baseline \/ f.command = "DISABLE")
         ELSE UNCHANGED <<mode, output, ack, answered, baseline>>
    /\ UNCHANGED <<toDaqc, worker, slot, pc, seen, verdict>>

\* ProcessFrame on DATA: outside STREAMING it is rejected; inside,
\* DaqSequenceTrack may find it repeated or old.
ReceiveData ==
    /\ worker = "running" /\ toHost # <<>> /\ Head(toHost).mid = "DATA"
    /\ toHost' = Tail(toHost)
    /\ ack' \in {ack} \union (IF mode = "STREAMING" THEN {TRUE} ELSE {})
    /\ UNCHANGED <<toDaqc, worker, slot, mode, output, callerVars>>

CommandPending == slot # NoCommand

\* DaqCoordinatorTakeTransmit and DaqTtyWrite: a command first, then the
\* acknowledgement, then the newest output, then a datagram of the XRCE queue,
\* which the agent may have filled at any time.
Transmit ==
    /\ worker = "running"
    /\ \/ /\ CommandPending
          /\ slot' = NoCommand
          /\ toDaqc' \in Written(toDaqc, [mid |-> "CONFIG", command |-> slot])
          /\ UNCHANGED <<ack, output>>
       \/ /\ ~CommandPending /\ ack
          /\ ack' = FALSE
          /\ toDaqc' \in Written(toDaqc, [mid |-> "READ_ACK"])
          /\ UNCHANGED <<slot, output>>
       \/ /\ ~CommandPending /\ ~ack /\ output
          /\ output' = FALSE
          /\ toDaqc' \in Written(toDaqc, [mid |-> "DATA"])
          /\ UNCHANGED <<slot, ack>>
       \/ /\ ~CommandPending /\ ~ack /\ ~output
          /\ toDaqc' \in Written(toDaqc, [mid |-> "XRCE"])
          /\ UNCHANGED <<slot, ack, output>>
    /\ UNCHANGED <<toHost, worker, mode, callerVars>>

\* RunService leaves its loop on the first read or write error; nobody is told.
WorkerDies ==
    /\ worker = "running"
    /\ worker' = "dead"
    /\ UNCHANGED <<toDaqc, toHost, coordVars, callerVars>>

Worker == ReceiveConfirmation \/ ReceiveData \/ Transmit \/ WorkerDies

-----------------------------------------------------------------------------
(* The simulation thread.                                                    *)

\* DaqLinkStatePublishOutput.
PublishOutput ==
    /\ pc = "streaming"
    /\ mode = "STREAMING"
    /\ output' = TRUE
    /\ UNCHANGED <<toDaqc, toHost, worker, slot, mode, ack, callerVars>>

-----------------------------------------------------------------------------
(* The caller of DaqcRuntimeStart and DaqcRuntimeStop.                       *)

\* DaqcRuntimeStart up to DaqSerialServiceStart: a new coordinator, the input
\* of the port flushed and the worker started.  An assumption about time: the
\* line to the board is idle by then, since what an earlier session wrote takes
\* milliseconds to reach the board or be lost, and closing one run and
\* preparing the next takes longer.  A frame the board's parser kept is still
\* there.
Open ==
    /\ pc = "off"
    /\ toDaqc = <<>>
    /\ toHost' = <<>>
    /\ worker' = "running"
    /\ slot' = NoCommand /\ mode' = "DISABLE"
    /\ output' = FALSE /\ ack' = FALSE
    /\ answered' = FALSE
    /\ seen' = NoCommand
    /\ baseline' = FALSE /\ verdict' = "none"
    /\ pc' = "count"

\* DaqStateControlConfirmDisable begins with the confirmation count: the answers
\* the worker has taken by now do not count.
BaselineCount ==
    /\ pc = "count"
    /\ answered' = FALSE
    /\ pc' = "baseline"
    /\ UNCHANGED <<toDaqc, toHost, worker, coordVars, seen, baseline, verdict>>

\* DaqCoordinatorQueueCommand as the polling loops use it: a busy slot keeps
\* its command and the loop goes on.
Queue(c) == slot' = IF slot = NoCommand THEN c ELSE slot

\* At every poll it reads the mode first ...
BaselineReadMode ==
    /\ pc = "baseline" /\ seen = NoCommand
    /\ seen' = mode
    /\ UNCHANGED <<toDaqc, toHost, worker, coordVars, answered, pc, baseline,
                   verdict>>

\* ... and the confirmation count afterwards.
BaselineCheck ==
    /\ pc = "baseline" /\ seen # NoCommand
    /\ seen' = NoCommand
    /\ \/ /\ answered /\ seen = "DISABLE"
          /\ pc' = "enter"
          /\ UNCHANGED slot
       \/ /\ ~(answered /\ seen = "DISABLE")
          /\ \/ pc' = "stop" /\ UNCHANGED slot   \* the deadline has passed
             \/ UNCHANGED <<pc, slot>>            \* no attempt is due
             \/ UNCHANGED pc /\ Queue("DISABLE")
    /\ UNCHANGED <<toDaqc, toHost, worker, mode, output, ack, answered,
                   baseline, verdict>>

\* DaqStateControlTransition(DISABLED, ENABLE) tests the mode it expects.
\* (the variant does not).
EnterEnable_Unchecked == TRUE
EnterEnable == mode = "DISABLE"

TransitionEnter ==
    /\ pc = "enter"
    /\ pc' = IF EnterEnable THEN "enable" ELSE "stop"
    /\ UNCHANGED <<toDaqc, toHost, worker, coordVars, answered, seen,
                   baseline, verdict>>

\* One turn of the loop of DaqStateControlTransition towards command c: the
\* mode is the target, or the deadline has passed, or an attempt is made, or
\* the loop waits another millisecond.
Poll(here, c, done, failed) ==
    /\ pc = here
    /\ \/ mode = c /\ pc' = done /\ UNCHANGED slot
       \/ mode # c /\ pc' = failed /\ UNCHANGED slot
       \/ mode # c /\ pc' = here /\ Queue(c)
    /\ UNCHANGED <<toDaqc, toHost, worker, mode, output, ack, answered, seen,
                   baseline>>

PollEnable == Poll("enable", "ENABLE", "setup", "stop") /\ UNCHANGED verdict

\* The ROS part of DaqcRuntimeStart (DaqcSetup and its DaqcState) and then
\* DaqStateControlPlay, which expects the mode ENABLED.
FinishSetup ==
    /\ pc = "setup"
    /\ \/ mode = "ENABLE" /\ pc' = "play"
       \/ pc' = "stop"
    /\ UNCHANGED <<toDaqc, toHost, worker, coordVars, answered, seen,
                   baseline, verdict>>

PollPlay == Poll("play", "STREAMING", "streaming", "stop") /\ UNCHANGED verdict

\* The run ends, by itself, by Stop or by an error.
EndRun ==
    /\ pc = "streaming"
    /\ pc' = "stop"
    /\ UNCHANGED <<toDaqc, toHost, worker, coordVars, answered, seen,
                   baseline, verdict>>

\* DaqcRuntimeStop asks for DISABLE unless the mode already says so.
StopEnter ==
    /\ pc = "stop"
    /\ IF mode = "DISABLE"
         THEN pc' = "close" /\ verdict' = "skipped"
         ELSE pc' = "stopping" /\ UNCHANGED verdict
    /\ UNCHANGED <<toDaqc, toHost, worker, coordVars, answered, seen,
                   baseline>>

\* The transition of DaqcRuntimeStop, whose result is discarded.
PollStop ==
    /\ Poll("stopping", "DISABLE", "close", "close")
    /\ verdict' = CASE pc' = pc -> verdict
                    [] mode = "DISABLE" -> "confirmed"
                    [] OTHER -> "unconfirmed"

\* DaqSerialServiceStop joins the worker; the coordinator is destroyed.  What
\* the port still holds of the board's answers is flushed by the next Open.
Close ==
    /\ pc = "close"
    /\ worker' = "off"
    /\ slot' = NoCommand /\ mode' = "DISABLE"
    /\ output' = FALSE /\ ack' = FALSE
    /\ pc' = "off"
    /\ UNCHANGED <<toDaqc, toHost, answered, seen, baseline, verdict>>

Caller == \/ BaselineCount \/ BaselineReadMode \/ BaselineCheck
          \/ TransitionEnter \/ PollEnable \/ FinishSetup \/ PollPlay \/ EndRun
          \/ StopEnter \/ PollStop \/ Close

HostNext == Worker \/ PublishOutput \/ Caller
=============================================================================
