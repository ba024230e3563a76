---------------------------- MODULE DaqcFirmware ----------------------------
(***************************************************************************)
(* The control and I/O core of the ESP32 firmware: main.c, daqc_control.c, *)
(* daqc_profile.c, daqc_protocol.c and daqc_transport.c.                   *)
(*                                                                         *)
(* Three tasks share the control record, the one-slot actuation mailbox    *)
(* and the output pins:                                                    *)
(*   comm  CommunicationTask (core 0): parses UART frames, runs            *)
(*         ProcessFrame and answers CONFIG frames;                         *)
(*   io    IoTask (core 1): applies the mailbox, acquires, and supervises  *)
(*         the age of the last READ_ACK;                                   *)
(*   ros   RosTask (core 0, lower priority): runs SetupCallback.           *)
(* The control mutex is always tried with a zero timeout, so a task that   *)
(* finds it taken goes on without the effect it wanted.  The pins and the  *)
(* acknowledgement time are written with no lock at all.                   *)
(*                                                                         *)
(* Payloads are reduced to what the properties tell apart: the outputs are *)
(* safe or some pin is driven, and IsNewerSequence may give either answer. *)
(* The flags and messages DaqcRos publishes are not state of this module.  *)
(***************************************************************************)
EXTENDS Naturals, Sequences

CONSTANTS MaxWire,    \* bound on the frames in flight in each direction
          AckTimeout  \* ticks standing for the 60 s of the read supervision

ASSUME FirmwareAssumption ==
    /\ MaxWire \in Nat \ {0}
    /\ AckTimeout \in Nat \ {0}

VARIABLES
    toDaqc, toHost,         \* UART frames in flight
    state, mutex,           \* control->state, owner of control->mutex
    configured,             \* g_configured
    pending,                \* g_actuation_pending
    outputs,                \* the pins: "safe" or "driven"
    commPc, frame, replay,  \* comm: position, parser's frame, it is a replay
    ioPc,                   \* io: position
    ackAge,                 \* now - g_read_ack_time_us
    rosPc                   \* ros: position

wires == <<toDaqc, toHost>>
control == <<state, mutex>>
pins == <<configured, outputs>>
commVars == <<commPc, frame, replay>>
vars == <<wires, control, pins, pending, commVars, ioPc, ackAge, rosPc>>

NoFrame == [mid |-> "none"]

Commands == {"DISABLE", "ENABLE", "STREAMING"}

\* Anything else a COMMAND byte may hold.
BadCommand == "other"
CommandByte == Commands \union {BadCommand}

HostFrame == [mid : {"CONFIG"}, command : CommandByte]
               \union [mid : {"DATA", "READ_ACK", "XRCE"}]

Confirmation(c, s) == [mid |-> "CONFIG", command |-> c, status |-> s]
BoardFrame == [mid : {"CONFIG"}, command : CommandByte, status : Commands]
                \union [mid : {"DATA"}]

TypeOK ==
    /\ toDaqc \in Seq(HostFrame) /\ Len(toDaqc) <= MaxWire
    /\ toHost \in Seq(BoardFrame) /\ Len(toHost) <= MaxWire
    /\ state \in Commands
    /\ mutex \in {"free", "comm", "io", "ros"}
    /\ configured \in BOOLEAN
    /\ pending \in BOOLEAN
    /\ outputs \in {"safe", "driven"}
    /\ commPc \in {"read", "handle", "apply", "safe", "applied", "stamp",
                   "confirm"}
    /\ frame \in HostFrame \union {NoFrame}
    /\ replay \in BOOLEAN
    /\ ioPc \in {"top", "take", "apply", "drive", "acquire", "send", "watch",
                 "disable", "safe"}
    /\ ackAge \in 0..AckTimeout
    /\ rosPc \in {"spin", "refuse", "configure"}

Init ==
    /\ toDaqc = <<>> /\ toHost = <<>>
    /\ state = "DISABLE" /\ mutex = "free"
    /\ configured = FALSE /\ outputs = "safe"
    /\ pending = FALSE
    /\ commPc = "read" /\ frame = NoFrame /\ replay = FALSE
    /\ ioPc = "top"
    /\ ackAge = 0
    /\ rosPc = "spin"

\* What is left of the queue q once its first n frames are gone.
Without(q, n) == SubSeq(q, n + 1, Len(q))

\* A frame handed to the driver arrives or is lost on the line; the bound on
\* the wire makes a full one lose it.
Written(q, f) == {q} \union (IF Len(q) < MaxWire THEN {Append(q, f)} ELSE {})

-----------------------------------------------------------------------------
(* CommunicationTask.                                                        *)

\* DaqcParserFeed completes a frame and calls ProcessFrame with it.
CommReceive ==
    /\ commPc = "read" /\ frame = NoFrame
    /\ toDaqc # <<>>
    /\ frame' = Head(toDaqc)
    /\ toDaqc' = Tail(toDaqc)
    /\ commPc' = "handle"
    /\ UNCHANGED <<toHost, control, pins, pending, replay, ioPc, ackAge,
                   rosPc>>

\* A frame whose handler failed is still at the front of the parser's buffer:
\* the first byte that arrives later runs the handler on it again.
CommReplay ==
    /\ commPc = "read" /\ frame # NoFrame
    /\ toDaqc # <<>>
    /\ replay' = TRUE
    /\ commPc' = "handle"
    /\ UNCHANGED <<wires, control, pins, pending, frame, ioPc, ackAge,
                   rosPc>>

\* The handler returned true: the parser discards the frame and goes on.
Handled == commPc' = "read" /\ frame' = NoFrame /\ replay' = FALSE

\* The handler returned false: the parser keeps the frame and the rest of the
\* batch just read is gone, at least the frame whose byte caused a replay.
\* A batch may hold any number of the frames in flight.
Failed ==
    /\ commPc' = "read" /\ replay' = FALSE
    /\ frame' = frame
    /\ \E n \in (IF replay /\ toDaqc # <<>> THEN 1 ELSE 0)..Len(toDaqc) :
          toDaqc' = Without(toDaqc, n)

IsCommandValid_Any(c) == TRUE
IsCommandValid(c) == c \in Commands

\* DaqcControlApplyCommand: the zero-timeout take of the control mutex.
CommTakeMutex ==
    /\ commPc = "handle" /\ frame.mid = "CONFIG"
    /\ \/ /\ IsCommandValid(frame.command)
          /\ mutex = "free"
          /\ mutex' = "comm"
          /\ commPc' = "apply"
       \/ /\ ~IsCommandValid(frame.command) \/ mutex # "free"
          /\ mutex' = mutex
          /\ commPc' = "confirm"
    /\ UNCHANGED <<wires, state, pins, pending, frame, replay, ioPc, ackAge,
                   rosPc>>

\* DaqcControlApplyCommand refuses STREAMING when the trial acquisition
\* fails: nothing is configured, or an ADC read reports an error.
CommRefuse ==
    /\ commPc = "apply" /\ frame.command = "STREAMING"
    /\ mutex' = "free"
    /\ commPc' = "confirm"
    /\ UNCHANGED <<wires, state, pins, pending, frame, replay, ioPc, ackAge,
                   rosPc>>

\* DaqcControlApplyCommand assigns the state; STREAMING is done at once, the
\* other commands still have the outputs to zero under the mutex.
CommSetState ==
    /\ commPc = "apply"
    /\ frame.command = "STREAMING" => configured
    /\ state' = frame.command
    /\ IF frame.command = "STREAMING"
         THEN mutex' = "free" /\ commPc' = "applied"
         ELSE mutex' = mutex /\ commPc' = "safe"
    /\ UNCHANGED <<wires, pins, pending, frame, replay, ioPc, ackAge,
                   rosPc>>

\* DaqcProfileSetSafeOutputs and the end of the critical section.
CommSafeOutputs ==
    /\ commPc = "safe"
    /\ outputs' = "safe"
    /\ mutex' = "free"
    /\ commPc' = "applied"
    /\ UNCHANGED <<wires, state, configured, pending, frame, replay, ioPc,
                   ackAge, rosPc>>

\* A variant that leaves the mailbox alone.
CommApplied_KeepsMailbox ==
    /\ commPc = "applied"
    /\ commPc' = IF state = "STREAMING" THEN "stamp" ELSE "confirm"
    /\ UNCHANGED <<wires, control, pins, pending, frame, replay, ioPc, ackAge,
                   rosPc>>

\* ProcessFrame after DAQC_CONTROL_OK re-reads the state without the mutex and
\* renews the read supervision or empties the actuation mailbox.
CommApplied ==
    /\ commPc = "applied"
    /\ \/ /\ state = "STREAMING"
          /\ commPc' = "stamp"
          /\ UNCHANGED pending
       \/ /\ state # "STREAMING"
          /\ pending' = FALSE
          /\ commPc' = "confirm"
    /\ UNCHANGED <<wires, control, pins, frame, replay, ioPc, ackAge, rosPc>>

\* The two 32-bit halves of g_read_ack_time_us are stored: while this is going
\* on IoTask may read any mixture of the old and the new time.
CommStamp ==
    /\ commPc = "stamp"
    /\ ackAge' = 0
    /\ IF frame.mid = "CONFIG"
         THEN commPc' = "confirm" /\ UNCHANGED <<frame, replay>>
         ELSE Handled
    /\ UNCHANGED <<wires, control, pins, pending, ioPc, rosPc>>

\* A variant that answers with the command instead of the state.
CommConfirm_EchoesCommand ==
    /\ commPc = "confirm" /\ IsCommandValid(frame.command)
    /\ toHost' \in Written(toHost, Confirmation(frame.command, frame.command))
    /\ Handled
    /\ UNCHANGED <<toDaqc, control, pins, pending, ioPc, ackAge, rosPc>>

\* SendConfigState: whatever became of the command, the answer carries the
\* state read now.  DaqcTransportSendConfig fails when the transmit mutex is
\* not obtained in 5 ms or the driver takes fewer bytes.
CommConfirm ==
    /\ commPc = "confirm"
    /\ \/ /\ toHost' \in Written(toHost, Confirmation(frame.command, state))
          /\ Handled
          /\ UNCHANGED toDaqc
       \/ /\ Failed
          /\ UNCHANGED toHost
    /\ UNCHANGED <<control, pins, pending, ioPc, ackAge, rosPc>>

\* ProcessFrame on DATA: StoreActuationSnapshot in STREAMING, else ignored.
CommData ==
    /\ commPc = "handle" /\ frame.mid = "DATA"
    /\ pending' = (pending \/ state = "STREAMING")
    /\ Handled
    /\ UNCHANGED <<wires, control, pins, ioPc, ackAge, rosPc>>

\* ProcessFrame on READ_ACK: renews the time in STREAMING, when it is the
\* first of the stream or IsNewerSequence says so.
CommReadAck ==
    /\ commPc = "handle" /\ frame.mid = "READ_ACK"
    /\ \/ state = "STREAMING" /\ commPc' = "stamp" /\ UNCHANGED <<frame, replay>>
       \/ Handled
    /\ UNCHANGED <<wires, control, pins, pending, ioPc, ackAge, rosPc>>

\* DaqcTransportAcceptXrce: fails while the XRCE stream buffer is full.
CommXrce ==
    /\ commPc = "handle" /\ frame.mid = "XRCE"
    /\ (Handled /\ UNCHANGED toDaqc) \/ Failed
    /\ UNCHANGED <<toHost, control, pins, pending, ioPc, ackAge, rosPc>>

Comm == \/ CommReceive \/ CommReplay \/ CommTakeMutex \/ CommRefuse
        \/ CommSetState \/ CommSafeOutputs \/ CommApplied \/ CommStamp
        \/ CommConfirm \/ CommData \/ CommReadAck \/ CommXrce

-----------------------------------------------------------------------------
(* IoTask.                                                                   *)

\* The state test that guards one activation.
IoTop ==
    /\ ioPc = "top"
    /\ ioPc' = IF state = "STREAMING" THEN "take" ELSE "watch"
    /\ UNCHANGED <<wires, control, pins, pending, commVars, ackAge, rosPc>>

\* TakeActuationSnapshot.
IoTake ==
    /\ ioPc = "take"
    /\ pending' = FALSE
    /\ ioPc' = IF pending THEN "apply" ELSE "acquire"
    /\ UNCHANGED <<wires, control, pins, commVars, ackAge, rosPc>>

\* DaqcProfileApplyActuation looks at g_configured, with no lock and no second
\* look at the state ...
IoApply ==
    /\ ioPc = "apply"
    /\ ioPc' = IF configured THEN "drive" ELSE "acquire"
    /\ UNCHANGED <<wires, control, pins, pending, commVars, ackAge, rosPc>>

\* ... and writes the pins, whatever the other tasks did in between.  An
\* unusable payload leaves the pins alone; a driver error part of the way
\* leaves some of them driven.
IoDrive ==
    /\ ioPc = "drive"
    /\ outputs' \in {outputs, "driven"}
    /\ ioPc' = "acquire"
    /\ UNCHANGED <<wires, control, configured, pending, commVars, ackAge,
                   rosPc>>

\* A variant whose streaming activation ends before the supervision.
IoAcquire_NoSupervision ==
    /\ ioPc = "acquire"
    /\ ioPc' = "top"
    /\ UNCHANGED <<wires, control, pins, pending, commVars, ackAge, rosPc>>

\* DaqcProfileAcquire, when the acquisition period has elapsed, the board is
\* configured and the ADC answers ...
IoAcquire ==
    /\ ioPc = "acquire"
    /\ ioPc' \in {"watch"} \union (IF configured THEN {"send"} ELSE {})
    /\ UNCHANGED <<wires, control, pins, pending, commVars, ackAge, rosPc>>

\* ... and DaqcTransportSendAcquisition, after up to 5 ms of waiting for the
\* transmit mutex; without it, or when the driver takes fewer bytes, the sample
\* is lost.  By then the board may have left STREAMING and its configuration.
IoSend ==
    /\ ioPc = "send"
    /\ toHost' \in Written(toHost, [mid |-> "DATA"])
    /\ ioPc' = "watch"
    /\ UNCHANGED <<toDaqc, control, pins, pending, commVars, ackAge, rosPc>>

\* The read supervision: the state and the time are read without a lock.
IoWatch ==
    /\ ioPc = "watch"
    /\ \E expired \in IF commPc = "stamp" THEN BOOLEAN
                                          ELSE {ackAge >= AckTimeout} :
          ioPc' = IF state = "STREAMING" /\ expired THEN "disable" ELSE "top"
    /\ UNCHANGED <<wires, control, pins, pending, commVars, ackAge, rosPc>>

\* DaqcControlApplyCommand(DISABLE) from the supervision: skipped for this
\* activation when the mutex is taken.
IoDisable ==
    /\ ioPc = "disable"
    /\ IF mutex = "free"
         THEN mutex' = "io" /\ state' = "DISABLE" /\ ioPc' = "safe"
         ELSE ioPc' = "top" /\ UNCHANGED control
    /\ UNCHANGED <<wires, pins, pending, commVars, ackAge, rosPc>>

IoSafeOutputs ==
    /\ ioPc = "safe"
    /\ outputs' = "safe"
    /\ mutex' = "free"
    /\ ioPc' = "top"
    /\ UNCHANGED <<wires, state, configured, pending, commVars, ackAge,
                   rosPc>>

Io == \/ IoTop \/ IoTake \/ IoApply \/ IoDrive \/ IoAcquire \/ IoSend
      \/ IoWatch \/ IoDisable \/ IoSafeOutputs

-----------------------------------------------------------------------------
(* RosTask: SetupCallback and DaqcControlApplySetup.                         *)

\* A DaqcSetup arrives and finds the mutex free (when it is taken, or the
\* message is malformed, the callback only reports an error).  The state cannot
\* change while the callback holds the mutex, so its tests are made here: the
\* message goes on to DaqcProfileConfigure when its command is the state, its
\* profile the right one, and it asks for a configuration outside STREAMING.
\* DaqcProfileConfigure withdraws g_configured before it releases the drivers.
RosConfigurable_Always == TRUE
RosConfigurable == state # "STREAMING"

RosSetup ==
    /\ rosPc = "spin" /\ mutex = "free"
    /\ mutex' = "ros"
    /\ \/ rosPc' = "refuse" /\ UNCHANGED configured
       \/ RosConfigurable /\ rosPc' = "configure" /\ configured' = FALSE
    /\ UNCHANGED <<wires, state, outputs, pending, commVars, ioPc, ackAge>>

RosRefuse ==
    /\ rosPc = "refuse"
    /\ mutex' = "free" /\ rosPc' = "spin"
    /\ UNCHANGED <<wires, state, pins, pending, commVars, ioPc, ackAge>>

\* DaqcProfileConfigure ends: success zeroes the outputs, a driver's refusal
\* leaves the board unconfigured.
RosConfigure ==
    /\ rosPc = "configure"
    /\ \/ configured' = TRUE /\ outputs' = "safe"
       \/ UNCHANGED pins
    /\ mutex' = "free" /\ rosPc' = "spin"
    /\ UNCHANGED <<wires, state, pending, commVars, ioPc, ackAge>>

Ros == RosRefuse \/ RosConfigure

-----------------------------------------------------------------------------
(* The host, the line and time, as the firmware meets them.                  *)

HostWrite(f) ==
    /\ Len(toDaqc) < MaxWire
    /\ toDaqc' = Append(toDaqc, f)
    /\ UNCHANGED <<toHost, control, pins, pending, commVars, ioPc, ackAge,
                   rosPc>>

HostRead ==
    /\ toHost # <<>>
    /\ toHost' = Tail(toHost)
    /\ UNCHANGED <<toDaqc, control, pins, pending, commVars, ioPc, ackAge,
                   rosPc>>

LineLoss ==
    /\ toDaqc # <<>>
    /\ toDaqc' = Tail(toDaqc)
    /\ UNCHANGED <<toHost, control, pins, pending, commVars, ioPc, ackAge,
                   rosPc>>

Tick ==
    /\ ackAge < AckTimeout
    /\ ackAge' = ackAge + 1
    /\ UNCHANGED <<wires, control, pins, pending, commVars, ioPc, rosPc>>

HostActs == RosSetup \/ \E f \in HostFrame : HostWrite(f)

Next == Comm \/ Io \/ Ros \/ HostActs \/ HostRead \/ LineLoss \/ Tick

Spec == Init /\ [][Next]_vars

FairSpec == /\ Spec
            /\ WF_vars(Comm) /\ WF_vars(Io) /\ WF_vars(Ros) /\ WF_vars(Tick)

-----------------------------------------------------------------------------
(* Properties.                                                               *)

\* The board never streams with its peripherals unconfigured or being
\* reconfigured: the trial acquisition of DaqcControlApplyCommand and the
\* refusal of DaqcControlApplySetup in STREAMING, made by two tasks, exclude it.
StreamingIsConfigured == state = "STREAMING" => configured

\* Once an ENABLE has been carried out the actuation mailbox is empty, whatever
\* IoTask's own DISABLE left in it: nothing received before the ENABLE is left
\* for the stream that follows to take.
EnableEmptiesMailbox ==
    (state = "ENABLE" /\ commPc \in {"read", "handle"}) => ~pending

\* When the host falls silent for good, the read supervision takes the board
\* out of STREAMING for good, although IoTask gives up an attempt whenever the
\* control mutex is taken.
HostSilenceDisables ==
    <>[][~HostActs]_vars => <>[](state # "STREAMING")

\* Every step of the three tasks is a step the host may expect of the board, or
\* invisible to it.
Device == INSTANCE DaqDevice WITH held <- frame
ImplementsDevice == Device!Spec

\* docs/contracts/interfaces.md: only STREAMING applies actuation DATA.  A pin
\* is driven only in STREAMING, or while the task that left STREAMING is still
\* zeroing the outputs under the mutex.
OnlyStreamingDrives ==
    outputs = "driven" => (state = "STREAMING" \/ mutex # "free")
=============================================================================
