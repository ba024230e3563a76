------------------------- MODULE DaqcFirmwareProofs -------------------------
(***************************************************************************)
(* Proofs about the three firmware tasks, for any line length and any      *)
(* supervision time: type correctness, that the board streams only while   *)
(* it is configured, that ENABLE leaves the mailbox empty, and that the    *)
(* host sees a board that keeps the contract DaqDevice.                    *)
(***************************************************************************)
EXTENDS DaqcFirmware, TLAPS

\* Who holds the mutex is told by where the tasks are.
OwnerInv ==
    /\ mutex = "comm" <=> commPc \in {"apply", "safe"}
    /\ mutex = "io" <=> ioPc = "safe"
    /\ mutex = "ros" <=> rosPc # "spin"

\* The frame in the parser fits the place of CommunicationTask.
FrameInv ==
    /\ commPc \in {"apply", "safe", "applied", "confirm"} => frame.mid = "CONFIG"
    /\ commPc \in {"apply", "safe", "applied"} => frame.command \in Commands
    /\ commPc # "read" => frame # NoFrame

\* A configuration in progress keeps STREAMING out.
ConfigureInv == rosPc = "configure" => state # "STREAMING"

\* The mailbox is empty in ENABLE, except while the command that led there is
\* still being carried out.
MailboxInv ==
    /\ state = "ENABLE" /\ commPc \notin {"safe", "applied"} => pending = FALSE
    /\ commPc = "stamp" => state # "ENABLE"

FirmwareInv == /\ TypeOK /\ OwnerInv /\ FrameInv
               /\ ConfigureInv /\ StreamingIsConfigured /\ MailboxInv

-----------------------------------------------------------------------------

\* The invariant holds at power-up.
LEMMA FirmwareInit == Init => FirmwareInv
<1> SUFFICES ASSUME Init PROVE FirmwareInv
  OBVIOUS
<1> USE DEF Init
<1>1. toDaqc \in Seq(HostFrame) /\ toHost \in Seq(BoardFrame)
      /\ Len(toDaqc) = 0 /\ Len(toHost) = 0
  OBVIOUS
<1>2. 0 <= MaxWire /\ 0 \in 0..AckTimeout
  BY FirmwareAssumption
<1>4. Len(toDaqc) <= MaxWire /\ Len(toHost) <= MaxWire
  BY <1>1, <1>2
<1>5. frame \in HostFrame \union {NoFrame} /\ ackAge \in 0..AckTimeout
  BY <1>2
<1>6. TypeOK
  BY <1>1, <1>4, <1>5, Zenon DEF TypeOK, Commands
<1>3. OwnerInv /\ FrameInv /\ ConfigureInv /\ StreamingIsConfigured /\ MailboxInv
  BY DEF OwnerInv, FrameInv, ConfigureInv, StreamingIsConfigured, MailboxInv
<1> QED BY <1>3, <1>6 DEF FirmwareInv

\* What Failed leaves in flight.
LEMMA WithoutType ==
  ASSUME NEW T, NEW q \in Seq(T), NEW n \in 0..Len(q)
  PROVE  Without(q, n) \in Seq(T) /\ Len(Without(q, n)) <= Len(q)
  BY DEF Without

\* What the driver makes of a frame.
LEMMA WrittenType ==
  ASSUME NEW T, NEW q \in Seq(T), Len(q) <= MaxWire, NEW f \in T,
         NEW r \in Written(q, f)
  PROVE  r \in Seq(T) /\ Len(r) <= MaxWire
<1>1. CASE r = q
  BY <1>1
<1>2. CASE Len(q) < MaxWire /\ r = Append(q, f)
  BY <1>2, FirmwareAssumption
<1> QED BY <1>1, <1>2 DEF Written

\* Head and tail of what is in flight.
LEMMA TailType ==
  ASSUME NEW T, NEW q \in Seq(T), q # <<>>
  PROVE  Head(q) \in T /\ Tail(q) \in Seq(T) /\ Len(Tail(q)) = Len(q) - 1
         /\ Len(q) \in Nat
  OBVIOUS

\* The fields of a frame on the wire.
LEMMA FrameParts ==
  ASSUME NEW f \in HostFrame
  PROVE  /\ f # NoFrame
         /\ f.mid \in {"CONFIG", "DATA", "READ_ACK", "XRCE"}
         /\ f.mid = "CONFIG" => f.command \in CommandByte
  BY DEF HostFrame, NoFrame

\* An answer to CONFIG is a frame of the wire.
LEMMA ConfirmationType ==
  ASSUME NEW c \in CommandByte, NEW s \in Commands
  PROVE  Confirmation(c, s) \in BoardFrame
  BY DEF Confirmation, BoardFrame

-----------------------------------------------------------------------------
(* Types.                                                                    *)

\* Every step keeps the types.
LEMMA TypeNext == FirmwareInv /\ [Next]_vars => TypeOK'
<1> SUFFICES ASSUME FirmwareInv, [Next]_vars PROVE TypeOK'
  OBVIOUS
<1> USE DEF FirmwareInv
<1>0. MaxWire \in Nat /\ AckTimeout \in Nat \ {0} /\ 0 \in 0..AckTimeout
  BY FirmwareAssumption
<1>1. CASE CommReceive
  <2>1. Head(toDaqc) \in HostFrame /\ Tail(toDaqc) \in Seq(HostFrame)
        /\ Len(Tail(toDaqc)) <= MaxWire
    BY <1>0, <1>1, TailType DEF CommReceive, TypeOK
  <2> QED BY <1>1, <2>1 DEF CommReceive, TypeOK, control, pins
<1>2. CASE CommReplay
  BY <1>2 DEF CommReplay, TypeOK, wires, control, pins
<1>3. CASE CommTakeMutex
  BY <1>3 DEF CommTakeMutex, TypeOK, wires, pins
<1>4. CASE CommRefuse
  BY <1>4 DEF CommRefuse, TypeOK, wires, pins
<1>5. CASE CommSetState
  BY <1>5 DEF CommSetState, TypeOK, FrameInv, wires, pins
<1>6. CASE CommSafeOutputs
  BY <1>6 DEF CommSafeOutputs, TypeOK, wires
<1>7. CASE CommApplied
  <2>1. pending' \in BOOLEAN /\ commPc' \in {"stamp", "confirm"}
    BY <1>7 DEF CommApplied, TypeOK
  <2>2. UNCHANGED <<wires, control, pins, frame, replay, ioPc, ackAge, rosPc>>
    BY <1>7 DEF CommApplied
  <2> QED BY <2>1, <2>2 DEF TypeOK, wires, control, pins
<1>8. CASE CommStamp
  BY ZenonT(60), <1>0, <1>8 DEF CommStamp, Handled, TypeOK, wires, control, pins
<1>f. ASSUME Failed PROVE toDaqc' \in Seq(HostFrame) /\ Len(toDaqc') <= MaxWire
  <2>1. PICK n \in 0..Len(toDaqc) : toDaqc' = Without(toDaqc, n)
    BY <1>f DEF Failed
  <2>2. toDaqc' \in Seq(HostFrame) /\ Len(toDaqc') <= Len(toDaqc)
    BY <2>1, WithoutType DEF TypeOK
  <2>3. Len(toDaqc) <= MaxWire /\ Len(toDaqc) \in Nat /\ Len(toDaqc') \in Nat
    BY <2>2 DEF TypeOK
  <2> QED BY <1>0, <2>2, <2>3
<1>9. CASE CommConfirm
  <2>1. frame \in HostFrame /\ frame.command \in CommandByte
    BY <1>9, FrameParts DEF CommConfirm, TypeOK, FrameInv
  <2>2. Confirmation(frame.command, state) \in BoardFrame
    BY <2>1, ConfirmationType DEF TypeOK
  <2>3. \A r \in Written(toHost, Confirmation(frame.command, state)) :
          r \in Seq(BoardFrame) /\ Len(r) <= MaxWire
    BY <2>2, WrittenType DEF TypeOK
  <2>4. CASE Failed /\ UNCHANGED toHost
    BY ZenonT(60), <1>9, <1>f, <2>4 DEF CommConfirm, Failed, TypeOK, control, pins
  <2>5. CASE /\ toHost' \in Written(toHost, Confirmation(frame.command, state))
             /\ Handled /\ UNCHANGED toDaqc
    BY ZenonT(60), <1>9, <2>3, <2>5 DEF CommConfirm, Handled, TypeOK, control, pins
  <2> QED BY <1>9, <2>4, <2>5 DEF CommConfirm
<1>10. CASE CommData
  BY <1>10 DEF CommData, Handled, TypeOK, wires, control, pins
<1>11. CASE CommReadAck
  BY ZenonT(60), <1>11 DEF CommReadAck, Handled, TypeOK, wires, control, pins
<1>12. CASE CommXrce
  <2>1. CASE Handled /\ UNCHANGED toDaqc
    BY <1>12, <2>1 DEF CommXrce, Handled, TypeOK, control, pins
  <2>2. CASE Failed
    BY ZenonT(60), <1>12, <1>f, <2>2 DEF CommXrce, Failed, TypeOK, control, pins
  <2> QED BY <1>12, <2>1, <2>2 DEF CommXrce
<1>13. CASE IoTop \/ IoTake \/ IoApply \/ IoDrive \/ IoAcquire
  <2>1. CASE IoTop \/ IoTake
    BY ZenonT(60), <1>13, <2>1 DEF IoTop, IoTake, TypeOK, wires, control, pins, commVars
  <2>2. CASE IoApply
    BY <2>2 DEF IoApply, TypeOK, wires, control, pins, commVars
  <2>3. CASE IoDrive
    BY <2>3 DEF IoDrive, TypeOK, wires, control, commVars
  <2>4. CASE IoAcquire
    BY <2>4 DEF IoAcquire, TypeOK, wires, control, pins, commVars
  <2> QED BY <1>13, <2>1, <2>2, <2>3, <2>4
<1>14. CASE IoSend
  <2>1. [mid |-> "DATA"] \in BoardFrame
    BY DEF BoardFrame
  <2>2. \A r \in Written(toHost, [mid |-> "DATA"]) :
          r \in Seq(BoardFrame) /\ Len(r) <= MaxWire
    BY <2>1, WrittenType DEF TypeOK
  <2> QED BY <1>14, <2>2 DEF IoSend, TypeOK, control, pins, commVars
<1>15. CASE IoWatch
  BY <1>15 DEF IoWatch, TypeOK, wires, control, pins, commVars
<1>16. CASE IoDisable \/ IoSafeOutputs
  BY <1>16 DEF IoDisable, IoSafeOutputs, TypeOK, Commands, wires, control, pins, commVars
<1>17. CASE RosSetup \/ RosRefuse \/ RosConfigure
  BY <1>17 DEF RosSetup, RosRefuse, RosConfigure, TypeOK, wires, pins, commVars
<1>18. ASSUME NEW f \in HostFrame, HostWrite(f) PROVE TypeOK'
  <2>1. Append(toDaqc, f) \in Seq(HostFrame)
        /\ Len(Append(toDaqc, f)) = Len(toDaqc) + 1 /\ Len(toDaqc) \in Nat
    BY DEF TypeOK
  <2>2. toDaqc' \in Seq(HostFrame) /\ Len(toDaqc') <= MaxWire
    BY <1>0, <1>18, <2>1 DEF HostWrite
  <2> QED BY <1>18, <2>2 DEF HostWrite, TypeOK, control, pins, commVars
<1>19. CASE HostRead
  <2>1. Tail(toHost) \in Seq(BoardFrame) /\ Len(Tail(toHost)) <= MaxWire
    BY <1>0, <1>19, TailType DEF HostRead, TypeOK
  <2> QED BY <1>19, <2>1 DEF HostRead, TypeOK, control, pins, commVars
<1>20. CASE LineLoss
  <2>1. Tail(toDaqc) \in Seq(HostFrame) /\ Len(Tail(toDaqc)) <= MaxWire
    BY <1>0, <1>20, TailType DEF LineLoss, TypeOK
  <2> QED BY <1>20, <2>1 DEF LineLoss, TypeOK, control, pins, commVars
<1>21. CASE Tick
  <2>1. ackAge + 1 \in 0..AckTimeout
    BY <1>0, <1>21 DEF Tick, TypeOK
  <2> QED BY <1>21, <2>1 DEF Tick, TypeOK, wires, control, pins, commVars
<1>22. CASE UNCHANGED vars
  BY <1>22 DEF vars, TypeOK, wires, control, pins, commVars
<1> QED
  BY <1>1, <1>2, <1>3, <1>4, <1>5, <1>6, <1>7, <1>8, <1>9, <1>10, <1>11, <1>12,
     <1>13, <1>14, <1>15, <1>16, <1>17, <1>18, <1>19, <1>20, <1>21, <1>22
  DEF Next, Comm, Io, Ros, HostActs

-----------------------------------------------------------------------------
(* The rest of the invariant.                                                *)

ControlInv == OwnerInv /\ FrameInv /\ ConfigureInv /\ StreamingIsConfigured /\ MailboxInv

\* Every step keeps the parts about mutex, frame, configuration and mailbox.
LEMMA ControlNext == FirmwareInv /\ [Next]_vars => ControlInv'
<1> SUFFICES ASSUME FirmwareInv, [Next]_vars PROVE ControlInv'
  OBVIOUS
<1> USE DEF FirmwareInv, ControlInv, OwnerInv, FrameInv, ConfigureInv,
            StreamingIsConfigured, MailboxInv
<1>0. /\ frame \in HostFrame \union {NoFrame}
      /\ commPc \in {"read", "handle", "apply", "safe", "applied", "stamp", "confirm"}
      /\ state \in {"DISABLE", "ENABLE", "STREAMING"}
  BY DEF TypeOK, Commands
<1>1. CASE CommReceive
  <2>1. Head(toDaqc) # NoFrame
    BY <1>1, TailType, FrameParts DEF CommReceive, TypeOK
  <2> QED BY <1>1, <2>1 DEF CommReceive, control, pins
<1>2. CASE CommReplay
  BY <1>2 DEF CommReplay, control, pins
<1>3. CASE CommTakeMutex
  BY <1>3 DEF CommTakeMutex, IsCommandValid, pins
<1>4. CASE CommRefuse
  BY <1>4 DEF CommRefuse, pins
<1>5. CASE CommSetState
  BY <1>5 DEF CommSetState, pins
<1>6. CASE CommSafeOutputs
  BY <1>6 DEF CommSafeOutputs
<1>7. CASE CommApplied
  BY <1>7 DEF CommApplied, control, pins
<1>8. CASE CommStamp
  BY <1>8 DEF CommStamp, Handled, control, pins
<1>9. CASE CommConfirm
  BY <1>9 DEF CommConfirm, Handled, Failed, control, pins
<1>10. CASE CommData
  BY <1>10 DEF CommData, Handled, control, pins, TypeOK
<1>11. CASE CommReadAck
  BY <1>11 DEF CommReadAck, Handled, control, pins
<1>12. CASE CommXrce
  BY <1>12 DEF CommXrce, Handled, Failed, control, pins
<1>13. CASE IoTop
  BY <1>13 DEF IoTop, control, pins, commVars
<1>14. CASE IoTake
  BY <1>14 DEF IoTake, control, pins, commVars
<1>15. CASE IoApply \/ IoDrive \/ IoAcquire \/ IoSend
  BY <1>15 DEF IoApply, IoDrive, IoAcquire, IoSend, control, pins, commVars
<1>16. CASE IoWatch
  BY <1>16 DEF IoWatch, control, pins, commVars
<1>17. CASE IoDisable
  BY <1>17 DEF IoDisable, control, pins, commVars
<1>18. CASE IoSafeOutputs
  BY <1>18 DEF IoSafeOutputs, commVars
<1>19. CASE RosSetup
  BY <1>19 DEF RosSetup, RosConfigurable, commVars
<1>20. CASE RosRefuse
  BY <1>20 DEF RosRefuse, pins, commVars
<1>21. CASE RosConfigure
  BY <1>21 DEF RosConfigure, pins, commVars
<1>22. CASE HostRead \/ LineLoss \/ Tick \/ \E f \in HostFrame : HostWrite(f)
  BY <1>22 DEF HostRead, LineLoss, Tick, HostWrite, control, pins, commVars
<1>23. CASE UNCHANGED vars
  BY <1>23 DEF vars, control, pins, commVars
<1> QED
  BY <1>1, <1>2, <1>3, <1>4, <1>5, <1>6, <1>7, <1>8, <1>9, <1>10, <1>11, <1>12,
     <1>13, <1>14, <1>15, <1>16, <1>17, <1>18, <1>19, <1>20, <1>21, <1>22, <1>23
  DEF Next, Comm, Io, Ros, HostActs

\* The three tasks keep the invariant, whatever the host writes, the line loses
\* and the order in which they are scheduled.
THEOREM FirmwareInvariant == Spec => []FirmwareInv
<1>1. FirmwareInv /\ [Next]_vars => FirmwareInv'
  BY TypeNext, ControlNext DEF ControlInv, FirmwareInv
<1> QED BY <1>1, FirmwareInit, PTL DEF Spec

\* The control record, the mailbox and the positions of the tasks keep their
\* types.
THEOREM FirmwareTyping == Spec => []TypeOK
<1>1. FirmwareInv => TypeOK
  BY DEF FirmwareInv
<1> QED BY <1>1, FirmwareInvariant, PTL

\* DaqcControlApplyCommand and DaqcControlApplySetup, run by two tasks, never
\* let the board stream while its peripherals are not configured.
THEOREM FirmwareStreamingIsConfigured == Spec => []StreamingIsConfigured
<1>1. FirmwareInv => StreamingIsConfigured
  BY DEF FirmwareInv
<1> QED BY <1>1, FirmwareInvariant, PTL

\* No actuation of an earlier stream survives an ENABLE: ProcessFrame empties
\* the mailbox although IoTask's own DISABLE does not.
THEOREM FirmwareEnableEmptiesMailbox == Spec => []EnableEmptiesMailbox
<1>1. FirmwareInv => EnableEmptiesMailbox
  BY DEF FirmwareInv, MailboxInv, EnableEmptiesMailbox
<1> QED BY <1>1, FirmwareInvariant, PTL

-----------------------------------------------------------------------------
(* The refinement of DaqDevice: the frame in the parser is the one held.     *)

\* The definitions of the contract are those of the firmware's module.
LEMMA DeviceNames ==
  /\ Device!NoFrame = NoFrame /\ Device!Commands = Commands
  /\ Device!HostFrame = HostFrame
  /\ \A q, n : Device!Without(q, n) = Without(q, n)
  /\ \A q, f : Device!Written(q, f) = Written(q, f)
  /\ \A c, s : Device!Confirmation(c, s) = Confirmation(c, s)
  BY DEF Device!NoFrame, NoFrame, Device!Commands, Commands, Device!HostFrame, HostFrame,
         Device!CommandByte, CommandByte, BadCommand, Device!Without, Without,
         Device!Written, Written, Device!Confirmation, Confirmation

\* Every step of the tasks is a step of DaqDevice, or none.
LEMMA DeviceStep == FirmwareInv /\ [Next]_vars => [Device!Next]_Device!deviceVars
<1> SUFFICES ASSUME FirmwareInv, [Next]_vars
             PROVE  Device!Next \/ UNCHANGED <<toDaqc, toHost, state, frame, configured>>
  BY DEF Device!deviceVars
<1> USE DeviceNames DEF FirmwareInv
<1>0. /\ frame \in HostFrame \union {NoFrame} /\ configured \in BOOLEAN
      /\ state \in Commands
  BY DEF TypeOK
<1>1. CASE CommReceive
  <2>1. Device!Take
    BY <1>1 DEF CommReceive, Device!Take, control, pins
  <2> QED BY <2>1 DEF Device!Next, Device!DeviceNext
<1>2. CASE CommReplay \/ CommTakeMutex \/ CommRefuse \/ CommSafeOutputs \/ CommApplied
  BY <1>2 DEF CommReplay, CommTakeMutex, CommRefuse, CommSafeOutputs, CommApplied,
              wires, control, pins
<1>3. CASE CommSetState
  <2>1. Device!Obey
    BY <1>3 DEF CommSetState, FrameInv, Device!Obey, wires, pins
  <2> QED BY <2>1 DEF Device!Next, Device!DeviceNext
\* A frame that was handled and asks for no answer is dismissed.
<1>d. ASSUME Handled, frame # NoFrame, frame.mid # "CONFIG",
             UNCHANGED <<wires, control, pins>>
      PROVE  Device!Next
  <2>1. Device!Dismiss
    BY <1>d DEF Handled, Device!Dismiss, wires, control, pins
  <2> QED BY <2>1 DEF Device!Next, Device!DeviceNext
\* A frame whose handler failed stays, and input behind it may be lost.
<1>f. ASSUME Failed, frame # NoFrame, UNCHANGED <<toHost, control, pins>>
      PROVE  Device!Next
  <2>1. PICK n \in 0..Len(toDaqc) : toDaqc' = Without(toDaqc, n)
    BY <1>f DEF Failed
  <2>2. Device!Overrun
    BY <1>f, <2>1 DEF Failed, Device!Overrun, control, pins
  <2> QED BY <2>2 DEF Device!Next, Device!DeviceNext
<1>4. CASE CommStamp
  <2>1. CASE frame.mid = "CONFIG"
    BY <1>4, <2>1 DEF CommStamp, wires, control, pins
  <2>2. CASE frame.mid # "CONFIG"
    BY <1>4, <1>d, <2>2 DEF CommStamp, FrameInv
  <2> QED BY <2>1, <2>2
<1>5. CASE CommConfirm
  <2>0. frame.mid = "CONFIG" /\ frame # NoFrame
    BY <1>5 DEF CommConfirm, FrameInv
  <2>1. CASE Failed /\ UNCHANGED toHost
    BY <1>5, <1>f, <2>0, <2>1 DEF CommConfirm
  <2>2. CASE /\ toHost' \in Written(toHost, Confirmation(frame.command, state))
             /\ Handled /\ UNCHANGED toDaqc
    <3>1. Device!Reply
      BY <1>5, <2>0, <2>2 DEF CommConfirm, Handled, Device!Reply, control, pins
    <3> QED BY <3>1 DEF Device!Next, Device!DeviceNext
  <2> QED BY <1>5, <2>1, <2>2 DEF CommConfirm
<1>6. CASE CommData
  BY <1>6, <1>d DEF CommData, FrameInv
<1>7. CASE CommReadAck
  <2>1. CASE Handled
    BY <1>7, <1>d, <2>1 DEF CommReadAck, FrameInv
  <2>2. CASE UNCHANGED frame
    BY <1>7, <2>2 DEF CommReadAck, wires, control, pins
  <2> QED BY <1>7, <2>1, <2>2 DEF CommReadAck
<1>8. CASE CommXrce
  <2>1. CASE Handled /\ UNCHANGED toDaqc
    BY <1>8, <1>d, <2>1 DEF CommXrce, FrameInv, wires
  <2>2. CASE Failed
    BY <1>8, <1>f, <2>2 DEF CommXrce, FrameInv
  <2> QED BY <1>8, <2>1, <2>2 DEF CommXrce
<1>9. CASE IoTop \/ IoTake \/ IoApply \/ IoDrive \/ IoAcquire \/ IoWatch
           \/ IoSafeOutputs
  BY <1>9 DEF IoTop, IoTake, IoApply, IoDrive, IoAcquire, IoWatch, IoSafeOutputs,
              wires, control, pins, commVars
<1>10. CASE IoSend
  <2>1. Device!Sample
    BY <1>10 DEF IoSend, Device!Sample, control, pins, commVars
  <2> QED BY <2>1 DEF Device!Next, Device!DeviceNext
\* The supervision acts on a state that may have left STREAMING meanwhile.
<1>11. CASE IoDisable
  <2>1. CASE UNCHANGED state
    BY <1>11, <2>1 DEF IoDisable, wires, control, pins, commVars
  <2>2. CASE state' # state
    <3>1. Device!Expire
      BY <1>11, <2>2 DEF IoDisable, Device!Expire, wires, control, pins, commVars
    <3> QED BY <3>1 DEF Device!Next, Device!DeviceNext
  <2> QED BY <2>1, <2>2
<1>r. ASSUME state # "STREAMING", configured' \in BOOLEAN,
             UNCHANGED <<wires, state, commVars>>
      PROVE  Device!Next \/ UNCHANGED <<toDaqc, toHost, state, frame, configured>>
  <2>1. CASE configured' = configured
    BY <1>r, <2>1 DEF wires, commVars
  <2>2. CASE configured' = ~configured
    <3>1. Device!Reconfigure
      BY <1>r, <2>2 DEF Device!Reconfigure, wires, commVars
    <3> QED BY <3>1 DEF Device!Next, Device!DeviceNext
  <2> QED BY <1>0, <1>r, <2>1, <2>2
<1>12. CASE RosSetup
  <2>1. CASE UNCHANGED configured
    BY <1>12, <2>1 DEF RosSetup, wires, commVars
  <2>2. CASE RosConfigurable /\ configured' = FALSE
    BY <1>12, <1>r, <2>2 DEF RosSetup, RosConfigurable
  <2> QED BY <1>12, <2>1, <2>2 DEF RosSetup
<1>13. CASE RosRefuse
  BY <1>13 DEF RosRefuse, wires, pins, commVars
<1>14. CASE RosConfigure
  BY <1>0, <1>14, <1>r DEF RosConfigure, ConfigureInv, pins
<1>15. ASSUME NEW f \in HostFrame, HostWrite(f) PROVE Device!Next
  <2>1. Device!HostWrite(f)
    BY <1>15 DEF HostWrite, Device!HostWrite, control, pins, commVars
  <2> QED BY <2>1 DEF Device!Next
<1>16. CASE HostRead
  <2>1. Device!HostRead
    BY <1>16 DEF HostRead, Device!HostRead, control, pins, commVars
  <2> QED BY <2>1 DEF Device!Next
<1>17. CASE LineLoss
  <2>1. Device!LineLoss
    BY <1>17 DEF LineLoss, Device!LineLoss, control, pins, commVars
  <2> QED BY <2>1 DEF Device!Next
<1>18. CASE Tick \/ UNCHANGED vars
  BY <1>18 DEF Tick, vars, wires, control, pins, commVars
<1> QED
  BY <1>1, <1>2, <1>3, <1>4, <1>5, <1>6, <1>7, <1>8, <1>9, <1>10, <1>11, <1>12,
     <1>13, <1>14, <1>15, <1>16, <1>17, <1>18
  DEF Next, Comm, Io, Ros, HostActs

\* The firmware keeps the contract DaqLink composes with the host: what the
\* three tasks do to the wire, the state and the configuration are steps of
\* DaqDevice, for any line length and any schedule.
THEOREM FirmwareImplementsDevice == Spec => ImplementsDevice
<1>1. Init => Device!Init
  BY DeviceNames DEF Init, Device!Init, Device!DeviceInit
<1>2. FirmwareInv /\ [Next]_vars => [Device!Next]_Device!deviceVars
  BY DeviceStep
<1> QED BY <1>1, <1>2, FirmwareInvariant, PTL DEF Spec, ImplementsDevice, Device!Spec
=============================================================================
