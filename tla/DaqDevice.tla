----------------------------- MODULE DaqDevice -----------------------------
(***************************************************************************)
(* What the acquisition board promises to the host over the UART: the      *)
(* contract between daq_coordinator.c / daq_state_control.c on one side    *)
(* and the ESP32 firmware on the other.  The board                         *)
(*                                                                         *)
(*  - obeys only the CONFIG command it has taken from the wire, possibly   *)
(*    not at all and possibly more than once, but never after it has       *)
(*    moved on to a later frame;                                           *)
(*  - answers a CONFIG frame with the state it is in when it answers;      *)
(*  - enters STREAMING only while its I/O is configured;                   *)
(*  - changes state on its own only towards DISABLE;                       *)
(*  - may lose frames and answers, and never reorders them.                *)
(*                                                                         *)
(* DaqcFirmware implements this specification, and DaqLink composes it     *)
(* with the host.                                                          *)
(***************************************************************************)
EXTENDS Naturals, Sequences

CONSTANT MaxWire  \* bound on the frames in flight in each direction

VARIABLES toDaqc,      \* frames on the UART, host to board
          toHost,      \* frames on the UART, board to host
          state,       \* control->state
          held,        \* frame the board's parser is handling, or NoFrame
          configured   \* the board's I/O is configured

deviceVars == <<toDaqc, toHost, state, held, configured>>

NoFrame == [mid |-> "none"]

Commands == {"DISABLE", "ENABLE", "STREAMING"}

CommandByte == Commands \union {"other"}

HostFrame == [mid : {"CONFIG"}, command : CommandByte]
               \union [mid : {"DATA", "READ_ACK", "XRCE"}]

Confirmation(c, s) == [mid |-> "CONFIG", command |-> c, status |-> s]

\* What is left of the queue q once its first n frames are gone.
Without(q, n) == SubSeq(q, n + 1, Len(q))

\* The queue q once frame f has been written to it: the frame arrives, or the
\* line loses it (always so when q is full).
Written(q, f) == {q} \union (IF Len(q) < MaxWire THEN {Append(q, f)} ELSE {})

DeviceInit ==
    /\ state = "DISABLE"
    /\ held = NoFrame
    /\ configured = FALSE

Take ==
    /\ held = NoFrame
    /\ toDaqc # <<>>
    /\ held' = Head(toDaqc)
    /\ toDaqc' = Tail(toDaqc)
    /\ UNCHANGED <<toHost, state, configured>>

Obey ==
    /\ held.mid = "CONFIG"
    /\ held.command \in Commands
    /\ held.command = "STREAMING" => configured
    /\ state' = held.command
    /\ UNCHANGED <<toDaqc, toHost, held, configured>>

Reply ==
    /\ held.mid = "CONFIG"
    /\ toHost' \in Written(toHost, Confirmation(held.command, state))
    /\ held' = NoFrame
    /\ UNCHANGED <<toDaqc, state, configured>>

Dismiss ==
    /\ held # NoFrame /\ held.mid # "CONFIG"
    /\ held' = NoFrame
    /\ UNCHANGED <<toDaqc, toHost, state, configured>>

\* The handler of the held frame failed: the frame stays and input behind it
\* is lost.
Overrun ==
    /\ held # NoFrame
    /\ \E n \in 0..Len(toDaqc) : toDaqc' = Without(toDaqc, n)
    /\ UNCHANGED <<toHost, state, held, configured>>

\* A sample, sent while streaming or a little later: between taking it and
\* sending it the board may have been disabled and reconfigured.
Sample ==
    /\ toHost' \in Written(toHost, [mid |-> "DATA"])
    /\ UNCHANGED <<toDaqc, state, held, configured>>

\* The read supervision.  It decides in STREAMING and acts a little later, so
\* it may also undo the command that arrived in between.
Expire ==
    /\ state # "DISABLE"
    /\ state' = "DISABLE"
    /\ UNCHANGED <<toDaqc, toHost, held, configured>>

Reconfigure ==
    /\ state # "STREAMING"
    /\ configured' = ~configured
    /\ UNCHANGED <<toDaqc, toHost, state, held>>

\* The host pulses the reset line (DaqTtyResetDaqc): the firmware starts anew.
Reset ==
    /\ toDaqc' = <<>>
    /\ state' = "DISABLE"
    /\ held' = NoFrame
    /\ configured' = FALSE

DeviceNext ==
    \/ Take \/ Obey \/ Reply \/ Dismiss \/ Overrun
    \/ Sample \/ Expire \/ Reconfigure

-----------------------------------------------------------------------------
(* The environment of a board on its own: a host that may write any frame    *)
(* and reads at its own pace, and a line that loses frames.                   *)

HostWrite(f) ==
    /\ Len(toDaqc) < MaxWire
    /\ toDaqc' = Append(toDaqc, f)
    /\ UNCHANGED <<toHost, state, held, configured>>

HostRead ==
    /\ toHost # <<>>
    /\ toHost' = Tail(toHost)
    /\ UNCHANGED <<toDaqc, state, held, configured>>

LineLoss ==
    /\ toDaqc # <<>>
    /\ toDaqc' = Tail(toDaqc)
    /\ UNCHANGED <<toHost, state, held, configured>>

Init == toDaqc = <<>> /\ toHost = <<>> /\ DeviceInit

Next == \/ DeviceNext
        \/ \E f \in HostFrame : HostWrite(f)
        \/ HostRead
        \/ LineLoss

Spec == Init /\ [][Next]_deviceVars
=============================================================================
