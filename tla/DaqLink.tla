------------------------------ MODULE DaqLink ------------------------------
(***************************************************************************)
(* The host and the board over one UART: DaqHost composed with the board's *)
(* contract DaqDevice, session after session.  The board keeps its state,  *)
(* the frame its parser holds and its configuration between sessions,      *)
(* unless the host resets it when it opens the port.                       *)
(***************************************************************************)
EXTENDS DaqHost

VARIABLES state, held, configured

boardVars == <<state, held, configured>>
vars == <<toDaqc, toHost, hostVars, boardVars>>

Board == INSTANCE DaqDevice

HostSent == [mid : {"CONFIG"}, command : Commands]
              \union [mid : {"DATA", "READ_ACK", "XRCE"}]
BoardSent == [mid : {"CONFIG"}, command : Commands, status : Commands]
              \union [mid : {"DATA"}]

TypeOK ==
    /\ HostTypeOK
    /\ toDaqc \in Seq(HostSent) /\ Len(toDaqc) <= MaxWire
    /\ toHost \in Seq(BoardSent) /\ Len(toHost) <= MaxWire
    /\ state \in Commands
    /\ held \in HostSent \union {Board!NoFrame}
    /\ configured \in BOOLEAN

Init == /\ toDaqc = <<>> /\ toHost = <<>>
        /\ HostInit
        /\ Board!DeviceInit

HostStep == HostNext /\ UNCHANGED boardVars
BoardStep == Board!DeviceNext /\ UNCHANGED hostVars

\* DaqcRuntimeStart, with daqc_reset_before_start or without.
OpenSession == Open /\ (UNCHANGED <<toDaqc, boardVars>> \/ Board!Reset)

Next == OpenSession \/ HostStep \/ BoardStep

Spec == Init /\ [][Next]_vars

-----------------------------------------------------------------------------
(* Properties.                                                               *)

\* The commands that are queued, on the wire, or in the board's parser.
InFlight == {slot} \union {toDaqc[i].command :
                             i \in {j \in DOMAIN toDaqc : toDaqc[j].mid = "CONFIG"}}
                   \union (IF held.mid = "CONFIG" THEN {held.command} ELSE {})

\* No command but DISABLE is asked of the board before a DISABLE has been
\* confirmed on this opening of the port, although ConfirmDisable reads the
\* mode before the count and an answer to an earlier session's command may
\* arrive between the two reads.
BaselineFirst == slot \in {"ENABLE", "STREAMING"} => baseline

\* When the transition of DaqcRuntimeStop sees DISABLED, the board is in
\* DISABLE and no ENABLE or STREAMING is left anywhere that could wake it, so
\* it stays there until the next session.
StopConfirmedHolds ==
    (verdict = "confirmed" /\ pc \in {"close", "off"})
        => (state = "DISABLE" /\ InFlight \subseteq {"DISABLE", NoCommand})

\* Outputs and acknowledgements wait for transmission only while the link is
\* in STREAMING: none survives a confirmed change of state.
NothingLeftToSend == (output \/ ack) => mode = "STREAMING"

\* docs/contracts/interfaces.md: the end of a run, Stop and Error take the
\* board to DISABLE.  When DaqcRuntimeStop finds no transition to ask for, the
\* board is in DISABLE.
SkippedStopIsDisabled == (verdict = "skipped" /\ pc = "off") => state = "DISABLE"
=============================================================================
