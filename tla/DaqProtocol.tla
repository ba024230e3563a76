----------------------------- MODULE DaqProtocol -----------------------------
(***************************************************************************)
(* The frames of the serial line, as bytes: the two encoders and what the  *)
(* two parsers compute from the bytes they hold (src/daq_protocol.c on the *)
(* host, daqc_protocol.c on the board), and the order of 16-bit sequence   *)
(* numbers on either side.                                                 *)
(*                                                                         *)
(* The line has no checksum and no escaping: a frame is two sync bytes, a  *)
(* message identifier and a length that the identifier fixes or, for XRCE, *)
(* two bytes declare.  A byte is a number below Base (256 in the code), a  *)
(* 16-bit field a number below Base^2, so that wrap-around and the values  *)
(* a misread field can take are those of the code at a smaller size.       *)
(***************************************************************************)
EXTENDS Integers, Sequences, SequencesExt

CONSTANTS
    Base,                   \* number of byte values
    SyncFirst, SyncSecond,  \* DAQ_PROTOCOL_SYNC_FIRST, _SECOND
    Mtu,                    \* DAQ_PROTOCOL_XRCE_MTU
    DataSize                \* payload of a DATA frame in either direction

ASSUME ProtocolAssumption ==
    /\ Base \in Nat /\ Base > 4
    /\ {SyncFirst, SyncSecond} \subseteq 5..(Base - 1) /\ SyncFirst # SyncSecond
    /\ Mtu \in Nat \ {0} /\ DataSize \in Nat \ {0}

Byte == 0..(Base - 1)
Width == Base * Base

CONFIG == 1
DATA == 2
READ_ACK == 3
XRCE == 4
CommandBytes == 1..3        \* DISABLE, ENABLE, STREAMING

\* Little-endian 16-bit fields.
ReadLe16(bytes) == bytes[1] + Base * bytes[2]
WriteLe16(value) == <<value % Base, value \div Base>>

\* A frame is its identifier and the bytes that follow it, the XRCE length
\* excepted.
Encode(frame) ==
    <<SyncFirst, SyncSecond, frame.mid>>
    \o (IF frame.mid = XRCE THEN WriteLe16(Len(frame.body)) ELSE <<>>)
    \o frame.body

\* The frame at the head of a buffer, of the given size.
Decode(buffer, size) ==
    [mid |-> buffer[3],
     body |-> SubSeq(buffer, IF buffer[3] = XRCE THEN 6 ELSE 4, size)]

SyncAt(buffer, i) == buffer[i] = SyncFirst /\ buffer[i + 1] = SyncSecond

FindSync_DropsHalf(buffer) ==
    LET pairs == {i \in 1..(Len(buffer) - 1) : SyncAt(buffer, i)}
    IN  IF Len(buffer) < 2 THEN 0
        ELSE IF pairs = {} THEN Len(buffer)
        ELSE (CHOOSE i \in pairs : \A j \in pairs : i <= j) - 1

\* FindSync: how many bytes precede the first sync pair; with no pair, all
\* but the last byte, which may be the first half of one.
FindSync(buffer) ==
    LET pairs == {i \in 1..(Len(buffer) - 1) : SyncAt(buffer, i)}
    IN  IF Len(buffer) < 2 THEN 0
        ELSE IF pairs = {} THEN Len(buffer) - 1
        ELSE (CHOOSE i \in pairs : \A j \in pairs : i <= j) - 1

\* FrameLength of the host, FrameSize of the board: 0 while the length is not
\* known yet, 1 when no frame can start here.  CONFIG carries a status only
\* towards the host; the board refuses a length above the MTU where the host
\* compares the frame with its buffer.
FrameSize(buffer, toHost) ==
    LET mid == buffer[3]
        declared == ReadLe16(SubSeq(buffer, 4, 5))
    IN  IF Len(buffer) < 3 \/ (mid = XRCE /\ Len(buffer) < 5) THEN 0
        ELSE CASE mid = CONFIG -> IF toHost THEN 5 ELSE 4
               [] mid = DATA -> 5 + DataSize
               [] mid = READ_ACK -> 5
               [] mid = XRCE /\ (toHost \/ declared <= Mtu) -> 5 + declared
               [] OTHER -> 1

-----------------------------------------------------------------------------
(***************************************************************************)
(* Sequence numbers.                                                       *)
(***************************************************************************)
Distance(sequence, previous) == (sequence - previous) % Width

\* DaqSequenceTrack: the relation of a sequence number to the tracker, a
\* record of initialized, last_sequence and missing_frames.
Relation(tracker, sequence) ==
    CASE ~tracker.initialized -> "FIRST"
      [] tracker.initialized /\ Distance(sequence, tracker.last) = 0 -> "DUPLICATE"
      [] tracker.initialized /\ Distance(sequence, tracker.last) >= Width \div 2 -> "OLD"
      [] tracker.initialized /\ Distance(sequence, tracker.last) = 1 -> "EXPECTED"
      [] OTHER -> "GAP"

Accepted(tracker, sequence) ==
    Relation(tracker, sequence) \in {"FIRST", "EXPECTED", "GAP"}

NewTracker == [initialized |-> FALSE, last |-> 0, missing |-> 0]

Track_CountsDistance(tracker, sequence) ==
    CASE Relation(tracker, sequence) = "FIRST" ->
            [tracker EXCEPT !.initialized = TRUE, !.last = sequence]
      [] Relation(tracker, sequence) = "EXPECTED" ->
            [tracker EXCEPT !.last = sequence]
      [] Relation(tracker, sequence) = "GAP" ->
            [tracker EXCEPT !.last = sequence,
                            !.missing = @ + Distance(sequence, tracker.last)]
      [] OTHER -> tracker

Track(tracker, sequence) ==
    CASE Relation(tracker, sequence) = "FIRST" ->
            [tracker EXCEPT !.initialized = TRUE, !.last = sequence]
      [] Relation(tracker, sequence) \in {"EXPECTED", "GAP"} ->
            [tracker EXCEPT !.last = sequence,
                            !.missing = @ + Distance(sequence, tracker.last) - 1]
      [] OTHER -> tracker
=============================================================================
