----------------------------- MODULE SerialLine -----------------------------
(***************************************************************************)
(* The serial line byte by byte, in the direction a behaviour starts with: *)
(*                                                                         *)
(*   toHost   the board's frames, the host's parser (daq_protocol.c), and  *)
(*            what the coordinator does with each frame;                   *)
(*   ~toHost  the micro-ROS agent's datagrams through the UDP bridge and   *)
(*            the coordinator's XRCE queue, CONFIG, READ_ACK and DATA      *)
(*            ahead of them, the board's parser (daqc_protocol.c) and the  *)
(*            stream buffer micro-ROS reads from (daqc_transport.c).       *)
(*                                                                         *)
(* A read returns any part of what is on the line; at most one byte is     *)
(* lost on it (no flow control, no checksum, no retransmission).           *)
(***************************************************************************)
EXTENDS DaqProtocol

CONSTANTS
    HostFrames,     \* the frames the board may send besides DATA
    DataPayloads,   \* the payloads of DATA, in either direction
    FirstSequence,  \* sequence number of the first DATA of the run
    Datagrams,      \* the datagrams the agent may send
    QueueDepth,     \* DAQ_COORDINATOR_XRCE_QUEUE_DEPTH
    DaqcFrameMax,   \* size of the board's parser buffer
    MaxFrames,      \* bound: frames put on the line
    MaxDatagrams    \* bound: datagrams received from the agent

ASSUME LineAssumption ==
    /\ FirstSequence \in 0..(Width - 1)
    /\ QueueDepth \in Nat \ {0}
    /\ DaqcFrameMax \in Nat /\ DaqcFrameMax >= 5 + Mtu /\ DaqcFrameMax >= 5 + DataSize
    /\ {MaxFrames, MaxDatagrams} \subseteq Nat

\* Payloads and datagrams are bytes, and the encoders of either side write a
\* body of the size their constants fix.
ASSUME FramesAssumption ==
    /\ HostFrames \subseteq [mid : {CONFIG, XRCE}, body : Seq(Byte)]
    /\ \A frame \in HostFrames :
          IF frame.mid = XRCE THEN Len(frame.body) <= Mtu ELSE Len(frame.body) = 2
    /\ DataPayloads \subseteq Seq(Byte)
    /\ \A payload \in DataPayloads : Len(payload) = DataSize
    /\ Datagrams \subseteq Seq(Byte)

VARIABLES
    toHost,     \* the direction
    wire,       \* bytes on the line
    chunk,      \* bytes of the last read, not yet fed to the parser
    buf,        \* the parser's buffer
    scanning,   \* the parser is in its loop over the buffer
    \* host
    mode, tracker,          \* daq_link_state_t
    queue,                  \* the coordinator's XRCE queue
    \* board
    sequence,               \* g_sequence
    stream,                 \* g_xrce_stream
    \* history
    sent, delivered,        \* frames put on the line, frames handled
    lossAt,                 \* place of the lost byte in all the bytes sent
    refused,                \* has the board refused a payload?
    dropped,                \* has it then thrown away bytes it was given?
    received,               \* datagrams taken in by the queue
    accepted                \* sequence numbers of the DATA the host took

parser == <<wire, chunk, buf, scanning>>
host == <<mode, tracker, queue>>
board == <<sequence, stream>>
history == <<lossAt, refused, dropped, received, accepted>>
lineVars == <<toHost, parser, host, board, sent, delivered, history>>

Frame(mid, body) == [mid |-> mid, body |-> body]
Bytes(frames) == FlattenSeq([k \in 1..Len(frames) |-> Encode(frames[k])])

LineInit ==
    /\ toHost \in BOOLEAN
    /\ wire = <<>> /\ chunk = <<>> /\ buf = <<>> /\ scanning = FALSE
    /\ mode = 3 /\ tracker = NewTracker
    /\ queue = <<>>
    /\ sequence = FirstSequence /\ stream = <<>>
    /\ sent = <<>> /\ delivered = <<>>
    /\ lossAt = 0 /\ refused = FALSE /\ dropped = FALSE
    /\ received = <<>> /\ accepted = <<>>

-----------------------------------------------------------------------------
(***************************************************************************)
(* Sending.                                                                *)
(***************************************************************************)
Put(frame) ==
    /\ Len(sent) < MaxFrames
    /\ sent' = Append(sent, frame)
    /\ wire' = wire \o Encode(frame)
    /\ UNCHANGED <<toHost, chunk, buf, scanning, delivered>>

\* The board's answers and XRCE frames, and IoTask's acquisitions: a number is
\* used up even when SendFrame gives up waiting for the mutex.
SendFromBoard ==
    /\ toHost
    /\ \/ \E frame \in HostFrames : Put(frame) /\ UNCHANGED sequence
       \/ /\ Distance(sequence, FirstSequence) < MaxFrames
          /\ sequence' = (sequence + 1) % Width
          /\ \/ \E payload \in DataPayloads :
                   Put(Frame(DATA, WriteLe16(sequence) \o payload))
             \/ UNCHANGED <<toHost, parser, sent, delivered>>
    /\ UNCHANGED <<host, stream, history>>

\* ReceiveFromAgent: a datagram above the MTU, or one that finds the queue
\* full, is counted as rejected; what the queue holds is never replaced.
ReceiveFromAgent ==
    /\ ~toHost /\ Len(received) < MaxDatagrams
    /\ \E datagram \in Datagrams :
          /\ Len(datagram) <= Mtu /\ Len(queue) < QueueDepth
          /\ received' = Append(received, datagram)
          /\ queue' = Append(queue, datagram)
    /\ UNCHANGED <<toHost, parser, mode, tracker, board,
                   sent, delivered, lossAt, refused, dropped, accepted>>

\* DaqCoordinatorTakeTransmit and the write: CONFIG, READ_ACK or DATA when one
\* is pending, which is up to the rest of the host (DaqHost), and otherwise the
\* oldest datagram of the queue.
Urgent ==
    \/ Put(Frame(CONFIG, <<1>>))
    \/ Put(Frame(READ_ACK, WriteLe16(FirstSequence)))
    \/ \E payload \in DataPayloads : Put(Frame(DATA, WriteLe16(FirstSequence) \o payload))

TakeTransmit_Newest ==
    /\ ~toHost
    /\ \/ Urgent /\ UNCHANGED queue
       \/ queue # <<>> /\ Put(Frame(XRCE, Last(queue))) /\ queue' = Front(queue)
    /\ UNCHANGED <<mode, tracker, board, history>>

TakeTransmit ==
    /\ ~toHost
    /\ \/ Urgent /\ UNCHANGED queue
       \/ /\ queue # <<>> /\ Put(Frame(XRCE, Head(queue)))
          /\ queue' = Tail(queue)
    /\ UNCHANGED <<mode, tracker, board, history>>

\* One byte is lost on the line.
LoseByte ==
    /\ lossAt = 0 /\ wire # <<>>
    /\ wire' = Tail(wire)
    /\ lossAt' = Len(Bytes(sent)) - Len(wire) + 1
    /\ UNCHANGED <<toHost, chunk, buf, scanning, host, board, sent, delivered,
                   refused, dropped, received, accepted>>

-----------------------------------------------------------------------------
(***************************************************************************)
(* The parsers, one byte and one turn of their loop at a time.             *)
(***************************************************************************)
\* Where a read ends only matters to the board, which may throw the rest of
\* one away.
Read ==
    /\ chunk = <<>> /\ ~scanning /\ wire # <<>>
    /\ \E n \in IF toHost THEN {1} ELSE 1..Len(wire) :
          /\ chunk' = SubSeq(wire, 1, n)
          /\ wire' = SubSeq(wire, n + 1, Len(wire))
    /\ UNCHANGED <<toHost, buf, scanning, host, board, sent, delivered, history>>

LargestFrame == 5 + IF DataSize > Mtu THEN DataSize ELSE Mtu

HostCapacity_NoLength == LargestFrame - 2
HostCapacity == LargestFrame
Capacity == IF toHost THEN HostCapacity ELSE DaqcFrameMax

\* The next byte joins the buffer; a full buffer gives up its first byte.
FeedByte ==
    /\ chunk # <<>> /\ ~scanning
    /\ buf' = Append(IF Len(buf) = Capacity THEN Tail(buf) ELSE buf, Head(chunk))
    /\ chunk' = Tail(chunk) /\ scanning' = TRUE
    /\ dropped' = (dropped \/ (refused /\ Len(buf) = Capacity))
    /\ UNCHANGED <<toHost, wire, host, board, sent, delivered, lossAt, refused,
                   received, accepted>>

Discard(n) ==
    /\ n > 0
    /\ buf' = SubSeq(buf, n + 1, Len(buf))
    /\ UNCHANGED <<toHost, wire, chunk, scanning, host, board, sent, delivered, history>>

\* Bytes in front of the sync pair; the board drops them one by one, and only
\* once it has three.
Misplaced ==
    IF toHost THEN FindSync(buf)
    ELSE IF Len(buf) >= 3 /\ ~SyncAt(buf, 1) THEN 1 ELSE 0

Resync == scanning /\ Discard(Misplaced)

Size == FrameSize(buf, toHost)

TooLong == Size > Capacity
Synced == scanning /\ Misplaced = 0 /\ Len(buf) >= 3

\* An unknown identifier, or a length that cannot be one.
Reject == Synced /\ (Size = 1 \/ TooLong) /\ Discard(1)

\* The frame, or its length, is not complete: the loop is left.
NeedMore ==
    /\ scanning /\ Misplaced = 0
    /\ Len(buf) < 3 \/ (Size # 1 /\ ~TooLong /\ (Size = 0 \/ Len(buf) < Size))
    /\ scanning' = FALSE
    /\ UNCHANGED <<toHost, wire, chunk, buf, host, board, sent, delivered, history>>

Complete == Synced /\ Size > 1 /\ ~TooLong /\ Len(buf) >= Size
Current == Decode(buf, Size)

Consume ==
    /\ buf' = SubSeq(buf, Size + 1, Len(buf))
    /\ delivered' = Append(delivered, Current)
    /\ UNCHANGED <<toHost, wire, chunk, scanning, sent>>

\* ProcessFrame of the coordinator, DaqLinkStateConfirm for CONFIG,
\* DaqLinkStateAcceptAcquisition for DATA; XRCE goes to the bridge
\* and from there to the agent or nowhere.  Every frame is consumed.
Confirms(command, status) ==
    command \in CommandBytes /\ status = command /\ (command = 3 => mode # 1)

HostHandles ==
    /\ toHost /\ Complete /\ Consume
    /\ LET body == Current.body
           confirms == Current.mid = CONFIG /\ Confirms(body[1], body[2])
           takes == /\ Current.mid = DATA /\ mode = 3
                    /\ Accepted(tracker, ReadLe16(body))
       IN  /\ mode' = IF confirms THEN body[1] ELSE mode
           /\ tracker' = IF confirms THEN NewTracker
                         ELSE IF Current.mid = DATA /\ mode = 3
                         THEN Track(tracker, ReadLe16(body)) ELSE tracker
           /\ accepted' = IF confirms THEN <<>>
                          ELSE IF takes THEN Append(accepted, ReadLe16(body))
                          ELSE accepted
    /\ UNCHANGED <<queue, board, lossAt, refused, dropped, received>>

\* ProcessFrame of the board for the frames that are always consumed; what
\* CONFIG, DATA and READ_ACK do is DaqcFirmware's subject.
BoardHandles ==
    /\ ~toHost /\ Complete /\ Current.mid # XRCE /\ Consume
    /\ UNCHANGED <<host, board, history>>

\* DaqcTransportAcceptXrce: the stream buffer takes what it has room for.  A
\* payload that does not fit whole is refused, part of it stored: the frame
\* stays in the buffer and the rest of this read is thrown away.
Room == Mtu - Len(stream)

AcceptXrce ==
    /\ ~toHost /\ Complete /\ Current.mid = XRCE
    /\ Len(Current.body) <= Room /\ Consume
    /\ stream' = stream \o Current.body
    /\ UNCHANGED <<host, sequence, history>>

RefuseXrce ==
    /\ ~toHost /\ Complete /\ Current.mid = XRCE
    /\ Len(Current.body) > Room
    /\ stream' = stream \o SubSeq(Current.body, 1, Room)
    /\ chunk' = <<>> /\ scanning' = FALSE
    /\ refused' = TRUE /\ dropped' = (dropped \/ chunk # <<>>)
    /\ UNCHANGED <<toHost, wire, buf, host, sequence, sent, delivered, lossAt,
                   received, accepted>>

\* DaqcTransportRead: micro-ROS takes what is there, up to its buffer.
TransportRead ==
    /\ stream # <<>> /\ stream' = <<>>
    /\ UNCHANGED <<toHost, parser, host, sequence, sent, delivered, history>>

Parse == FeedByte \/ Resync \/ Reject \/ NeedMore \/ HostHandles
         \/ BoardHandles \/ AcceptXrce \/ RefuseXrce

LineNext == \/ SendFromBoard \/ ReceiveFromAgent \/ TakeTransmit
        \/ LoseByte \/ Read \/ Parse \/ TransportRead

LineSpec == LineInit /\ [][LineNext]_lineVars

-----------------------------------------------------------------------------
(***************************************************************************)
(* Properties.                                                             *)
(***************************************************************************)
Aligned == lossAt = 0 /\ ~dropped

\* While no byte is lost on the line or thrown away after a refusal, the handlers
\* get the frames that were sent, in order, none invented and none skipped,
\* however reads cut the bytes, even when a payload or a sequence number looks
\* like a sync pair and even when the board refused a payload; what is not
\* handled yet is still held.
LosslessInOrder ==
    Aligned => /\ IsPrefix(delivered, sent)
               /\ Bytes(sent) = Bytes(delivered) \o buf \o chunk \o wire

\* The only sync pairs in what was sent are those that start a frame.
Starts == {Len(Bytes(SubSeq(sent, 1, k))) + 1 : k \in 0..(Len(sent) - 1)}
Clean == \A i \in 1..(Len(Bytes(sent)) - 1) : SyncAt(Bytes(sent), i) => i \in Starts

\* A lost byte does bounded harm on a line whose only sync pairs are those that
\* start its frames: once it is drained, every frame that begins more than one
\* largest frame after the loss has been handled, unchanged.  Only a refused
\* payload, with which the rest of a read may go, is left out.
DamageIsLocal ==
    (lossAt > 0 /\ ~refused /\ Clean /\ wire = <<>> /\ chunk = <<>> /\ ~scanning) =>
        LET spared == {k \in 1..Len(sent) :
                         Len(Bytes(SubSeq(sent, 1, k - 1))) >= lossAt + LargestFrame}
            n == Len(sent) - (IF spared = {} THEN Len(sent)
                              ELSE (CHOOSE k \in spared : \A j \in spared : k <= j) - 1)
        IN  IsSuffix(SubSeq(sent, Len(sent) - n + 1, Len(sent)), delivered)

\* As long as every frame handled is one that was sent, the host's count of
\* missing frames is exact: taken and missing frames together are the span of
\* sequence numbers from the first to the last one taken, at the wrap too.
GapsAreCounted ==
    (toHost /\ accepted # <<>> /\ \A k \in 1..Len(delivered) : \E j \in 1..Len(sent) :
        delivered[k] = sent[j]) =>
        tracker.missing + Len(accepted) =
            Distance(Last(accepted), Head(accepted)) + 1

\* The datagrams among the frames.
Carried(frames) ==
    FlattenSeq([k \in 1..Len(frames) |->
                  IF frames[k].mid = XRCE THEN <<frames[k].body>> ELSE <<>>])

\* daq_coordinator.c, daqc_transport.c: as long as no byte is lost or thrown
\* away, what reaches micro-ROS next is the datagram the queue took in next: the
\* queue overwrites none, no CONFIG flushes it and none overtakes another.  It
\* is handled once it was given whole; each time the stream buffer has no room
\* for all of it, the beginning that had room is given, and given again with
\* the next attempt.
DatagramsArriveInOrder ==
    [][Aligned /\ Len(stream') > Len(stream) =>
         LET n == Len(Carried(delivered))
             given == SubSeq(stream', Len(stream) + 1, Len(stream'))
         IN  /\ n < Len(received) /\ IsPrefix(given, received[n + 1])
             /\ delivered' # delivered => given = received[n + 1]]_lineVars
=============================================================================
