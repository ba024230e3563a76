--------------------------- MODULE DaqLinkProofs ---------------------------
(***************************************************************************)
(* Proofs about DaqLink.  Everything between the caller and the link mode  *)
(* is one pipe: the answers on the wire, the frame the board holds, the    *)
(* commands on the wire and the slot of the coordinator.  Nothing in it is *)
(* reordered, so what a confirmation says about the frames behind it can   *)
(* be stated by their places alone.  The places are numbered from the      *)
(* board's parser outwards: 0 is the held frame, 1 and up the commands     *)
(* still to be taken, the slot last, -1 and down the answers, the oldest   *)
(* of which is the first the host reads.                                   *)
(***************************************************************************)
EXTENDS DaqLink, Integers, SequenceTheorems, TLAPS

Request(c) == [mid |-> "CONFIG", command |-> c]
Answer(c) == Board!Confirmation(c, c)

Places == (0 - Len(toHost))..(Len(toDaqc) + 1)

\* At place p is a command of the set S, or an answer that confirms one.
At(p, S) ==
    \/ p < 0 /\ \E c \in S : toHost[Len(toHost) + 1 + p] = Answer(c)
    \/ p = 0 /\ \E c \in S : held = Request(c)
    \/ p \in 1..Len(toDaqc) /\ \E c \in S : toDaqc[p] = Request(c)
    \/ p = Len(toDaqc) + 1 /\ slot \in S

Wake == {"ENABLE", "STREAMING"}
Sleep == {"DISABLE"}

\* No command of S anywhere in the pipe.
None(S) == \A p \in Places : ~At(p, S)

\* No command of T behind one of S.
NoneBehind(S, T) == \A p, q \in Places : p < q => ~(At(p, S) /\ At(q, T))

\* The stages of DaqcRuntimeStart after the baseline.
Started == {"enable", "setup", "play", "streaming"}

\* Only a session with its worker running has a command pending.
CallerInv ==
    /\ worker = "running" => pc # "off"
    /\ pc = "off" => slot = NoCommand
    /\ pc # "off" /\ answered /\ mode = "DISABLE" => baseline
    /\ pc = "enter" => answered
    /\ pc \in Started => baseline
    /\ slot \in Wake => baseline

\* In which order commands can follow one another in the pipe: a session
\* sends DISABLE, then ENABLE and STREAMING, then DISABLE, and only the frame
\* kept from an earlier session can be ahead of its first DISABLE.
OrderInv ==
    /\ \A p, q, r \in Places :
         p < q /\ q < r => ~(At(p, Wake) /\ At(q, Sleep) /\ At(r, Wake))
    /\ mode # "DISABLE" \/ ~baseline => NoneBehind(Sleep, Wake)
    /\ pc \in Started => NoneBehind(Wake, Sleep)
    /\ pc \in Started /\ mode # "DISABLE" => None(Sleep)
    /\ pc \in {"count", "baseline", "enter"} /\ baseline => None(Wake)

\* The confirmation of DISABLE on its way, when no ENABLE can be behind it, is
\* of the state the board is still in.
StateInv ==
    \A p \in Places :
      /\ p < 0 /\ At(p, Sleep)
      /\ mode # "DISABLE" \/ ~baseline
           \/ \E q \in Places : q < p /\ At(q, Wake)
      => state = "DISABLE"

StoppedInv ==
    \/ pc = "stopping" /\ mode = "DISABLE"
    \/ pc \in {"close", "off"} /\ verdict = "confirmed"
    => None(Wake) /\ state = "DISABLE"

-----------------------------------------------------------------------------
(* Types.                                                                    *)

\* What a write leaves on the wire.
LEMMA WrittenType ==
    ASSUME NEW F, NEW q \in Seq(F), Len(q) <= MaxWire, NEW f \in F,
           NEW r \in Written(q, f)
    PROVE  r \in Seq(F) /\ Len(r) <= MaxWire
  BY WireAssumption DEF Written

\* Host and board write to their lines alike.
LEMMA BoardWritten == \A q, f : Board!Written(q, f) = Written(q, f)
  BY DEF Board!Written, Written

\* The two kinds of frame, by their identifier.
LEMMA FrameKinds ==
    /\ \A f \in HostSent : f.mid = "CONFIG" => f.command \in Commands /\ f = Request(f.command)
    /\ \A f \in BoardSent : f.mid = "CONFIG" =>
          /\ f.command \in Commands /\ f.status \in Commands
          /\ f = Board!Confirmation(f.command, f.status)
    /\ Board!NoFrame.mid # "CONFIG"
    /\ \A c \in Commands : Request(c) \in HostSent
    /\ \A c, s \in Commands : Board!Confirmation(c, s) \in BoardSent
    /\ \A c, d : Request(c) = Request(d) => c = d
    /\ \A c, s, d : Board!Confirmation(c, s) = Answer(d) => c = d /\ s = d
  BY DEF HostSent, BoardSent, Request, Answer, Board!Confirmation, Board!NoFrame

\* Every step of the host keeps the types.
LEMMA HostTypes ==
    ASSUME TypeOK, HostStep
    PROVE  TypeOK'
PROOF
  <1> USE DEF TypeOK, HostTypeOK, NoCommand, Commands, boardVars
  <1>b. UNCHANGED boardVars
    BY DEF HostStep
  <1>1. CASE ReceiveConfirmation
    <2> USE FrameKinds
    <2>1. Head(toHost) \in BoardSent /\ Tail(toHost) \in Seq(BoardSent)
          /\ Len(Tail(toHost)) <= MaxWire
      BY <1>1, WireAssumption DEF ReceiveConfirmation
    <2>2. mode' \in Commands
      BY <1>1, <2>1 DEF ReceiveConfirmation, Accepts
    <2>3. output' \in BOOLEAN /\ ack' \in BOOLEAN /\ answered' \in BOOLEAN
          /\ baseline' \in BOOLEAN
      BY <1>1 DEF ReceiveConfirmation, Kept
    <2> QED
      BY <1>1, <1>b, <2>1, <2>2, <2>3 DEF ReceiveConfirmation
  <1>2. CASE ReceiveData
    <2>1. Tail(toHost) \in Seq(BoardSent) /\ Len(Tail(toHost)) <= MaxWire
      BY <1>2, WireAssumption DEF ReceiveData
    <2>2. ack' \in BOOLEAN
      BY <1>2 DEF ReceiveData
    <2> QED
      BY <1>2, <1>b, <2>1, <2>2 DEF ReceiveData, callerVars
  <1>3. CASE Transmit
    <2>1. /\ CommandPending => Request(slot) \in HostSent
          /\ [mid |-> "READ_ACK"] \in HostSent
          /\ [mid |-> "DATA"] \in HostSent
          /\ [mid |-> "XRCE"] \in HostSent
      BY DEF CommandPending, Request, HostSent
    <2>2. toDaqc' \in Seq(HostSent) /\ Len(toDaqc') <= MaxWire
      BY <1>3, <2>1, WrittenType DEF Transmit, Request
    <2>3. slot' \in Commands \union {NoCommand} /\ ack' \in BOOLEAN /\ output' \in BOOLEAN
      BY <1>3 DEF Transmit
    <2> QED
      BY <1>3, <1>b, <2>2, <2>3 DEF Transmit, callerVars
  <1>4. CASE WorkerDies
    BY <1>4, <1>b DEF WorkerDies, coordVars, callerVars
  <1>5. CASE PublishOutput
    BY <1>5, <1>b DEF PublishOutput, callerVars
  <1>6. CASE BaselineCount \/ BaselineReadMode
    <2>1. CASE BaselineCount
      <3>1. UNCHANGED <<toDaqc, toHost, worker, slot, mode, output, ack, seen, baseline,
                        verdict, state, held, configured>>
        BY <1>b, <2>1 DEF BaselineCount, coordVars
      <3>2. answered' = FALSE /\ pc' = "baseline"
        BY <2>1 DEF BaselineCount
      <3>3. HostTypeOK'
        BY ZenonT(60), <3>1, <3>2
      <3> QED BY <3>1, <3>3
    <2>2. CASE BaselineReadMode
      BY <1>b, <2>2 DEF BaselineReadMode, coordVars
    <2> QED BY <1>6, <2>1, <2>2
  <1>7. CASE BaselineCheck
    BY <1>7, <1>b DEF BaselineCheck, Queue
  <1>8. CASE TransitionEnter
    BY <1>8, <1>b DEF TransitionEnter, coordVars
  <1>9. CASE PollEnable
    BY <1>9, <1>b DEF PollEnable, Poll, Queue
  <1>10. CASE FinishSetup
    BY <1>10, <1>b DEF FinishSetup, coordVars
  <1>11. CASE PollPlay
    BY <1>11, <1>b DEF PollPlay, Poll, Queue
  <1>12. CASE EndRun
    BY <1>12, <1>b DEF EndRun, coordVars
  <1>13. CASE StopEnter
    BY <1>13, <1>b DEF StopEnter, coordVars
  <1>14. CASE PollStop
    BY <1>14, <1>b DEF PollStop, Poll, Queue
  <1>15. CASE Close
    BY ZenonT(60), <1>15, <1>b DEF Close
  <1> QED
    BY <1>1, <1>2, <1>3, <1>4, <1>5, <1>6, <1>7, <1>8, <1>9, <1>10, <1>11,
       <1>12, <1>13, <1>14, <1>15
       DEF HostStep, HostNext, Worker, Caller

\* Every step of the board, and the opening of a session, keep the types.
LEMMA BoardTypes ==
    ASSUME TypeOK, BoardStep
    PROVE  TypeOK'
PROOF
  <1> USE DEF TypeOK, HostTypeOK, Commands, hostVars
  <1>b. UNCHANGED hostVars
    BY DEF BoardStep
  <1>1. CASE Board!Take
    <2>1. Head(toDaqc) \in HostSent /\ Tail(toDaqc) \in Seq(HostSent)
          /\ Len(Tail(toDaqc)) <= MaxWire
      BY <1>1, WireAssumption DEF Board!Take
    <2> QED
      BY <1>1, <1>b, <2>1 DEF Board!Take
  <1>2. CASE Board!Obey
    BY <1>2, <1>b DEF Board!Obey, Board!Commands
  <1>3. CASE Board!Reply
    <2>1. held \in HostSent
      BY <1>3, FrameKinds DEF Board!Reply
    <2>2. Board!Confirmation(held.command, state) \in BoardSent
      BY <1>3, <2>1, FrameKinds DEF Board!Reply
    <2>3. toHost' \in Seq(BoardSent) /\ Len(toHost') <= MaxWire
      BY <1>3, <2>2, WrittenType, BoardWritten DEF Board!Reply
    <2> QED
      BY <1>3, <1>b, <2>3 DEF Board!Reply
  <1>4. CASE Board!Dismiss
    BY <1>4, <1>b DEF Board!Dismiss
  <1>5. CASE Board!Overrun
    <2>1. PICK n \in 0..Len(toDaqc) : toDaqc' = SubSeq(toDaqc, n + 1, Len(toDaqc))
      BY <1>5 DEF Board!Overrun, Board!Without
    <2>2. toDaqc' \in Seq(HostSent) /\ Len(toDaqc') <= MaxWire
      BY <2>1, WireAssumption
    <2> QED
      BY <1>5, <1>b, <2>2 DEF Board!Overrun
  <1>6. CASE Board!Sample
    <2>1. [mid |-> "DATA"] \in BoardSent
      BY DEF BoardSent
    <2>2. toHost' \in Seq(BoardSent) /\ Len(toHost') <= MaxWire
      BY <1>6, <2>1, WrittenType, BoardWritten DEF Board!Sample
    <2> QED
      BY <1>6, <1>b, <2>2 DEF Board!Sample
  <1>7. CASE Board!Expire
    BY <1>7, <1>b DEF Board!Expire
  <1>8. CASE Board!Reconfigure
    BY <1>8, <1>b DEF Board!Reconfigure
  <1> QED
    BY <1>1, <1>2, <1>3, <1>4, <1>5, <1>6, <1>7, <1>8
       DEF BoardStep, Board!DeviceNext

\* Opening a session keeps the types.
LEMMA OpenTypes ==
    ASSUME TypeOK, OpenSession
    PROVE  TypeOK'
PROOF
  <1>1. HostTypeOK'
    BY DEF OpenSession, Open, HostTypeOK, NoCommand, Commands
  <1>2. /\ toHost' \in Seq(BoardSent) /\ Len(toHost') <= MaxWire
        /\ toDaqc' \in Seq(HostSent) /\ Len(toDaqc') <= MaxWire
    <2>1. toHost' = <<>> /\ toDaqc' = <<>>
      BY DEF OpenSession, Open, Board!Reset
    <2> QED
      BY <2>1, WireAssumption
  <1>3. state' \in Commands /\ held' \in HostSent \union {Board!NoFrame}
        /\ configured' \in BOOLEAN
    BY DEF OpenSession, Board!Reset, TypeOK, Commands, boardVars
  <1> QED
    BY <1>1, <1>2, <1>3 DEF TypeOK
-----------------------------------------------------------------------------
(* The pipe.                                                                 *)

\* The step takes commands out of the pipe or moves them along, and reorders
\* none: m tells where each one was.  A DISABLE confirmed by this step is
\* confirmed in DISABLE.
Along(m) ==
    /\ m \in [Int -> Int]
    /\ \A p, q \in Places' : \A S, T \in {Wake, Sleep} :
          p < q /\ At(p, S)' /\ At(q, T)' => m[p] < m[q]
    /\ \A p \in Places' : \A S \in {Wake, Sleep} :
          At(p, S)' => m[p] \in Places /\ At(m[p], S)
    /\ \A p \in Places' : p < 0 /\ At(p, Sleep)' =>
          m[p] < 0 \/ (state = "DISABLE" /\ UNCHANGED state)

\* Places on the line are numbers.
LEMMA PlacesAreInt == TypeOK => Places \subseteq Int /\ 0 \in Places
  BY DEF TypeOK, Places

\* Orders in the pipe survive such a step.
LEMMA AlongKeepsOrder ==
    ASSUME TypeOK, TypeOK', NEW m, Along(m)
    PROVE  /\ \A S \in {Wake, Sleep} : None(S) => None(S)'
           /\ NoneBehind(Sleep, Wake) => NoneBehind(Sleep, Wake)'
           /\ NoneBehind(Wake, Sleep) => NoneBehind(Wake, Sleep)'
PROOF
  <1>1. Places \subseteq Int /\ Places' \subseteq Int
    BY PlacesAreInt DEF TypeOK, Places
  <1> QED
    BY <1>1 DEF Along, None, NoneBehind

\* The stage before which the caller has nothing but DISABLE to send.
Entering == {"count", "baseline", "enter"}

\* The premise of StoppedInv.
Stopped ==
    \/ pc = "stopping" /\ mode = "DISABLE"
    \/ pc \in {"close", "off"} /\ verdict = "confirmed"

\* A step that only moves the pipe along, and makes no stage begin.
CalmStep ==
    /\ \E m : Along(m)
    /\ mode' \in {mode, "DISABLE"} /\ baseline' = baseline
    /\ pc' \in Started => pc \in Started
    /\ pc' \in Entering => pc \in Entering
    /\ Stopped' => Stopped
    /\ state' \in {state, "DISABLE"} \/ At(0, Wake)

\* A calm step keeps the order of the orders and what a stop rests on.
LEMMA CalmKeeps ==
    ASSUME TypeOK, TypeOK', OrderInv, StateInv, StoppedInv, CalmStep
    PROVE  OrderInv' /\ StateInv' /\ StoppedInv'
PROOF
  <1> PICK m : Along(m)
    BY DEF CalmStep
  <1>1. Places \subseteq Int /\ Places' \subseteq Int /\ 0 \in Places
    BY PlacesAreInt DEF TypeOK, Places
  <1>2. OrderInv'
    <2>1. \A p, q, r \in Places' :
            p < q /\ q < r => ~(At(p, Wake)' /\ At(q, Sleep)' /\ At(r, Wake)')
      BY <1>1 DEF Along, OrderInv
    <2> QED
      BY <2>1, AlongKeepsOrder DEF CalmStep, OrderInv, Entering
  <1>3. StateInv'
    <2> SUFFICES ASSUME NEW p \in Places', p < 0, At(p, Sleep)',
                        \/ mode' # "DISABLE" \/ ~baseline'
                        \/ \E q \in Places' : q < p /\ At(q, Wake)'
                 PROVE  state' = "DISABLE"
      BY DEF StateInv
    <2>1. m[p] \in Places /\ At(m[p], Sleep)
      BY DEF Along
    <2>2. \/ mode # "DISABLE" \/ ~baseline
          \/ \E q \in Places : q < m[p] /\ At(q, Wake)
      BY <1>1 DEF CalmStep, Along
    <2>3. m[p] < 0 \/ (state = "DISABLE" /\ UNCHANGED state)
      BY DEF Along
    <2>4. state = "DISABLE"
      BY <2>1, <2>2, <2>3 DEF StateInv
    <2>5. m[p] < 0 => ~At(0, Wake)
      BY <1>1, <2>1, <2>2 DEF OrderInv, NoneBehind
    <2> QED
      BY <2>3, <2>4, <2>5 DEF CalmStep
  <1>4. StoppedInv'
    BY <1>1, AlongKeepsOrder DEF CalmStep, StoppedInv, Stopped, None
  <1> QED
    BY <1>2, <1>3, <1>4
-----------------------------------------------------------------------------
(* How each step moves the pipe.                                             *)

\* m[p] == p for a step that leaves every command where it is or takes it out.
Stay == [p \in Int |-> p]

\* The commands from place from on were n places further away.
Shift(from, n) == [p \in Int |-> IF p < from THEN p ELSE p + n]

\* The answers were one place nearer to the board.
Back == [p \in Int |-> IF p < 0 THEN p + 1 ELSE p]

\* A step that leaves the lines alone and at most gives up the pending command.
LEMMA AlongSame ==
    ASSUME TypeOK, UNCHANGED <<toHost, toDaqc, held>>, slot' \in {slot, NoCommand}
    PROVE  Along(Stay)
PROOF
  <1>1. NoCommand \notin Wake /\ NoCommand \notin Sleep
    BY DEF NoCommand, Wake, Sleep
  <1>2. Places' = Places /\ Places \subseteq Int
    BY PlacesAreInt DEF Places
  <1>3. \A p \in Places : \A S \in {Wake, Sleep} : At(p, S)' => At(p, S)
    BY <1>1 DEF At
  <1> QED
    BY <1>2, <1>3 DEF Along, Stay

\* The host reads the oldest answer.
LEMMA AlongRead ==
    ASSUME TypeOK, toHost # <<>>, toHost' = Tail(toHost),
           UNCHANGED <<toDaqc, held, slot>>
    PROVE  Along(Stay) /\ Places' = Places \ {0 - Len(toHost)}
PROOF
  <1>1. /\ Len(toHost') = Len(toHost) - 1 /\ Len(toHost) \in Nat /\ Len(toHost) > 0
        /\ \A i \in 1..(Len(toHost) - 1) : toHost'[i] = toHost[i + 1]
    BY DEF TypeOK
  <1>2. Len(toDaqc) \in Nat
    BY DEF TypeOK
  <1>3. Places' = Places \ {0 - Len(toHost)} /\ Places \subseteq Int
    BY <1>1, <1>2 DEF Places
  <1>4. ASSUME NEW p \in Places', NEW S, At(p, S)'
        PROVE  At(p, S)
    <2>1. p < 0 => toHost'[Len(toHost') + 1 + p] = toHost[Len(toHost) + 1 + p]
      BY <1>1, <1>2 DEF Places
    <2> QED
      BY <1>4, <2>1 DEF At
  <1> QED
    BY <1>3, <1>4 DEF Along, Stay

\* The serial worker writes the pending command, or something else: the
\* command keeps its place behind the others, or is lost.
LEMMA AlongWritten ==
    ASSUME TypeOK, NEW f, toDaqc' \in Written(toDaqc, f),
           UNCHANGED <<toHost, held>>,
           \/ f = Request(slot) /\ slot' = NoCommand
           \/ f.mid # "CONFIG" /\ slot = NoCommand /\ slot' = NoCommand
    PROVE  Along(Stay)
PROOF
  <1>1. NoCommand \notin Wake /\ NoCommand \notin Sleep
    BY DEF NoCommand, Wake, Sleep
  <1>2. CASE toDaqc' = toDaqc
    BY <1>2, AlongSame
  <1>3. CASE toDaqc' = Append(toDaqc, f)
    <2>1. /\ Len(toDaqc') = Len(toDaqc) + 1 /\ Len(toDaqc) \in Nat
          /\ Len(toHost) \in Nat
          /\ \A i \in 1..Len(toDaqc) : toDaqc'[i] = toDaqc[i]
          /\ toDaqc'[Len(toDaqc) + 1] = f
      BY <1>3 DEF TypeOK
    <2>2. ASSUME NEW p \in Places', NEW S \in {Wake, Sleep}, At(p, S)'
          PROVE  p \in Places /\ At(p, S)
      <3>1. CASE p <= Len(toDaqc)
        BY <2>1, <2>2, <3>1 DEF At, Places
      <3>2. CASE p = Len(toDaqc) + 1
        <4>1. PICK c \in S : f = Request(c)
          BY <2>1, <2>2, <3>2 DEF At
        <4>2. f.mid = "CONFIG"
          BY <4>1 DEF Request
        <4>3. c = slot
          BY <4>1, <4>2, FrameKinds
        <4> QED
          BY <2>1, <3>2, <4>3 DEF At, Places
      <3>3. CASE p = Len(toDaqc) + 2
        BY <1>1, <2>1, <2>2, <3>3 DEF At
      <3> QED
        BY <2>1, <3>1, <3>2, <3>3 DEF Places
    <2>3. Places' \subseteq Int
      BY <2>1 DEF Places
    <2> QED
      BY <2>2, <2>3 DEF Along, Stay, Places
  <1> QED
    BY <1>2, <1>3 DEF Written

\* The board takes the next command from the wire.
LEMMA AlongTake ==
    ASSUME TypeOK, TypeOK', Board!Take, UNCHANGED slot
    PROVE  Along(Shift(0, 1))
PROOF
  <1> DEFINE m == Shift(0, 1)
  <1>1. /\ toDaqc # <<>> /\ held' = toDaqc[1] /\ UNCHANGED toHost
        /\ Len(toDaqc') = Len(toDaqc) - 1
        /\ Len(toDaqc) \in Nat /\ Len(toDaqc) > 0 /\ Len(toHost) \in Nat
        /\ \A i \in 1..(Len(toDaqc) - 1) : toDaqc'[i] = toDaqc[i + 1]
    BY DEF Board!Take, TypeOK
  <1>2. Places' \subseteq Int
    BY <1>1 DEF Places
  <1>3. \A p \in Int : m[p] = IF p < 0 THEN p ELSE p + 1
    BY DEF Shift
  <1>4. m \in [Int -> Int]
    BY DEF Shift
  <1> HIDE DEF m
  <1>5. ASSUME NEW p \in Places', NEW S, At(p, S)'
        PROVE  m[p] \in Places /\ At(m[p], S)
    <2>1. CASE p < 0
      <3>1. m[p] = p
        BY <1>2, <1>3, <2>1
      <3>2. At(p, S)
        BY <1>1, <1>2, <1>5, <2>1 DEF At, Places
      <3>3. p \in Places
        BY <1>1, <2>1 DEF Places
      <3> QED
        BY <3>1, <3>2, <3>3
    <2>2. CASE p = 0
      <3>1. m[p] = 1
        BY <1>3, <2>2
      <3>2. PICK c \in S : held' = Request(c)
        BY <1>1, <1>5, <2>2 DEF At
      <3>3. 1 \in Places /\ 1 \in 1..Len(toDaqc)
        BY <1>1 DEF Places
      <3>4. toDaqc[1] = Request(c)
        BY <1>1, <3>2
      <3> QED
        BY <3>1, <3>3, <3>4 DEF At
    <2>3. CASE p \in 1..Len(toDaqc')
      <3>1. m[p] = p + 1
        BY <1>2, <1>3, <2>3
      <3>2. At(p + 1, S)
        BY <1>1, <1>2, <1>5, <2>3 DEF At, Places
      <3>3. p + 1 \in Places
        BY <1>1, <2>3 DEF Places
      <3> QED
        BY <3>1, <3>2, <3>3
    <2>4. CASE p = Len(toDaqc') + 1
      <3>1. m[p] = p + 1
        BY <1>1, <1>2, <1>3, <2>4
      <3>2. At(p + 1, S)
        BY <1>1, <1>2, <1>5, <2>4 DEF At, Places
      <3>3. p + 1 \in Places
        BY <1>1, <2>4 DEF Places
      <3> QED
        BY <3>1, <3>2, <3>3
    <2> QED
      BY <1>1, <2>1, <2>2, <2>3, <2>4 DEF Places
  <1>6. Along(m)
    BY <1>2, <1>3, <1>4, <1>5 DEF Along
  <1> QED
    BY <1>6 DEF m

\* The handler failed and what is behind the frame is lost.
LEMMA AlongOverrun ==
    ASSUME TypeOK, TypeOK', Board!Overrun, UNCHANGED slot
    PROVE  \E m : Along(m)
PROOF
  <1>1. PICK n \in 0..Len(toDaqc) : toDaqc' = SubSeq(toDaqc, n + 1, Len(toDaqc))
    BY DEF Board!Overrun, Board!Without
  <1> DEFINE m == Shift(1, n)
  <1>2. /\ UNCHANGED <<toHost, held>>
        /\ Len(toDaqc') = Len(toDaqc) - n
        /\ Len(toDaqc) \in Nat /\ Len(toHost) \in Nat
        /\ \A i \in 1..(Len(toDaqc) - n) : toDaqc'[i] = toDaqc[i + n]
    BY <1>1 DEF Board!Overrun, TypeOK
  <1>3. Places' \subseteq Int /\ n \in Nat
    BY <1>2 DEF Places
  <1>4. \A p \in Int : m[p] = IF p < 1 THEN p ELSE p + n
    BY DEF Shift
  <1>5. m \in [Int -> Int]
    BY <1>3 DEF Shift
  <1> HIDE DEF m
  <1>6. ASSUME NEW p \in Places', NEW S, At(p, S)'
        PROVE  m[p] \in Places /\ At(m[p], S)
    <2>1. CASE p < 1
      <3>1. m[p] = p
        BY <1>3, <1>4, <2>1
      <3>2. At(p, S)
        BY <1>2, <1>3, <1>6, <2>1 DEF At, Places
      <3>3. p \in Places
        BY <1>2, <1>3, <2>1 DEF Places
      <3> QED
        BY <3>1, <3>2, <3>3
    <2>2. CASE p \in 1..Len(toDaqc')
      <3>1. m[p] = p + n
        BY <1>3, <1>4, <2>2
      <3>2. At(p + n, S)
        BY <1>2, <1>3, <1>6, <2>2 DEF At, Places
      <3>3. p + n \in Places
        BY <1>2, <1>3, <2>2 DEF Places
      <3> QED
        BY <3>1, <3>2, <3>3
    <2>3. CASE p = Len(toDaqc') + 1
      <3>1. m[p] = p + n
        BY <1>2, <1>3, <1>4, <2>3
      <3>2. At(p + n, S)
        BY <1>2, <1>3, <1>6, <2>3 DEF At, Places
      <3>3. p + n \in Places
        BY <1>2, <1>3, <2>3 DEF Places
      <3> QED
        BY <3>1, <3>2, <3>3
    <2> QED
      BY <1>2, <1>3, <2>1, <2>2, <2>3 DEF Places
  <1>7. ASSUME NEW p \in Int, NEW q \in Int, p < q PROVE m[p] < m[q]
    <2>1. /\ m[p] = IF p < 1 THEN p ELSE p + n
          /\ m[q] = IF q < 1 THEN q ELSE q + n
      BY <1>4
    <2>2. n \in Nat
      BY <1>3
    <2> QED
      BY <1>7, <2>1, <2>2
  <1>8. \A p \in Places' : p < 0 => m[p] < 0
    BY <1>3, <1>4
  <1>9. Along(m)
    BY <1>3, <1>6, <1>5, <1>7, <1>8 DEF Along
  <1> QED
    BY <1>9

\* The held frame leaves without an answer that arrives.
LEMMA AlongDropped ==
    ASSUME TypeOK, held' = Board!NoFrame, UNCHANGED <<toHost, toDaqc, slot>>
    PROVE  Along(Stay)
PROOF
  <1>1. \A c : held' # Request(c)
    BY DEF Board!NoFrame, Request
  <1>2. Places' = Places /\ Places \subseteq Int
    BY PlacesAreInt DEF Places
  <1>3. \A p \in Places : \A S : At(p, S)' => At(p, S)
    BY <1>1 DEF At
  <1> QED
    BY <1>2, <1>3 DEF Along, Stay

\* An answer goes onto the wire: an acquisition, or what becomes of the held
\* frame.
LEMMA AlongAnswered ==
    ASSUME TypeOK, NEW f, toHost' = Append(toHost, f),
           UNCHANGED <<toDaqc, slot, state>>,
           \/ f = [mid |-> "DATA"] /\ UNCHANGED held
           \/ /\ held \in HostSent /\ held.mid = "CONFIG" /\ held' = Board!NoFrame
              /\ f = Board!Confirmation(held.command, state)
    PROVE  Along(Back)
PROOF
  <1> DEFINE m == Back
  <1>1. /\ Len(toHost') = Len(toHost) + 1 /\ Len(toHost) \in Nat
        /\ Len(toDaqc) \in Nat
        /\ \A i \in 1..Len(toHost) : toHost'[i] = toHost[i]
        /\ toHost'[Len(toHost) + 1] = f
    BY DEF TypeOK
  <1>2. Places' \subseteq Int
    BY <1>1 DEF Places
  <1>3. \A p \in Int : m[p] = IF p < 0 THEN p + 1 ELSE p
    BY DEF Back
  <1>4. ASSUME NEW c, f = Answer(c)
        PROVE  held = Request(c) /\ state = c /\ held' = Board!NoFrame
    <2>1. f.mid = "CONFIG"
      BY <1>4 DEF Answer, Board!Confirmation
    <2>2. f = Board!Confirmation(held.command, state) /\ held' = Board!NoFrame
          /\ held = Request(held.command)
      BY <2>1, FrameKinds
    <2>3. held.command = c /\ state = c
      <3>1. Board!Confirmation(held.command, state) = Answer(c)
        BY <1>4, <2>2
      <3> QED
        BY <3>1, FrameKinds
    <2> QED
      BY <2>2, <2>3
  <1>5. \A c : held' = Request(c) => held = Request(c) /\ f = [mid |-> "DATA"]
    BY DEF Board!NoFrame, Request
  <1>6. ASSUME NEW p \in Places', NEW S, At(p, S)'
        PROVE  m[p] \in Places /\ At(m[p], S)
    <2>1. CASE p < 0 - 1
      BY <1>1, <1>2, <1>3, <1>6, <2>1 DEF At, Places
    <2>2. CASE p = 0 - 1
      <3>1. \E c \in S : f = Answer(c)
        BY <1>1, <1>6, <2>2 DEF At
      <3> QED
        BY <1>1, <1>3, <1>4, <2>2, <3>1 DEF At, Places
    <2>3. CASE p = 0
      BY <1>1, <1>3, <1>5, <1>6, <2>3 DEF At, Places
    <2>4. CASE p > 0
      BY <1>1, <1>2, <1>3, <1>6, <2>4 DEF At, Places
    <2> QED
      BY <1>2, <2>1, <2>2, <2>3, <2>4
  <1>7. m \in [Int -> Int]
    BY DEF Back
  <1>8. ASSUME NEW p \in Places', p < 0, At(p, Sleep)'
        PROVE  m[p] < 0 \/ state = "DISABLE"
    <2>1. CASE p < 0 - 1
      BY <1>2, <1>3, <2>1
    <2>2. CASE p = 0 - 1
      <3>1. f = Answer("DISABLE")
        BY <1>1, <1>8, <2>2 DEF At, Sleep
      <3> QED
        BY <1>4, <3>1
    <2> QED
      BY <1>2, <1>8, <2>1, <2>2
  <1>9. ~(\E S, T : At(0 - 1, S)' /\ At(0, T)')
    <2> SUFFICES ASSUME NEW S, NEW T, At(0 - 1, S)', At(0, T)' PROVE FALSE
      OBVIOUS
    <2>1. \E c \in S : f = Answer(c)
      BY <1>1 DEF At
    <2>2. \E c \in T : held' = Request(c)
      BY <1>1 DEF At
    <2> QED
      BY <1>4, <1>5, <2>1, <2>2 DEF Board!NoFrame, Request
  <1> HIDE DEF m
  <1>10. ASSUME NEW p \in Places', NEW q \in Places', NEW S, NEW T, p < q,
               At(p, S)', At(q, T)'
        PROVE  m[p] < m[q]
    <2>1. ~(p = 0 - 1 /\ q = 0)
      BY <1>9, <1>10
    <2> QED
      BY <1>2, <1>3, <1>10, <2>1
  <1>11. Along(m)
    BY <1>6, <1>7, <1>8, <1>10 DEF Along
  <1> QED
    BY <1>11 DEF m
-----------------------------------------------------------------------------
(* The steps that change what may follow in the pipe.                        *)

PipeInv == OrderInv /\ StateInv /\ StoppedInv

\* A polling loop fills the empty slot: the command goes behind all others.
LEMMA QueueKeeps ==
    ASSUME TypeOK, PipeInv,
           UNCHANGED <<toHost, toDaqc, held, mode, baseline, pc, verdict, state>>,
           slot = NoCommand,
           \/ slot' \in Sleep /\ pc \notin Started
           \/ slot' \in Wake /\ pc \in Started /\ baseline
    PROVE  PipeInv'
PROOF
  <1> USE DEF PipeInv
  <1> DEFINE last == Len(toDaqc) + 1
  <1>1. Places \subseteq Int /\ Places' = Places /\ last \in Places /\ Len(toDaqc) \in Nat
    BY DEF TypeOK, Places
  <1>2. \A p \in Places : p <= last
    BY <1>1 DEF Places
  <1>3. Wake \cap Sleep = {} /\ NoCommand \notin Wake \cup Sleep
    BY DEF Wake, Sleep, NoCommand
  <1>4. \A p \in Places : \A S \in {Wake, Sleep} :
          At(p, S)' <=> At(p, S) \/ (p = last /\ slot' \in S)
    BY <1>1, <1>3 DEF At
  <1>5. last >= 0
    BY <1>1
  <1> HIDE DEF last
  <1>6. CASE slot' \in Sleep /\ pc \notin Started
    <2>1. \A p \in Places : At(p, Wake)' <=> At(p, Wake)
      BY <1>3, <1>4, <1>6
    <2>2. \A p, q \in Places : p < q => (At(p, Sleep)' <=> At(p, Sleep))
      BY <1>1, <1>2, <1>4
    <2>3. OrderInv'
      BY <1>1, <1>6, <2>1, <2>2 DEF OrderInv, None, NoneBehind
    <2>4. \A p \in Places : p < 0 => (At(p, Sleep)' <=> At(p, Sleep))
      BY <1>1, <1>4, <1>5
    <2>5. StateInv'
      BY <1>1, <2>1, <2>4 DEF StateInv
    <2>6. StoppedInv'
      BY <1>1, <2>1 DEF StoppedInv, None
    <2> QED
      BY <2>3, <2>5, <2>6
  <1>7. CASE slot' \in Wake /\ pc \in Started /\ baseline
    <2>1. \A p \in Places : At(p, Sleep)' <=> At(p, Sleep)
      BY <1>3, <1>4, <1>7
    <2>2. \A p, q \in Places : p < q => (At(p, Wake)' <=> At(p, Wake))
      BY <1>1, <1>2, <1>4
    <2>3. NoneBehind(Wake, Sleep)
      BY <1>7 DEF OrderInv
    <2>4. ~(pc \in {"count", "baseline", "enter"}) /\ pc # "stopping" /\ pc \notin {"close", "off"}
      BY <1>7 DEF Started
    <2>5. \A p, q, r \in Places' :
            p < q /\ q < r => ~(At(p, Wake)' /\ At(q, Sleep)' /\ At(r, Wake)')
      BY <1>1, <2>1, <2>2, <2>3 DEF NoneBehind
    <2>6. mode # "DISABLE" => None(Sleep)' /\ NoneBehind(Sleep, Wake)'
      BY <1>1, <1>7, <2>1 DEF OrderInv, None, NoneBehind
    <2>7. NoneBehind(Wake, Sleep)'
      BY <1>1, <2>1, <2>2, <2>3 DEF NoneBehind
    <2>8. OrderInv'
      BY <1>7, <2>4, <2>5, <2>6, <2>7 DEF OrderInv
    <2>9. StateInv'
      BY <1>1, <2>1, <2>2 DEF StateInv
    <2>10. StoppedInv'
      BY <2>4 DEF StoppedInv
    <2> QED
      BY <2>8, <2>9, <2>10
  <1> QED
    BY <1>6, <1>7

\* The host reads a confirmation it accepts.  It was the first of the pipe, so
\* all the rest is behind it.
LEMMA ConfirmKeeps ==
    ASSUME TypeOK, TypeOK', PipeInv, ReceiveConfirmation, UNCHANGED boardVars,
           Accepts(Head(toHost).command, Head(toHost).status)
    PROVE  PipeInv'
PROOF
  <1> USE DEF PipeInv
  <1> DEFINE first == 0 - Len(toHost)
             c == Head(toHost).command
  <1>1. /\ toHost # <<>> /\ toHost' = Tail(toHost) /\ mode' = c
        /\ baseline' = (baseline \/ c = "DISABLE")
        /\ UNCHANGED <<toDaqc, slot, pc, verdict, held, state>>
    BY DEF ReceiveConfirmation, boardVars
  <1>2. Along(Stay) /\ Places' = Places \ {first}
    BY <1>1, AlongRead
  <1>3. Places \subseteq Int /\ first \in Places /\ first < 0 /\ \A p \in Places' : first < p
    <2>1. Len(toHost) \in Nat /\ Len(toHost) > 0 /\ Len(toDaqc) \in Nat
      BY <1>1 DEF TypeOK
    <2> QED
      BY <1>2, <2>1 DEF Places
  <1>4. c \in Commands /\ toHost[Len(toHost) + 1 + first] = Answer(c)
    <2>1. Head(toHost) \in BoardSent /\ Head(toHost) = toHost[1] /\ Len(toHost) \in Nat
      BY <1>1 DEF TypeOK
    <2>2. Head(toHost) = Board!Confirmation(c, c)
      BY <2>1, FrameKinds DEF ReceiveConfirmation, Accepts
    <2> QED
      BY <2>1, <2>2 DEF Answer, Accepts
  <1>5. \A S : c \in S => At(first, S)
    BY <1>3, <1>4 DEF At
  <1>6. \A p \in Places' : \A S \in {Wake, Sleep} : At(p, S)' => p \in Places /\ At(p, S)
    BY <1>2, <1>3 DEF Along, Stay
  <1> HIDE DEF first, c
  <1>7. c \in Wake \/ c \in Sleep
    BY <1>4 DEF Commands, Wake, Sleep
  <1>8. OrderInv /\ StateInv /\ StoppedInv
    OBVIOUS
  <1>9. \A p, q, r \in Places' :
          p < q /\ q < r => ~(At(p, Wake)' /\ At(q, Sleep)' /\ At(r, Wake)')
    BY <1>6 DEF OrderInv
  <1>10. CASE c \in Wake
    <2>a. c # "DISABLE" /\ baseline \in BOOLEAN
      BY <1>10 DEF Wake, TypeOK, HostTypeOK
    <2>1. At(first, Wake) /\ mode' # "DISABLE" /\ baseline' = baseline
      BY <1>1, <1>5, <1>10, <2>a
    <2>2. NoneBehind(Sleep, Wake)'
      BY <1>3, <1>6, <1>8, <2>1 DEF OrderInv, NoneBehind
    <2>3. pc \in Started => None(Sleep)' /\ NoneBehind(Wake, Sleep)'
      BY <1>3, <1>6, <1>8, <2>1 DEF OrderInv, None, NoneBehind
    <2>4. ~(pc \in {"count", "baseline", "enter"} /\ baseline)
      BY <1>3, <1>8, <2>1 DEF OrderInv, None
    <2>5. OrderInv'
      BY <1>1, <1>9, <2>1, <2>2, <2>3, <2>4 DEF OrderInv
    <2>6. StateInv'
      BY <1>1, <1>3, <1>6, <1>8, <2>1 DEF StateInv
    <2>7. StoppedInv'
      BY <1>1, <1>3, <1>8, <2>1 DEF StoppedInv, None
    <2> QED
      BY <2>5, <2>6, <2>7
  <1>11. CASE c \in Sleep
    <2>1. At(first, Sleep) /\ mode' = "DISABLE" /\ baseline' = TRUE
      BY <1>1, <1>5, <1>11 DEF Sleep
    <2>2. pc \in Started => NoneBehind(Wake, Sleep)'
      BY <1>6, <1>8 DEF OrderInv, NoneBehind
    <2>3. pc \in {"count", "baseline", "enter"} => None(Wake)'
      BY <1>3, <1>6, <1>8, <2>1 DEF OrderInv, None, NoneBehind
    <2>4. OrderInv'
      BY <1>1, <1>9, <2>1, <2>2, <2>3 DEF OrderInv
    <2>5. StateInv'
      BY <1>1, <1>6, <1>8, <2>1 DEF StateInv
    <2>6. mode # "DISABLE" => None(Wake)' /\ state = "DISABLE"
      BY <1>3, <1>6, <1>8, <2>1 DEF OrderInv, StateInv, None, NoneBehind
    <2>7. None(Wake) => None(Wake)'
      BY <1>6 DEF None
    <2>8. StoppedInv'
      BY <1>1, <1>8, <2>6, <2>7 DEF StoppedInv
    <2> QED
      BY <2>4, <2>5, <2>8
  <1> QED
    BY <1>7, <1>10, <1>11

\* A new session begins with at most one command in the pipe, the frame the
\* board kept.
LEMMA OpenKeeps ==
    ASSUME TypeOK, OpenSession
    PROVE  PipeInv'
PROOF
  <1>1. /\ toHost' = <<>> /\ toDaqc' = <<>> /\ slot' = NoCommand
        /\ mode' = "DISABLE" /\ baseline' = FALSE /\ pc' = "count"
    BY DEF OpenSession, Open, Board!Reset
  <1>2. Places' = 0..1
    BY <1>1 DEF Places
  <1>3. \A p \in Places' : \A S \in {Wake, Sleep} : At(p, S)' => p = 0
    BY <1>1, <1>2 DEF At, NoCommand, Wake, Sleep
  <1> QED
    BY <1>1, <1>2, <1>3
    DEF PipeInv, OrderInv, StateInv, StoppedInv, None, NoneBehind, Started
-----------------------------------------------------------------------------
(* The inductive invariant.                                                  *)

StageInv == CallerInv /\ NothingLeftToSend

\* Every step of the caller and of the worker keeps what the stages say.
LEMMA CallerStep ==
    ASSUME TypeOK, StageInv, [Next]_vars
    PROVE  StageInv'
PROOF
  <1> USE DEF TypeOK, HostTypeOK, StageInv, CallerInv, NothingLeftToSend,
              NoCommand, Commands, Wake, Started
  <1>1. CASE ReceiveConfirmation
    BY <1>1 DEF ReceiveConfirmation, Accepts, Kept
  <1>2. CASE ReceiveData
    BY <1>2 DEF ReceiveData, callerVars
  <1>3. CASE Transmit
    BY <1>3 DEF Transmit, callerVars
  <1>4. CASE WorkerDies
    BY <1>4 DEF WorkerDies, coordVars, callerVars
  <1>5. CASE PublishOutput
    BY <1>5 DEF PublishOutput, callerVars
  <1>6. CASE BaselineCount \/ BaselineReadMode
    BY <1>6 DEF BaselineCount, BaselineReadMode, coordVars
  <1>7. CASE BaselineCheck
    BY <1>7 DEF BaselineCheck, Queue
  <1>8. CASE TransitionEnter
    BY <1>8 DEF TransitionEnter, EnterEnable, coordVars
  <1>9. CASE PollEnable
    BY <1>9 DEF PollEnable, Poll, Queue
  <1>10. CASE FinishSetup
    BY <1>10 DEF FinishSetup, coordVars
  <1>11. CASE PollPlay
    BY <1>11 DEF PollPlay, Poll, Queue
  <1>12. CASE EndRun
    BY <1>12 DEF EndRun, coordVars
  <1>13. CASE StopEnter
    BY <1>13 DEF StopEnter, coordVars
  <1>14. CASE PollStop
    BY <1>14 DEF PollStop, Poll, Queue
  <1>15. CASE Close
    BY <1>15 DEF Close
  <1>16. CASE BoardStep
    BY <1>16 DEF BoardStep, hostVars
  <1>17. CASE OpenSession
    BY <1>17 DEF OpenSession, Open
  <1>18. CASE UNCHANGED vars
    BY <1>18 DEF vars, hostVars
  <1> QED
    BY <1>1, <1>2, <1>3, <1>4, <1>5, <1>6, <1>7, <1>8, <1>9, <1>10, <1>11,
       <1>12, <1>13, <1>14, <1>15, <1>16, <1>17, <1>18
       DEF Next, HostStep, HostNext, Worker, Caller

\* The serial worker keeps the order of the pipe.
LEMMA WorkerPipe ==
    ASSUME TypeOK, TypeOK', StageInv, PipeInv, Worker, UNCHANGED boardVars
    PROVE  PipeInv'
PROOF
  <1> USE DEF PipeInv, boardVars
  <1>1. CASE ReceiveConfirmation
    <2>1. CASE Accepts(Head(toHost).command, Head(toHost).status)
      BY <1>1, <2>1, ConfirmKeeps
    <2>2. CASE ~Accepts(Head(toHost).command, Head(toHost).status)
      <3>1. Along(Stay)
        BY <1>1, AlongRead DEF ReceiveConfirmation
      <3>2. CalmStep
        BY <1>1, <2>2, <3>1 DEF ReceiveConfirmation, CalmStep, Stopped
      <3> QED
        BY <3>2, CalmKeeps
    <2> QED
      BY <2>1, <2>2
  <1>2. CASE ReceiveData
    <2>1. Along(Stay)
      BY <1>2, AlongRead DEF ReceiveData, callerVars
    <2>2. CalmStep
      BY <1>2, <2>1 DEF ReceiveData, CalmStep, Stopped, callerVars
    <2> QED
      BY <2>2, CalmKeeps
  <1>3. CASE Transmit
    <2>1. Along(Stay)
      <3>1. /\ [mid |-> "READ_ACK"].mid # "CONFIG" /\ [mid |-> "DATA"].mid # "CONFIG"
            /\ [mid |-> "XRCE"].mid # "CONFIG"
        OBVIOUS
      <3> QED
        BY <1>3, <3>1, AlongWritten DEF Transmit, CommandPending, Request
    <2>2. CalmStep
      BY <1>3, <2>1 DEF Transmit, CalmStep, Stopped, callerVars
    <2> QED
      BY <2>2, CalmKeeps
  <1>4. CASE WorkerDies
    <2>1. CalmStep
      BY <1>4, AlongSame DEF WorkerDies, CalmStep, Stopped, coordVars, callerVars
    <2> QED
      BY <2>1, CalmKeeps
  <1> QED
    BY <1>1, <1>2, <1>3, <1>4 DEF Worker

\* The caller and the simulation thread keep the order of the pipe.
LEMMA CallerPipe ==
    ASSUME TypeOK, TypeOK', StageInv, PipeInv, PublishOutput \/ Caller,
           UNCHANGED boardVars
    PROVE  PipeInv'
PROOF
  <1> USE DEF boardVars
  <1>c. CalmStep => PipeInv'
    BY CalmKeeps DEF PipeInv
  <1>q. CASE /\ UNCHANGED <<toHost, toDaqc, held, mode, baseline, pc, verdict, state>>
             /\ slot = NoCommand
             /\ \/ slot' \in Sleep /\ pc \notin Started
                \/ slot' \in Wake /\ pc \in Started /\ baseline
    BY <1>q, QueueKeeps
  <1>1. CASE PublishOutput
    BY <1>1, <1>c, AlongSame DEF PublishOutput, CalmStep, Stopped, callerVars
  <1>2. CASE BaselineCount \/ BaselineReadMode
    BY <1>2, <1>c, AlongSame
    DEF BaselineCount, BaselineReadMode, CalmStep, Stopped, Started, Entering, coordVars
  <1>3. CASE BaselineCheck
    <2>1. CASE slot' = slot
      BY <1>3, <1>c, <2>1, AlongSame
      DEF BaselineCheck, CalmStep, Stopped, Started, Entering
    <2>2. CASE slot' # slot
      BY <1>3, <1>q, <2>2 DEF BaselineCheck, Queue, Started, Sleep
    <2> QED
      BY <2>1, <2>2
  <1>4. CASE TransitionEnter
    <2>1. Along(Stay)
      BY <1>4, AlongSame DEF TransitionEnter, coordVars
    <2>2. CASE EnterEnable
      <3>1. /\ pc = "enter" /\ pc' = "enable" /\ mode = "DISABLE" /\ baseline
            /\ UNCHANGED <<toHost, toDaqc, held, slot, mode, baseline, verdict, state>>
        BY <1>4, <2>2
        DEF TransitionEnter, EnterEnable, StageInv, CallerInv, coordVars
      <3>2. None(Wake)'
        BY <2>1, <3>1, AlongKeepsOrder DEF PipeInv, OrderInv
      <3>3. OrderInv'
        BY <3>1, <3>2 DEF OrderInv, None, NoneBehind
      <3>4. StateInv'
        BY <3>1, <3>2 DEF StateInv, None
      <3>5. StoppedInv'
        BY <3>1 DEF StoppedInv
      <3> QED
        BY <3>3, <3>4, <3>5 DEF PipeInv
    <2>3. CASE ~EnterEnable
      BY <1>4, <1>c, <2>1, <2>3
      DEF TransitionEnter, CalmStep, Stopped, Started, Entering, coordVars
    <2> QED
      BY <2>2, <2>3
  <1>5. CASE PollEnable
    <2>1. CASE slot' = slot
      BY <1>5, <1>c, <2>1, AlongSame
      DEF PollEnable, Poll, CalmStep, Stopped, Started, Entering
    <2>2. CASE slot' # slot
      BY <1>5, <1>q, <2>2
      DEF PollEnable, Poll, Queue, Started, Wake, StageInv, CallerInv
    <2> QED
      BY <2>1, <2>2
  <1>6. CASE FinishSetup
    BY <1>6, <1>c, AlongSame
    DEF FinishSetup, CalmStep, Stopped, Started, Entering, coordVars
  <1>7. CASE PollPlay
    <2>1. CASE slot' = slot
      BY <1>7, <1>c, <2>1, AlongSame
      DEF PollPlay, Poll, CalmStep, Stopped, Started, Entering
    <2>2. CASE slot' # slot
      BY <1>7, <1>q, <2>2
      DEF PollPlay, Poll, Queue, Started, Wake, StageInv, CallerInv
    <2> QED
      BY <2>1, <2>2
  <1>8. CASE EndRun
    BY <1>8, <1>c, AlongSame
    DEF EndRun, CalmStep, Stopped, Started, Entering, coordVars
  <1>9. CASE StopEnter
    BY <1>9, <1>c, AlongSame
    DEF StopEnter, CalmStep, Stopped, Started, Entering, coordVars
  <1>10. CASE PollStop
    <2>1. CASE slot' = slot
      BY <1>10, <1>c, <2>1, AlongSame
      DEF PollStop, Poll, CalmStep, Stopped, Started, Entering
    <2>2. CASE slot' # slot
      BY <1>10, <1>q, <2>2 DEF PollStop, Poll, Queue, Started, Sleep
    <2> QED
      BY <2>1, <2>2
  <1>11. CASE Close
    BY <1>11, <1>c, AlongSame DEF Close, CalmStep, Stopped, Started, Entering
  <1> QED
    BY <1>1, <1>2, <1>3, <1>4, <1>5, <1>6, <1>7, <1>8, <1>9, <1>10, <1>11
    DEF Caller

\* The board keeps the order of the pipe.
LEMMA BoardPipe ==
    ASSUME TypeOK, TypeOK', PipeInv, BoardStep
    PROVE  PipeInv'
PROOF
  <1>h. UNCHANGED <<slot, mode, baseline, pc, verdict>>
    BY DEF BoardStep, hostVars
  <1>c. ASSUME \E m : Along(m), state' \in {state, "DISABLE"} \/ At(0, Wake)
        PROVE  PipeInv'
    <2>1. CalmStep
      BY <1>h, <1>c DEF CalmStep, Stopped
    <2> QED
      BY <2>1, CalmKeeps DEF PipeInv
  <1>1. CASE Board!Take
    BY <1>1, <1>h, <1>c, AlongTake DEF Board!Take
  <1>2. CASE Board!Obey
    <2>1. held \in HostSent /\ held.mid = "CONFIG" /\ state' = held.command
      BY <1>2, FrameKinds DEF Board!Obey, TypeOK
    <2>2. held = Request(held.command) /\ held.command \in Commands
      BY <2>1, FrameKinds
    <2>3. state' = "DISABLE" \/ At(0, Wake)
      BY <2>1, <2>2 DEF At, Wake, Commands
    <2>4. Along(Stay)
      BY <1>2, <1>h, AlongSame DEF Board!Obey
    <2> QED
      BY <1>c, <2>3, <2>4
  <1>3. CASE Board!Reply
    <2>1. held \in HostSent /\ held.mid = "CONFIG"
      BY <1>3, FrameKinds DEF Board!Reply, TypeOK
    <2>2. \/ UNCHANGED toHost
          \/ toHost' = Append(toHost, Board!Confirmation(held.command, state))
      BY <1>3 DEF Board!Reply, Board!Written
    <2>3. \E m : Along(m)
      BY <1>3, <1>h, <2>1, <2>2, AlongDropped, AlongAnswered DEF Board!Reply
    <2> QED
      BY <1>3, <1>c, <2>3 DEF Board!Reply
  <1>4. CASE Board!Dismiss
    BY <1>4, <1>h, <1>c, AlongDropped DEF Board!Dismiss
  <1>5. CASE Board!Overrun
    BY <1>5, <1>h, <1>c, AlongOverrun DEF Board!Overrun
  <1>6. CASE Board!Sample
    <2>1. UNCHANGED toHost \/ toHost' = Append(toHost, [mid |-> "DATA"])
      BY <1>6 DEF Board!Sample, Board!Written
    <2>2. \E m : Along(m)
      BY <1>6, <1>h, <2>1, AlongSame, AlongAnswered DEF Board!Sample
    <2> QED
      BY <1>6, <1>c, <2>2 DEF Board!Sample
  <1>7. CASE Board!Expire
    BY <1>7, <1>h, <1>c, AlongSame DEF Board!Expire
  <1>8. CASE Board!Reconfigure
    BY <1>8, <1>h, <1>c, AlongSame DEF Board!Reconfigure
  <1> QED
    BY <1>1, <1>2, <1>3, <1>4, <1>5, <1>6, <1>7, <1>8
       DEF BoardStep, Board!DeviceNext
-----------------------------------------------------------------------------
(* Theorems.                                                                 *)

LinkInv == TypeOK /\ StageInv /\ PipeInv

\* The order of the pipe and the stages of the caller, for every capacity of
\* the wire and whatever it loses.
THEOREM LinkInvariant == Spec => []LinkInv
PROOF
  <1>1. Init => LinkInv
    <2> SUFFICES ASSUME Init PROVE LinkInv
      OBVIOUS
    <2>1. TypeOK
      <3>1. HostTypeOK
        BY DEF Init, HostInit, HostTypeOK, NoCommand, Commands
      <3>2. toDaqc \in Seq(HostSent) /\ toHost \in Seq(BoardSent)
            /\ Len(toDaqc) <= MaxWire /\ Len(toHost) <= MaxWire
        BY WireAssumption DEF Init
      <3>3. state \in Commands /\ held = Board!NoFrame /\ configured \in BOOLEAN
        BY DEF Init, Board!DeviceInit, Commands
      <3> QED
        BY <3>1, <3>2, <3>3 DEF TypeOK
    <2>2. StageInv
      BY DEF Init, HostInit, StageInv, CallerInv, NothingLeftToSend, NoCommand,
             Wake, Started
    <2>3. PipeInv
      <3>1. Places = 0..1
        BY DEF Init, Places
      <3>a. /\ \A c : held # Request(c)
            /\ slot \notin Wake /\ slot \notin Sleep /\ Len(toDaqc) = 0
        BY DEF Init, HostInit, Board!DeviceInit, Board!NoFrame, Request,
               NoCommand, Wake, Sleep
      <3>2. \A p \in Places : \A S \in {Wake, Sleep} : ~At(p, S)
        BY <3>1, <3>a DEF At
      <3> QED
        BY <3>2 DEF Init, HostInit, PipeInv, OrderInv, StateInv, StoppedInv,
                    None, NoneBehind
    <2> QED
      BY <2>1, <2>2, <2>3 DEF LinkInv
  <1>2. LinkInv /\ [Next]_vars => LinkInv'
    <2> SUFFICES ASSUME LinkInv, [Next]_vars PROVE LinkInv'
      OBVIOUS
    <2> USE DEF LinkInv
    <2>1. StageInv'
      BY CallerStep
    <2>2. CASE OpenSession
      BY <2>1, <2>2, OpenTypes, OpenKeeps
    <2>3. CASE HostStep
      <3>1. TypeOK'
        BY <2>3, HostTypes
      <3> QED
        BY <2>1, <2>3, <3>1, WorkerPipe, CallerPipe DEF HostStep, HostNext
    <2>4. CASE BoardStep
      BY <2>1, <2>4, BoardTypes, BoardPipe
    <2>5. CASE UNCHANGED vars
      <3>1. TypeOK'
        BY <2>5 DEF vars, hostVars, boardVars, TypeOK, HostTypeOK
      <3>2. CalmStep
        BY <2>5, AlongSame DEF vars, hostVars, boardVars, CalmStep, Stopped
      <3> QED
        BY <2>1, <3>1, <3>2, CalmKeeps DEF PipeInv
    <2> QED
      BY <2>2, <2>3, <2>4, <2>5 DEF Next
  <1> QED
    BY <1>1, <1>2, PTL DEF Spec

\* The host, the wires and the board keep their types.
THEOREM LinkTyping == Spec => []TypeOK
PROOF
  <1>1. LinkInv => TypeOK
    BY DEF LinkInv
  <1> QED
    BY <1>1, LinkInvariant, PTL

\* DaqStateControlConfirmDisable precedes every ENABLE and STREAMING, although it
\* reads the mode before the confirmation count.
THEOREM LinkBaselineFirst == Spec => []BaselineFirst
PROOF
  <1>1. LinkInv => BaselineFirst
    BY DEF LinkInv, StageInv, CallerInv, Wake, BaselineFirst
  <1> QED
    BY <1>1, LinkInvariant, PTL

\* When the transition of DaqcRuntimeStop is confirmed, the board is in DISABLE
\* and nothing queued, on the wire or in its parser can wake it, for every
\* number of frames in flight, retries and losses.
THEOREM LinkStopConfirmedHolds == Spec => []StopConfirmedHolds
PROOF
  <1>1. ASSUME LinkInv PROVE StopConfirmedHolds
    <2> SUFFICES ASSUME verdict = "confirmed", pc \in {"close", "off"}
                 PROVE  state = "DISABLE" /\ InFlight \subseteq {"DISABLE", NoCommand}
      BY DEF StopConfirmedHolds
    <2> USE <1>1 DEF LinkInv
    <2>1. None(Wake) /\ state = "DISABLE"
      BY DEF PipeInv, StoppedInv
    <2>2. Len(toDaqc) \in Nat /\ Len(toHost) \in Nat /\ DOMAIN toDaqc = 1..Len(toDaqc)
      BY DEF TypeOK
    <2>3. 0 \in Places /\ Len(toDaqc) + 1 \in Places /\ 1..Len(toDaqc) \subseteq Places
      BY <2>2 DEF Places
    <2>4. slot \notin Wake
      BY <2>1, <2>3 DEF None, At
    <2>5. \A c \in Wake : held # Request(c)
      BY <2>1, <2>3 DEF None, At
    <2>6. \A i \in 1..Len(toDaqc) : \A c \in Wake : toDaqc[i] # Request(c)
      BY <2>1, <2>3 DEF None, At
    <2>7. \A i \in 1..Len(toDaqc) : toDaqc[i].mid = "CONFIG" => toDaqc[i].command = "DISABLE"
      <3> SUFFICES ASSUME NEW i \in 1..Len(toDaqc), toDaqc[i].mid = "CONFIG"
                   PROVE  toDaqc[i].command = "DISABLE"
        OBVIOUS
      <3>1. toDaqc[i] \in HostSent
        BY DEF TypeOK
      <3> QED
        BY <2>6, <3>1, FrameKinds DEF Commands, Wake
    <2>8. held.mid = "CONFIG" => held.command = "DISABLE"
      BY <2>5, FrameKinds DEF TypeOK, Commands, Wake
    <2>9. slot \in {"DISABLE", NoCommand}
      BY <2>4 DEF TypeOK, HostTypeOK, Commands, Wake
    <2> QED
      BY <2>1, <2>2, <2>7, <2>8, <2>9 DEF InFlight
  <1> QED
    BY <1>1, LinkInvariant, PTL

\* An output or an acknowledgement waits for the serial worker only in STREAMING:
\* DaqLinkStateConfirm drops both on every other confirmed command.
THEOREM LinkNothingLeftToSend == Spec => []NothingLeftToSend
PROOF
  <1>1. LinkInv => NothingLeftToSend
    BY DEF LinkInv, StageInv
  <1> QED
    BY <1>1, LinkInvariant, PTL
=============================================================================
