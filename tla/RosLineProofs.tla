---------------------------- MODULE RosLineProofs ----------------------------
(***************************************************************************)
(* Proofs about how a run configures the board over ROS, and about the     *)
(* serial line that carries the messages.                                  *)
(*                                                                         *)
(* RosControl: the three invariants of its run, for every number of        *)
(* sessions and every capacity of the topics.  Each needs an invariant of  *)
(* its own: AnnounceInv about the board's tasks, MineInv about what a      *)
(* session that began with a reset can find on the topics, and             *)
(* NoLostWakeup, which the types make inductive as it stands.              *)
(*                                                                         *)
(* SerialLine: the properties of its run, for every set of frames,         *)
(* payloads and datagrams, every number of them and every size of a byte,  *)
(* a payload, a queue and a buffer.  LineInv relates every byte on the way *)
(* to the frames that were sent; that a parser which has been in step      *)
(* holds the beginning of the next frame is PrefixParses.  GapInv relates  *)
(* the host's tracker to the places of the frames it has taken, DamageInv  *)
(* the bytes that are left after a loss to the frames already recovered.   *)
(***************************************************************************)
EXTENDS RosControl, SerialLine, SequenceTheorems, WellFoundedInduction, TLAPS


\* RosTask exists only while ROS is up, and starts with a publication pending;
\* from then on a state it has not published is announced by a request that is
\* pending or about to be made.
AnnounceInv ==
    /\ rosPc # "none" => rosUp
    /\ supPc # "sleep" => rosUp /\ rosPc = "none"
    /\ supPc = "create" => statePending
    /\ PublishedIsCurrent

\* In a session that began with a reset the board is unconfigured until it
\* meets the session's only setup, and says so in every DaqcState.
MineInv ==
    /\ pc = "off" => states = <<>> /\ lastState = NoState
    /\ applied <=> config # 0
    /\ fresh =>
         /\ pc \in {"baseline", "init", "enable", "setup"} => setups = <<>> /\ ~applied
         /\ setups # <<>> => setups = <<session>> /\ ~applied
         /\ config \in {0, session}
         /\ \A i \in 1..Len(states) : states[i].applied => applied
         /\ lastState.applied => applied
         /\ pc \in {"play", "streaming"} => applied

\* The conjuncts of TypeOK one by one, as the provers read them.
FlagTypes ==
    /\ applied \in BOOLEAN /\ rosUp \in BOOLEAN /\ statePending \in BOOLEAN
    /\ errors \in BOOLEAN /\ fresh \in BOOLEAN /\ node \in BOOLEAN
    /\ stopRequested \in BOOLEAN /\ lastError \in BOOLEAN /\ signalled \in BOOLEAN

PlaceTypes ==
    /\ state \in Commands /\ config \in 0..MaxSessions
    /\ supPc \in {"sleep", "started", "create"}
    /\ rosPc \in {"none", "spin", "announce", "state", "publish"}
    /\ commPc \in {"idle", "request", "confirm"} /\ ioPc \in {"idle", "request"}
    /\ published \in Commands \union {NoCommand}
    /\ uart \in Commands \union {NoCommand}
    /\ session \in 0..MaxSessions
    /\ pc \in {"off", "baseline", "init", "enable", "setup", "check", "blocked",
               "play", "streaming", "stop", "disable", "rosStop", "rosJoin"}
    /\ thread \in {"none", "top", "wait", "exited"}
    /\ pc = "off" \/ session > 0

QueueTypes ==
    /\ setups \in Seq(1..MaxSessions) /\ Len(setups) <= MaxQueue
    /\ states \in Seq(DaqcState) /\ Len(states) <= MaxQueue
    /\ lastState \in DaqcState \union {NoState}

RosInv == /\ FlagTypes /\ PlaceTypes /\ QueueTypes
          /\ AnnounceInv /\ MineInv /\ NoLostWakeup

-----------------------------------------------------------------------------
\* What a publication leaves on its topic.
LEMMA SentType ==
    ASSUME NEW F, NEW q \in Seq(F), Len(q) <= MaxQueue, NEW m \in F,
           NEW r \in Sent(q, m)
    PROVE  r \in Seq(F) /\ Len(r) <= MaxQueue
  BY RosAssumption DEF Sent

\* What is left of a topic when its first message is taken.
LEMMA TailType ==
    ASSUME NEW F, NEW q \in Seq(F), Len(q) <= MaxQueue, q # <<>>
    PROVE  /\ Tail(q) \in Seq(F) /\ Len(Tail(q)) <= MaxQueue
           /\ Head(q) \in F /\ Head(q) = q[1] /\ Tail(q) # q /\ Len(q) > 0
           /\ Len(Tail(q)) = Len(q) - 1
           /\ \A i \in 1..(Len(q) - 1) : Tail(q)[i] = q[i + 1]
  BY RosAssumption

\* PublishState puts the state and the flag it is given on the topic, or nothing.
LEMMA PublishedType ==
    ASSUME FlagTypes, PlaceTypes, QueueTypes, NEW a \in BOOLEAN, PublishState(a)
    PROVE  /\ states' \in Seq(DaqcState) /\ Len(states') <= MaxQueue
           /\ \/ states' = states
              \/ BridgeUp /\ states' = Append(states, [state |-> state, applied |-> a])
PROOF
  <1>1. [state |-> state, applied |-> a] \in DaqcState
    BY DEF PlaceTypes, DaqcState
  <1>2. \/ states' = states
        \/ BridgeUp /\ states' \in Sent(states, [state |-> state, applied |-> a])
    BY DEF PublishState, PublishErrors
  <1>3. states' \in Seq(DaqcState) /\ Len(states') <= MaxQueue
    BY <1>1, <1>2, SentType DEF QueueTypes
  <1> QED
    BY <1>2, <1>3 DEF Sent

\* The step a confirmation lets the caller take.
LEMMA ConfirmedPlace ==
    ASSUME PlaceTypes, CommConfirm
    PROVE  \/ UNCHANGED pc
           \/ pc = "baseline" /\ pc' = "init"
           \/ pc = "enable" /\ pc' = "setup"
           \/ pc = "play" /\ pc' = "streaming"
           \/ pc = "disable" /\ pc' = "rosStop"
  BY DEF PlaceTypes, CommConfirm, Asked, AfterConfirmation, Commands, NoCommand

\* Every step keeps the flags Boolean.
LEMMA FlagStep ==
    ASSUME RosInv, [Next]_vars
    PROVE  FlagTypes'
PROOF
  <1> USE DEF RosInv, FlagTypes
  <1>1. CASE SupervisorStart
    BY <1>1 DEF SupervisorStart, topics, hostVars, client
  <1>2. CASE SupervisorRequest
    BY <1>2 DEF SupervisorRequest, topics, hostVars, client
  <1>3. CASE SupervisorCreate
    BY <1>3 DEF SupervisorCreate, topics, hostVars, client
  <1>4. CASE RosSpin
    BY ZenonT(60), <1>4 DEF RosSpin, PublishErrors, SetupRefused, SetupFails,
        SetupApplied, hostVars, BridgeUp, SetupMatches, client
  <1>5. CASE RosTakeRequest
    BY <1>5 DEF RosTakeRequest, topics, hostVars, client
  <1>6. CASE RosPublish
    BY <1>6 DEF RosPublish, PublishState, hostVars, PublishErrors, Sent,
        BridgeUp, client
  <1>7. CASE CommApply
    BY <1>7 DEF CommApply, topics, hostVars, client
  <1>8. CASE CommRequest
    BY <1>8 DEF CommRequest, topics, hostVars, client
  <1>9. CASE CommConfirm
    BY <1>9 DEF CommConfirm, Asked, AfterConfirmation, topics, client
  <1>10. CASE IoDisable
    BY <1>10 DEF IoDisable, topics, hostVars, client
  <1>11. CASE IoRequest
    BY <1>11 DEF IoRequest, topics, hostVars, client
  <1>12. CASE ThreadTop
    BY <1>12 DEF ThreadTop, boardVars, topics
  <1>13. CASE ThreadWait
    BY <1>13 DEF ThreadWait, Undecided, Broadcast, boardVars
  <1>14. CASE OpenSession
    BY <1>14 DEF OpenSession, Boot, boardVars, client
  <1>15. CASE StartClient
    BY <1>15 DEF StartClient, boardVars, topics
  <1>16. CASE PublishSetup
    BY <1>16 DEF PublishSetup, Sent, boardVars, client
  <1>17. CASE WaitCheck
    BY <1>17 DEF WaitCheck, Confirmed, boardVars, topics, client
  <1>18. CASE Wake
    BY <1>18 DEF Wake, boardVars, topics
  <1>19. CASE StopEnter
    BY <1>19 DEF StopEnter, boardVars, topics, client
  <1>20. CASE RosStop
    BY <1>20 DEF RosStop, boardVars, topics
  <1>21. CASE RosJoin
    BY <1>21 DEF RosJoin, boardVars
  <1>22. CASE QueueCommand
    BY <1>22 DEF QueueCommand, Asked, Waiting, boardVars, topics, hostVars,
        client
  <1>23. CASE Deadline
    BY <1>23 DEF Deadline, Waiting, boardVars, topics, Asked
  <1>24. CASE EndRun
    BY <1>24 DEF EndRun, boardVars, topics, client
  <1>25. CASE UNCHANGED vars
    BY <1>25 DEF vars, boardVars, topics, hostVars, client
  <1> QED
    BY <1>1, <1>2, <1>3, <1>4, <1>5, <1>6, <1>7, <1>8, <1>9, <1>10, <1>11,
       <1>12, <1>13, <1>14, <1>15, <1>16, <1>17, <1>18, <1>19, <1>20, <1>21,
       <1>22, <1>23, <1>24, <1>25
       DEF Next, Supervisor, RosTask, BoardTasks, RosThread, Caller

\* Every step keeps the places, the state and the configuration.
LEMMA PlaceStep ==
    ASSUME RosInv, [Next]_vars
    PROVE  PlaceTypes'
PROOF
  <1> USE RosAssumption DEF RosInv, PlaceTypes, QueueTypes, Commands,
          NoCommand
  <1>1. CASE SupervisorStart
    BY <1>1 DEF SupervisorStart, topics, hostVars, client
  <1>2. CASE SupervisorRequest
    BY <1>2 DEF SupervisorRequest, topics, hostVars, client
  <1>3. CASE SupervisorCreate
    BY <1>3 DEF SupervisorCreate, topics, hostVars, client
  <1>4. CASE RosSpin
    BY <1>4 DEF RosSpin, PublishErrors, SetupRefused, SetupFails,
        SetupApplied, hostVars, BridgeUp, SetupMatches, client
  <1>5. CASE RosTakeRequest
    BY <1>5 DEF RosTakeRequest, topics, hostVars, client
  <1>6. CASE RosPublish
    BY <1>6 DEF RosPublish, PublishState, hostVars, PublishErrors, BridgeUp,
        client
  <1>7. CASE CommApply
    BY <1>7 DEF CommApply, topics, hostVars, client
  <1>8. CASE CommRequest
    BY <1>8 DEF CommRequest, topics, hostVars, client
  <1>9. CASE CommConfirm
    BY <1>9 DEF CommConfirm, Asked, AfterConfirmation, topics, client
  <1>10. CASE IoDisable
    BY <1>10 DEF IoDisable, topics, hostVars, client
  <1>11. CASE IoRequest
    BY <1>11 DEF IoRequest, topics, hostVars, client
  <1>12. CASE ThreadTop
    BY <1>12 DEF ThreadTop, boardVars, topics
  <1>13. CASE ThreadWait
    BY <1>13 DEF ThreadWait, boardVars
  <1>14. CASE OpenSession
    BY <1>14 DEF OpenSession, Boot, boardVars, client
  <1>15. CASE StartClient
    BY <1>15 DEF StartClient, boardVars, topics
  <1>16. CASE PublishSetup
    BY <1>16 DEF PublishSetup, boardVars, client
  <1>17. CASE WaitCheck
    BY <1>17 DEF WaitCheck, boardVars, topics, client
  <1>18. CASE Wake
    BY <1>18 DEF Wake, boardVars, topics
  <1>19. CASE StopEnter
    BY <1>19 DEF StopEnter, boardVars, topics, client
  <1>20. CASE RosStop
    BY <1>20 DEF RosStop, boardVars, topics
  <1>21. CASE RosJoin
    BY <1>21 DEF RosJoin, boardVars
  <1>22. CASE QueueCommand
    BY <1>22 DEF QueueCommand, Asked, Waiting, boardVars, topics, hostVars,
        client
  <1>23. CASE Deadline
    BY <1>23 DEF Deadline, Waiting, boardVars, topics, Asked
  <1>24. CASE EndRun
    BY <1>24 DEF EndRun, boardVars, topics, client
  <1>25. CASE UNCHANGED vars
    BY <1>25 DEF vars, boardVars, topics, hostVars, client
  <1> QED
    BY <1>1, <1>2, <1>3, <1>4, <1>5, <1>6, <1>7, <1>8, <1>9, <1>10, <1>11,
       <1>12, <1>13, <1>14, <1>15, <1>16, <1>17, <1>18, <1>19, <1>20, <1>21,
       <1>22, <1>23, <1>24, <1>25
       DEF Next, Supervisor, RosTask, BoardTasks, RosThread, Caller

\* Every step keeps what is on the topics.
LEMMA QueueStep ==
    ASSUME RosInv, [Next]_vars
    PROVE  QueueTypes'
PROOF
  <1> USE DEF RosInv, PlaceTypes, QueueTypes
  <1>1. CASE SupervisorStart
    BY <1>1 DEF SupervisorStart, topics, hostVars, client
  <1>2. CASE SupervisorRequest
    BY <1>2 DEF SupervisorRequest, topics, hostVars, client
  <1>3. CASE SupervisorCreate
    BY <1>3 DEF SupervisorCreate, topics, hostVars, client
  <1>4. CASE RosSpin
    <2>1. states' \in Seq(DaqcState) /\ Len(states') <= MaxQueue
      BY <1>4 DEF RosSpin, SetupRefused, SetupFails, SetupApplied
    <2>2. setups' \in Seq(1..MaxSessions) /\ Len(setups') <= MaxQueue
      BY <1>4, TailType DEF RosSpin
    <2> QED
      BY <1>4, <2>1, <2>2 DEF RosSpin, hostVars, client
  <1>5. CASE RosTakeRequest
    BY <1>5 DEF RosTakeRequest, topics, hostVars, client
  <1>6. CASE RosPublish
    <2>1. states' \in Seq(DaqcState) /\ Len(states') <= MaxQueue
      BY <1>6, PublishedType DEF RosPublish, FlagTypes
    <2> QED
      BY <1>6, <2>1 DEF RosPublish, hostVars, client
  <1>7. CASE CommApply
    BY <1>7 DEF CommApply, topics, hostVars, client
  <1>8. CASE CommRequest
    BY <1>8 DEF CommRequest, topics, hostVars, client
  <1>9. CASE CommConfirm
    BY <1>9 DEF CommConfirm, topics, client
  <1>10. CASE IoDisable
    BY <1>10 DEF IoDisable, topics, hostVars, client
  <1>11. CASE IoRequest
    BY <1>11 DEF IoRequest, topics, hostVars, client
  <1>12. CASE ThreadTop
    BY <1>12 DEF ThreadTop, boardVars, topics
  <1>13. CASE ThreadWait
    <2>1. states' \in Seq(DaqcState) /\ Len(states') <= MaxQueue
      BY <1>13, TailType DEF ThreadWait
    <2>2. lastState' \in DaqcState \union {NoState}
      BY <1>13, TailType DEF ThreadWait
    <2> QED
      BY <1>13, <2>1, <2>2 DEF ThreadWait
  <1>14. CASE OpenSession
    <2>1. <<>> \in Seq(1..MaxSessions) /\ Len(<<>>) <= MaxQueue
      BY RosAssumption
    <2> QED
      BY <1>14, <2>1 DEF OpenSession, boardVars, client
  <1>15. CASE StartClient
    BY <1>15 DEF StartClient, boardVars, topics
  <1>16. CASE PublishSetup
    <2>1. session \in 1..MaxSessions
      BY <1>16, RosAssumption DEF PublishSetup
    <2>2. setups' \in Seq(1..MaxSessions) /\ Len(setups') <= MaxQueue
      BY <1>16, <2>1, SentType DEF PublishSetup
    <2> QED
      BY <1>16, <2>2 DEF PublishSetup, client
  <1>17. CASE WaitCheck
    BY <1>17 DEF WaitCheck, boardVars, topics, client
  <1>18. CASE Wake
    BY <1>18 DEF Wake, boardVars, topics
  <1>19. CASE StopEnter
    BY <1>19 DEF StopEnter, boardVars, topics, client
  <1>20. CASE RosStop
    BY <1>20 DEF RosStop, boardVars, topics
  <1>21. CASE RosJoin
    <2>1. <<>> \in Seq(DaqcState) /\ Len(<<>>) <= MaxQueue
      BY RosAssumption
    <2> QED
      BY <1>21, <2>1 DEF RosJoin
  <1>22. CASE QueueCommand
    BY <1>22 DEF QueueCommand, boardVars, topics, hostVars, client
  <1>23. CASE Deadline
    BY <1>23 DEF Deadline, boardVars, topics
  <1>24. CASE EndRun
    BY <1>24 DEF EndRun, boardVars, topics, client
  <1>25. CASE UNCHANGED vars
    BY <1>25 DEF vars, boardVars, topics, hostVars, client
  <1> QED
    BY <1>1, <1>2, <1>3, <1>4, <1>5, <1>6, <1>7, <1>8, <1>9, <1>10, <1>11,
       <1>12, <1>13, <1>14, <1>15, <1>16, <1>17, <1>18, <1>19, <1>20, <1>21,
       <1>22, <1>23, <1>24, <1>25
       DEF Next, Supervisor, RosTask, BoardTasks, RosThread, Caller

\* No step leaves a state unannounced.
LEMMA AnnounceStep ==
    ASSUME RosInv, [Next]_vars
    PROVE  AnnounceInv'
PROOF
  <1> USE DEF RosInv, FlagTypes, PlaceTypes, AnnounceInv, PublishedIsCurrent,
          NoCommand, Commands
  <1>1. CASE SupervisorStart
    BY <1>1 DEF SupervisorStart, topics, hostVars, client
  <1>2. CASE SupervisorRequest
    BY <1>2 DEF SupervisorRequest, topics, hostVars, client
  <1>3. CASE SupervisorCreate
    BY <1>3 DEF SupervisorCreate, topics, hostVars, client
  <1>4. CASE RosSpin
    BY <1>4 DEF RosSpin, PublishErrors, SetupRefused, SetupFails,
        SetupApplied, hostVars, BridgeUp, SetupMatches, client
  <1>5. CASE RosTakeRequest
    BY <1>5 DEF RosTakeRequest, topics, hostVars, client
  <1>6. CASE RosPublish
    BY <1>6 DEF RosPublish, PublishState, hostVars, PublishErrors, BridgeUp,
        client
  <1>7. CASE CommApply
    BY <1>7 DEF CommApply, topics, hostVars, client
  <1>8. CASE CommRequest
    BY <1>8 DEF CommRequest, topics, hostVars, client
  <1>9. CASE CommConfirm
    BY <1>9 DEF CommConfirm, Asked, AfterConfirmation, topics, client
  <1>10. CASE IoDisable
    BY <1>10 DEF IoDisable, topics, hostVars, client
  <1>11. CASE IoRequest
    BY <1>11 DEF IoRequest, topics, hostVars, client
  <1>12. CASE ThreadTop
    BY <1>12 DEF ThreadTop, boardVars, topics
  <1>13. CASE ThreadWait
    BY <1>13 DEF ThreadWait, boardVars
  <1>14. CASE OpenSession
    BY <1>14 DEF OpenSession, Boot, boardVars, client
  <1>15. CASE StartClient
    BY <1>15 DEF StartClient, boardVars, topics
  <1>16. CASE PublishSetup
    BY <1>16 DEF PublishSetup, boardVars, client
  <1>17. CASE WaitCheck
    BY <1>17 DEF WaitCheck, boardVars, topics, client
  <1>18. CASE Wake
    BY <1>18 DEF Wake, boardVars, topics
  <1>19. CASE StopEnter
    BY <1>19 DEF StopEnter, boardVars, topics, client
  <1>20. CASE RosStop
    BY <1>20 DEF RosStop, boardVars, topics
  <1>21. CASE RosJoin
    BY <1>21 DEF RosJoin, boardVars
  <1>22. CASE QueueCommand
    BY <1>22 DEF QueueCommand, Asked, Waiting, boardVars, topics, hostVars,
        client
  <1>23. CASE Deadline
    BY <1>23 DEF Deadline, Waiting, boardVars, topics, Asked
  <1>24. CASE EndRun
    BY <1>24 DEF EndRun, boardVars, topics, client
  <1>25. CASE UNCHANGED vars
    BY <1>25 DEF vars, boardVars, topics, hostVars, client
  <1> QED
    BY <1>1, <1>2, <1>3, <1>4, <1>5, <1>6, <1>7, <1>8, <1>9, <1>10, <1>11,
       <1>12, <1>13, <1>14, <1>15, <1>16, <1>17, <1>18, <1>19, <1>20, <1>21,
       <1>22, <1>23, <1>24, <1>25
       DEF Next, Supervisor, RosTask, BoardTasks, RosThread, Caller

\* No step lets the caller sleep through what it waits for.
LEMMA WakeupStep ==
    ASSUME RosInv, [Next]_vars
    PROVE  NoLostWakeup'
PROOF
  <1> USE DEF RosInv, FlagTypes, NoLostWakeup, Confirmed
  <1>1. CASE SupervisorStart
    BY <1>1 DEF SupervisorStart, topics, hostVars, client
  <1>2. CASE SupervisorRequest
    BY <1>2 DEF SupervisorRequest, topics, hostVars, client
  <1>3. CASE SupervisorCreate
    BY <1>3 DEF SupervisorCreate, topics, hostVars, client
  <1>4. CASE RosSpin
    BY <1>4 DEF RosSpin, PublishErrors, SetupRefused, SetupFails,
        SetupApplied, hostVars, BridgeUp, SetupMatches, client
  <1>5. CASE RosTakeRequest
    BY <1>5 DEF RosTakeRequest, topics, hostVars, client
  <1>6. CASE RosPublish
    BY <1>6 DEF RosPublish, PublishState, hostVars, PublishErrors, BridgeUp,
        client
  <1>7. CASE CommApply
    BY <1>7 DEF CommApply, topics, hostVars, client
  <1>8. CASE CommRequest
    BY <1>8 DEF CommRequest, topics, hostVars, client
  <1>9. CASE CommConfirm
    BY <1>9, ConfirmedPlace DEF CommConfirm, client
  <1>10. CASE IoDisable
    BY <1>10 DEF IoDisable, topics, hostVars, client
  <1>11. CASE IoRequest
    BY <1>11 DEF IoRequest, topics, hostVars, client
  <1>12. CASE ThreadTop
    BY <1>12 DEF ThreadTop, boardVars, topics
  <1>13. CASE ThreadWait
    <2>1. lastState' # lastState => states' # states
      BY <1>13, TailType DEF ThreadWait, QueueTypes
    <2>2. lastError' # lastError => errors' # errors
      BY <1>13 DEF ThreadWait
    <2>3. states' # states \/ errors' # errors => signalled' = (signalled \/ pc = "blocked")
      BY <1>13 DEF ThreadWait, Broadcast
    <2>4. states' = states /\ errors' = errors => UNCHANGED signalled
      BY <1>13 DEF ThreadWait
    <2> QED
      BY <1>13, <2>1, <2>2, <2>3, <2>4 DEF ThreadWait
  <1>14. CASE OpenSession
    BY <1>14 DEF OpenSession, Boot, boardVars, client
  <1>15. CASE StartClient
    BY <1>15 DEF StartClient, boardVars, topics
  <1>16. CASE PublishSetup
    BY <1>16 DEF PublishSetup, boardVars, client
  <1>17. CASE WaitCheck
    BY <1>17 DEF WaitCheck, Confirmed, boardVars, topics, client
  <1>18. CASE Wake
    BY <1>18 DEF Wake, boardVars, topics
  <1>19. CASE StopEnter
    BY <1>19 DEF StopEnter, boardVars, topics, client
  <1>20. CASE RosStop
    BY <1>20 DEF RosStop, boardVars, topics
  <1>21. CASE RosJoin
    BY <1>21 DEF RosJoin, boardVars
  <1>22. CASE QueueCommand
    BY <1>22 DEF QueueCommand, Asked, Waiting, boardVars, topics, hostVars,
        client
  <1>23. CASE Deadline
    BY <1>23 DEF Deadline, Waiting, boardVars, topics, Asked
  <1>24. CASE EndRun
    BY <1>24 DEF EndRun, boardVars, topics, client
  <1>25. CASE UNCHANGED vars
    BY <1>25 DEF vars, boardVars, topics, hostVars, client
  <1> QED
    BY <1>1, <1>2, <1>3, <1>4, <1>5, <1>6, <1>7, <1>8, <1>9, <1>10, <1>11,
       <1>12, <1>13, <1>14, <1>15, <1>16, <1>17, <1>18, <1>19, <1>20, <1>21,
       <1>22, <1>23, <1>24, <1>25
       DEF Next, Supervisor, RosTask, BoardTasks, RosThread, Caller

\* No step puts another session's configuration where this one looks.
LEMMA MineStep ==
    ASSUME RosInv, [Next]_vars
    PROVE  MineInv'
PROOF
  <1> USE DEF RosInv, FlagTypes, PlaceTypes, QueueTypes, MineInv
  <1>1. CASE SupervisorStart
    BY <1>1 DEF SupervisorStart, topics, hostVars, client
  <1>2. CASE SupervisorRequest
    BY <1>2 DEF SupervisorRequest, topics, hostVars, client
  <1>3. CASE SupervisorCreate
    BY <1>3 DEF SupervisorCreate, topics, hostVars, client
  <1>4. CASE RosSpin
    <2>1. CASE UNCHANGED <<setups, config, applied, states>>
      BY <1>4, <2>1 DEF RosSpin, hostVars, client
    <2>2. CASE /\ setups # <<>> /\ setups' = Tail(setups)
               /\ SetupRefused \/ SetupFails \/ SetupApplied
      <3>a. <<session>> # <<>> /\ Tail(<<session>>) = <<>> /\ Head(<<session>>) = session
        OBVIOUS
      <3>b. setups = <<session>> => session \in 1..MaxSessions
        BY <2>2, <3>a, TailType
      <3>1. fresh => Tail(setups) = <<>> /\ Head(setups) = session /\ session # 0
        BY <2>2, <3>a, <3>b
      <3>2. Head(setups) \in 1..MaxSessions
        BY <2>2, TailType
      <3>3. CASE SetupRefused
        BY <1>4, <2>2, <3>1, <3>3 DEF RosSpin, SetupRefused, hostVars, client
      <3>4. CASE SetupFails
        BY <1>4, <2>2, <3>1, <3>4 DEF RosSpin, SetupFails, hostVars, client
      <3>5. CASE SetupApplied
        <4>1. applied' = TRUE /\ config' = Head(setups) /\ config' # 0
          BY <3>2, <3>5 DEF SetupApplied
        <4>2. states' = states
          BY <3>5 DEF SetupApplied
        <4>3. UNCHANGED <<pc, fresh, session, lastState>>
          BY <1>4 DEF RosSpin, hostVars, client
        <4>4. pc \in {"baseline", "init", "enable", "setup"} => ~fresh
          BY <2>2
        <4> QED
          BY <2>2, <3>1, <4>1, <4>2, <4>3, <4>4
      <3> QED
        BY <2>2, <3>3, <3>4, <3>5
    <2> QED
      BY <1>4, <2>1, <2>2 DEF RosSpin
  <1>5. CASE RosTakeRequest
    BY <1>5 DEF RosTakeRequest, topics, hostVars, client
  <1>6. CASE RosPublish
    <2>1. UNCHANGED <<pc, fresh, session, lastState, applied, config, setups>>
      BY <1>6 DEF RosPublish, hostVars, client
    <2>2. \/ states' = states
          \/ pc # "off" /\ states' = Append(states, [state |-> state, applied |-> applied])
      BY <1>6, PublishedType DEF RosPublish, BridgeUp
    <2>3. fresh => \A i \in 1..Len(states') : states'[i].applied => applied
      <3>1. CASE states' = states
        BY <3>1
      <3>2. CASE states' = Append(states, [state |-> state, applied |-> applied])
        <4>1. /\ Len(states') = Len(states) + 1 /\ Len(states) \in Nat
              /\ \A i \in 1..Len(states) : states'[i] = states[i]
              /\ states'[Len(states) + 1] = [state |-> state, applied |-> applied]
          BY <3>2
        <4>2. \A i \in 1..Len(states') : i \in 1..Len(states) \/ i = Len(states) + 1
          BY <4>1
        <4> QED
          BY <4>1, <4>2
      <3> QED
        BY <2>2, <3>1, <3>2
    <2> QED
      BY <2>1, <2>2, <2>3
  <1>7. CASE CommApply
    BY <1>7 DEF CommApply, topics, hostVars, client
  <1>8. CASE CommRequest
    BY <1>8 DEF CommRequest, topics, hostVars, client
  <1>9. CASE CommConfirm
    BY <1>9, ConfirmedPlace DEF CommConfirm, topics, client
  <1>10. CASE IoDisable
    BY <1>10 DEF IoDisable, topics, hostVars, client
  <1>11. CASE IoRequest
    BY <1>11 DEF IoRequest, topics, hostVars, client
  <1>12. CASE ThreadTop
    BY <1>12 DEF ThreadTop, boardVars, topics
  <1>13. CASE ThreadWait
    <2>1. UNCHANGED <<pc, fresh, session, applied, config, setups>>
      BY <1>13 DEF ThreadWait, boardVars
    <2>2. CASE UNCHANGED <<states, lastState>>
      BY <2>1, <2>2
    <2>3. CASE /\ states # <<>> /\ states' = Tail(states)
               /\ lastState' \in {Head(states), lastState}
      <3>1. fresh /\ Head(states).applied => applied
        BY <2>3, TailType
      <3>2. fresh => \A i \in 1..Len(states') : states'[i].applied => applied
        BY <2>3, TailType
      <3> QED
        BY <2>1, <2>3, <3>1, <3>2
    <2> QED
      BY <1>13, <2>2, <2>3 DEF ThreadWait
  <1>14. CASE OpenSession
    <2>1. /\ pc = "off" /\ pc' = "baseline" /\ states' = <<>> /\ lastState' = NoState
      BY <1>14 DEF OpenSession, client
    <2>2. CASE fresh' = FALSE /\ UNCHANGED <<boardVars, setups>>
      BY <2>1, <2>2 DEF boardVars
    <2>3. CASE fresh' = TRUE /\ Boot /\ setups' = <<>>
      BY <2>1, <2>3 DEF Boot, NoState
    <2> QED
      BY <1>14, <2>2, <2>3 DEF OpenSession
  <1>15. CASE StartClient
    BY <1>15 DEF StartClient, boardVars, topics
  <1>16. CASE PublishSetup
    <2>1. UNCHANGED <<fresh, session, lastState, applied, config, states>>
      BY <1>16 DEF PublishSetup, boardVars, client
    <2>2. pc = "setup" /\ pc' \in {"stop", "check"}
      BY <1>16 DEF PublishSetup
    <2>3. setups' = setups \/ setups' = Append(setups, session)
      BY <1>16 DEF PublishSetup, Sent
    <2>4. fresh => setups' = <<>> \/ setups' = <<session>>
      BY <2>2, <2>3
    <2> QED
      BY <2>1, <2>2, <2>4
  <1>17. CASE WaitCheck
    BY <1>17 DEF WaitCheck, Confirmed, boardVars, topics, client
  <1>18. CASE Wake
    BY <1>18 DEF Wake, boardVars, topics
  <1>19. CASE StopEnter
    BY <1>19 DEF StopEnter, boardVars, topics, client
  <1>20. CASE RosStop
    BY <1>20 DEF RosStop, boardVars, topics
  <1>21. CASE RosJoin
    BY <1>21 DEF RosJoin, boardVars, NoState
  <1>22. CASE QueueCommand
    BY <1>22 DEF QueueCommand, boardVars, topics, hostVars, client
  <1>23. CASE Deadline
    BY <1>23 DEF Deadline, boardVars, topics
  <1>24. CASE EndRun
    BY <1>24 DEF EndRun, boardVars, topics, client
  <1>25. CASE UNCHANGED vars
    BY <1>25 DEF vars, boardVars, topics, hostVars, client
  <1> QED
    BY <1>1, <1>2, <1>3, <1>4, <1>5, <1>6, <1>7, <1>8, <1>9, <1>10, <1>11,
       <1>12, <1>13, <1>14, <1>15, <1>16, <1>17, <1>18, <1>19, <1>20, <1>21,
       <1>22, <1>23, <1>24, <1>25
       DEF Next, Supervisor, RosTask, BoardTasks, RosThread, Caller

-----------------------------------------------------------------------------
\* The invariant of the two nodes, for every number of sessions and every
\* capacity of the topics.
THEOREM RosInvariant == Spec => []RosInv
PROOF
  <1>1. Init => RosInv
    <2> SUFFICES ASSUME Init PROVE RosInv
      OBVIOUS
    <2> USE DEF Init, Booted, ClientOff
    <2>1. FlagTypes
      BY DEF FlagTypes
    <2>2. PlaceTypes
      BY RosAssumption DEF PlaceTypes, Commands, NoCommand
    <2>3. QueueTypes
      BY RosAssumption DEF QueueTypes
    <2>4. AnnounceInv
      BY DEF AnnounceInv, PublishedIsCurrent
    <2>5. MineInv
      BY DEF MineInv
    <2>6. NoLostWakeup
      BY DEF NoLostWakeup
    <2> QED
      BY <2>1, <2>2, <2>3, <2>4, <2>5, <2>6 DEF RosInv
  <1>2. RosInv /\ [Next]_vars => RosInv'
    BY FlagStep, PlaceStep, QueueStep, AnnounceStep, MineStep, WakeupStep
    DEF RosInv
  <1> QED
    BY <1>1, <1>2, PTL DEF Spec

\* The state of the board, of the topics and of the host's client keep their types.
THEOREM RosTyping == Spec => []TypeOK
PROOF
  <1>1. RosInv => TypeOK
    BY DEF RosInv, FlagTypes, PlaceTypes, QueueTypes, TypeOK
  <1> QED
    BY <1>1, RosInvariant, PTL

\* In a run that began with a reset, DaqcRosControlWaitConfiguration succeeds only
\* on the configuration that run asked for, and the board keeps it while the run
\* streams, however many sessions there were before.
THEOREM RosConfirmedIsMine == Spec => []ConfirmedIsMine
PROOF
  <1>1. RosInv => ConfirmedIsMine
    BY DEF RosInv, MineInv, ConfirmedIsMine
  <1> QED
    BY <1>1, RosInvariant, PTL

\* With no request pending or about to be made, what RosTask published last is the
\* state of the board, whichever task changed it and whenever ROS came up.
THEOREM RosPublishedIsCurrent == Spec => []PublishedIsCurrent
PROOF
  <1>1. RosInv => PublishedIsCurrent
    BY DEF RosInv, AnnounceInv
  <1> QED
    BY <1>1, RosInvariant, PTL

\* The caller of DaqcRosControlWaitConfiguration never sleeps on an answer that has
\* arrived unless the broadcast is on its way to it.
THEOREM RosNoLostWakeup == Spec => []NoLostWakeup
PROOF
  <1>1. RosInv => NoLostWakeup
    BY DEF RosInv
  <1> QED
    BY <1>1, RosInvariant, PTL

-----------------------------------------------------------------------------
(* The serial line: sequences of bytes and their concatenation.             *)

LEMMA LeastNatural ==
  ASSUME NEW T, T \subseteq Nat, T # {}
  PROVE  \E x \in T : \A y \in T : x <= y
<1> DEFINE R == OpToRel(<, Nat)
<1>1. IsWellFoundedOn(R, Nat)
  BY NatLessThanWellFounded
<1>2. \A x, y \in Nat : y < x => <<y, x>> \in R
  BY DEF OpToRel
<1> HIDE DEF R
<1>3. PICK x \in T : \A y \in T : ~ (<<y, x>> \in R)
  BY <1>1, WFMin
<1>4. ASSUME NEW y \in T PROVE x <= y
  <2>1. x \in Nat /\ y \in Nat /\ ~(<<y, x>> \in R)
    BY <1>3
  <2>2. ~(y < x)
    BY <1>2, <2>1
  <2> QED BY <2>1, <2>2
<1> QED BY <1>4

\* f[i] joins the first i of the sequences in s.
Joins(f, s, n) == f = [i \in 1..n |-> IF i = 1 THEN s[i] ELSE f[i - 1] \o s[i]]

\* Two sequences begin with the same n elements.
Agree(s, t, n) == \A i \in 1..n : s[i] = t[i]

\* There is such a function,
LEMMA JoinExists ==
  ASSUME NEW T, NEW s \in Seq(Seq(T)), NEW n \in 0..Len(s)
  PROVE  \E f \in [1..n -> Seq(T)] : Joins(f, s, n)
<1> DEFINE Good(k) == \E f \in [1..k -> Seq(T)] : Joins(f, s, k)
           Bad == {k \in 0..Len(s) : ~Good(k)}
<1>0. Len(s) \in Nat /\ \A i \in 1..Len(s) : s[i] \in Seq(T)
  OBVIOUS
<1>1. ASSUME NEW k \in 0..Len(s), k < Len(s), Good(k)
      PROVE  Good(k + 1)
  <2>1. PICK f \in [1..k -> Seq(T)] : Joins(f, s, k)
    BY <1>1
  <2> DEFINE g == [i \in 1..(k + 1) |-> IF i \in 1..k THEN f[i]
                                        ELSE IF i = 1 THEN s[i] ELSE f[i - 1] \o s[i]]
  <2>2. \A i \in 1..k : f[i] = IF i = 1 THEN s[i] ELSE f[i - 1] \o s[i]
    BY <2>1 DEF Joins
  <2>3. ASSUME NEW i \in 1..(k + 1)
        PROVE  /\ g[i] \in Seq(T)
               /\ g[i] = IF i = 1 THEN s[i] ELSE g[i - 1] \o s[i]
    <3>1. i \in Nat /\ k \in Nat /\ s[i] \in Seq(T)
      BY <1>0, <1>1
    <3>2. CASE i \in 1..k
      <4>1. g[i] = f[i] /\ (i # 1 => i - 1 \in 1..k /\ i - 1 \in 1..(k + 1) /\ g[i - 1] = f[i - 1])
        BY <3>1, <3>2
      <4> QED BY <2>2, <3>2, <4>1
    <3>3. CASE i = k + 1 /\ i = 1
      BY <3>1, <3>3
    <3>4. CASE i = k + 1 /\ i # 1
      <4>1. i - 1 \in 1..k /\ i - 1 \in 1..(k + 1) /\ g[i - 1] = f[i - 1] /\ ~(i \in 1..k)
        BY <3>1, <3>4
      <4>2. g[i] = f[i - 1] \o s[i] /\ f[i - 1] \in Seq(T)
        BY <3>4, <4>1
      <4> QED BY <3>1, <3>4, <4>1, <4>2, ConcatProperties
    <3> QED BY <3>1, <3>2, <3>3, <3>4
  <2>4. g = [i \in 1..(k + 1) |-> g[i]]
    OBVIOUS
  <2> HIDE DEF g
  <2>5. g \in [1..(k + 1) -> Seq(T)]
    BY <2>3, <2>4
  <2>6. Joins(g, s, k + 1)
    BY <2>3, <2>4 DEF Joins
  <2> QED BY <2>5, <2>6
<1>2. Good(0)
  <2> DEFINE f == [i \in 1..0 |-> s[i]]
  <2>1. f \in [1..0 -> Seq(T)] /\ Joins(f, s, 0)
    BY DEF Joins
  <2> QED BY <2>1
<1> HIDE DEF Good
<1>3. Bad = {}
  <2> SUFFICES ASSUME Bad # {} PROVE FALSE
    OBVIOUS
  <2>1. PICK k \in Bad : \A l \in Bad : k <= l
    <3>1. Bad \subseteq Nat
      OBVIOUS
    <3> HIDE DEF Bad
    <3> QED BY <3>1, LeastNatural
  <2>2. k \in 0..Len(s) /\ ~Good(k) /\ k # 0
    BY <1>2, <2>1
  <2>3. k - 1 \in 0..Len(s) /\ k - 1 < Len(s) /\ (k - 1) + 1 = k /\ ~(k - 1 \in Bad)
    <3>1. k - 1 \in 0..Len(s) /\ k - 1 < Len(s) /\ (k - 1) + 1 = k /\ ~(k <= k - 1)
      BY <1>0, <2>2
    <3> HIDE DEF Bad
    <3> QED BY <2>1, <3>1
  <2>4. Good(k - 1)
    BY <2>3
  <2> QED BY <1>1, <2>2, <2>3, <2>4
<1> QED BY <1>3 DEF Good

\* and only one.
LEMMA JoinUnique ==
  ASSUME NEW n \in Nat, NEW m \in Nat, n <= m, NEW s, NEW t,
         Agree(s, t, n), NEW f, Joins(f, s, n), NEW g, Joins(g, t, m)
  PROVE  Agree(f, g, n)
<1> USE DEF Agree
<1> DEFINE Bad == {i \in 1..n : f[i] # g[i]}
<1>1. /\ \A i \in 1..n : f[i] = IF i = 1 THEN s[i] ELSE f[i - 1] \o s[i]
      /\ \A i \in 1..m : g[i] = IF i = 1 THEN t[i] ELSE g[i - 1] \o t[i]
  BY DEF Joins
<1>2. SUFFICES ASSUME Bad # {} PROVE FALSE
  OBVIOUS
<1>3. PICK k \in Bad : \A l \in Bad : k <= l
  <2>1. Bad \subseteq Nat
    OBVIOUS
  <2> HIDE DEF Bad
  <2> QED BY <1>2, <2>1, LeastNatural
<1>4. k \in 1..n /\ k \in 1..m /\ f[k] # g[k] /\ s[k] = t[k]
  BY <1>3
<1>5. k # 1
  BY <1>1, <1>4
<1>6. k - 1 \in 1..n /\ ~(k <= k - 1)
  BY <1>4, <1>5
<1>7. f[k - 1] = g[k - 1]
  <2>1. ~(k - 1 \in Bad)
    <3> HIDE DEF Bad
    <3> QED BY <1>3, <1>6
  <2> QED BY <1>6, <2>1
<1> QED BY <1>1, <1>4, <1>5, <1>7

\* FlattenSeq is the last value of that function.
LEMMA FlattenIsJoin ==
  ASSUME NEW T, NEW s \in Seq(Seq(T)), Len(s) # 0
  PROVE  \E f \in [1..Len(s) -> Seq(T)] :
            Joins(f, s, Len(s)) /\ FlattenSeq(s) = f[Len(s)]
<1> DEFINE n == Len(s)
           f == CHOOSE g : g = [i \in 1..n |-> IF i = 1 THEN s[i] ELSE g[i - 1] \o s[i]]
<1>1. FlattenSeq(s) = f[n]
  BY DEF FlattenSeq
<1>2. n \in Nat /\ n \in 0..n
  OBVIOUS
<1>3. PICK h \in [1..n -> Seq(T)] : Joins(h, s, n)
  BY <1>2, JoinExists
<1>4. f = [i \in 1..n |-> IF i = 1 THEN s[i] ELSE f[i - 1] \o s[i]]
  BY <1>3, Zenon DEF Joins
<1>5. Joins(f, s, n)
  BY <1>4, Zenon DEF Joins
<1> HIDE DEF f, n
<1>6. DOMAIN f = 1..n
  BY <1>4
<1>7. f = [i \in 1..n |-> f[i]]
  BY <1>4, <1>6
<1>8. \A i \in 1..n : f[i] = h[i]
  <2>1. n <= n /\ Agree(s, s, n)
    BY <1>2 DEF Agree
  <2>2. Agree(f, h, n)
    BY <1>2, <1>3, <1>5, <2>1, JoinUnique, Zenon
  <2> QED BY <2>2 DEF Agree
<1>9. f \in [1..n -> Seq(T)]
  BY <1>3, <1>7, <1>8
<1> QED BY <1>1, <1>5, <1>9 DEF n

\* Joining nothing, and one more.
LEMMA FlattenAppend ==
  ASSUME NEW T, NEW s \in Seq(Seq(T)), NEW x \in Seq(T)
  PROVE  /\ FlattenSeq(<<>>) = <<>>
         /\ FlattenSeq(s) \in Seq(T)
         /\ FlattenSeq(Append(s, x)) = FlattenSeq(s) \o x
<1> DEFINE t == Append(s, x)
           n == Len(s)
<1>1. FlattenSeq(<<>>) = <<>>
  BY DEF FlattenSeq
<1>2. /\ n \in Nat /\ t \in Seq(Seq(T)) /\ Len(t) = n + 1 /\ t[n + 1] = x
      /\ \A i \in 1..n : s[i] = t[i]
  BY AppendProperties
<1> HIDE DEF t
<1>3. PICK g \in [1..(n + 1) -> Seq(T)] :
         Joins(g, t, n + 1) /\ FlattenSeq(t) = g[n + 1]
  BY <1>2, FlattenIsJoin
<1>4. g[n + 1] = IF n + 1 = 1 THEN t[n + 1] ELSE g[n] \o t[n + 1]
  <2>1. n + 1 \in 1..(n + 1) /\ (n + 1) - 1 = n
    BY <1>2
  <2>2. \A i \in 1..(n + 1) : g[i] = IF i = 1 THEN t[i] ELSE g[i - 1] \o t[i]
    BY <1>3 DEF Joins
  <2> HIDE DEF n
  <2> QED BY <2>1, <2>2
<1>5. CASE n = 0
  <2>1. s = <<>>
    BY <1>5, EmptySeq
  <2>2. FlattenSeq(s) = <<>>
    BY <1>1, <2>1
  <2>3. FlattenSeq(t) = x
    BY <1>2, <1>3, <1>4, <1>5
  <2> QED BY <1>1, <2>2, <2>3, ConcatEmptySeq DEF t
<1>6. CASE n # 0
  <2>1. PICK f \in [1..n -> Seq(T)] : Joins(f, s, n) /\ FlattenSeq(s) = f[n]
    BY <1>6, FlattenIsJoin
  <2>2. \A i \in 1..n : f[i] = g[i]
    <3>1. n \in Nat /\ n + 1 \in Nat /\ n <= n + 1
      BY <1>2
    <3>2. Agree(s, t, n)
      BY <1>2 DEF Agree
    <3> DEFINE m == n + 1
    <3>3. m \in Nat /\ n <= m /\ Joins(f, s, n) /\ Joins(g, t, m)
      BY <1>3, <2>1, <3>1
    <3> HIDE DEF n, m
    <3>4. Agree(f, g, n)
      BY <3>1, <3>2, <3>3, JoinUnique, Zenon
    <3> QED BY <3>4 DEF Agree
  <2>3. n \in 1..n /\ n + 1 # 1
    BY <1>2, <1>6
  <2>4. FlattenSeq(t) = FlattenSeq(s) \o x /\ FlattenSeq(s) \in Seq(T)
    BY <1>2, <1>3, <1>4, <2>1, <2>2, <2>3
  <2> QED BY <1>1, <2>4 DEF t
<1> QED BY <1>5, <1>6

\* Induction from a to b.
LEMMA Climb ==
  ASSUME NEW a \in Nat, NEW b \in Nat, NEW G, a \in G,
         \A m \in a..b : m < b /\ m \in G => m + 1 \in G
  PROVE  \A m \in a..b : m \in G
<1> DEFINE Bad == {m \in a..b : ~(m \in G)}
<1>1. SUFFICES ASSUME Bad # {} PROVE FALSE
  OBVIOUS
<1>2. PICK m \in Bad : \A l \in Bad : m <= l
  <2>1. Bad \subseteq Nat
    OBVIOUS
  <2> HIDE DEF Bad
  <2> QED BY <1>1, <2>1, LeastNatural
<1>3. m \in a..b /\ ~(m \in G) /\ m # a
  BY <1>2
<1>4. m - 1 \in a..b /\ m - 1 < b /\ (m - 1) + 1 = m /\ ~(m <= m - 1)
  BY <1>3
<1>5. ~(m - 1 \in Bad)
  <2> HIDE DEF Bad
  <2> QED BY <1>2, <1>4
<1>6. m - 1 \in G
  BY <1>4, <1>5
<1> QED BY <1>3, <1>4, <1>6

\* What a part of a sequence of sequences is, and the part one longer.
LEMMA SubSeqGrows ==
  ASSUME NEW S, NEW s \in Seq(S), NEW a \in 1..(Len(s) + 1), NEW m \in Nat,
         a <= m + 1, m < Len(s)
  PROVE  /\ SubSeq(s, a, m) \in Seq(S) /\ s[m + 1] \in S
         /\ SubSeq(s, a, m + 1) = Append(SubSeq(s, a, m), s[m + 1])
<1>1. Len(s) \in Nat /\ a \in Nat /\ m + 1 \in 1..Len(s) /\ s[m + 1] \in S
  OBVIOUS
<1>2. \A i \in a..(m + 1) : s[i] \in S
  BY <1>1
<1>3. SubSeq(s, a, m) \in Seq(S)
  <2>1. \A i \in a..m : s[i] \in S
    BY <1>1
  <2> QED BY <1>1, <2>1, SubSeqProperties
<1>4. SubSeq(s, a, m + 1) = SubSeq(s, a, (m + 1) - 1) \o <<s[m + 1]>>
  <2>1. a \in 1..Len(s) /\ m + 1 \in a..Len(s)
    BY <1>1
  <2> DEFINE n == m + 1
  <2>2. n \in a..Len(s)
    BY <2>1
  <2>3. SubSeq(s, a, n) = SubSeq(s, a, n - 1) \o <<s[n]>>
    <3> HIDE DEF n
    <3> QED BY <2>1, <2>2, SubSeqRecursiveSecond
  <2> QED BY <2>3
<1>5. (m + 1) - 1 = m
  OBVIOUS
<1> QED BY <1>1, <1>3, <1>4, <1>5, AppendIsConcat

\* Three sequences join to the same one in either order of joining.
Regroups(x, y, z) == (x \o y) \o z = x \o (y \o z)

\* What r is when it is x followed by y.
Follows(T, r, x, y) ==
    /\ r \in Seq(T) /\ Len(r) = Len(x) + Len(y)
    /\ \A i \in 1..(Len(x) + Len(y)) : r[i] = IF i <= Len(x) THEN x[i] ELSE y[i - Len(x)]

\* A join is its first part followed by its second.
LEMMA JoinFollows ==
  ASSUME NEW T, NEW x \in Seq(T), NEW y \in Seq(T)
  PROVE  Follows(T, x \o y, x, y)
BY ConcatProperties DEF Follows

\* Sequences join in any order of joining.
LEMMA Assoc ==
  ASSUME NEW T, NEW x \in Seq(T), NEW y \in Seq(T), NEW z \in Seq(T)
  PROVE  Regroups(x, y, z)
<1> DEFINE u == x \o y
           v == y \o z
           p == u \o z
           q == x \o v
<1>1. Len(x) \in Nat /\ Len(y) \in Nat /\ Len(z) \in Nat
  OBVIOUS
<1>2. Follows(T, u, x, y) /\ Follows(T, v, y, z)
  BY JoinFollows
<1> HIDE DEF u, v
<1>3. u \in Seq(T) /\ v \in Seq(T)
  BY <1>2 DEF Follows
<1>4. Follows(T, p, u, z) /\ Follows(T, q, x, v)
  BY <1>3, JoinFollows
<1> HIDE DEF p, q
<1>5. /\ Len(u) = Len(x) + Len(y) /\ Len(v) = Len(y) + Len(z)
      /\ Len(p) = Len(u) + Len(z) /\ Len(q) = Len(x) + Len(v)
  BY <1>2, <1>4 DEF Follows
<1>6. Len(p) = Len(q)
  BY <1>1, <1>5
<1>7. ASSUME NEW i \in 1..Len(p) PROVE p[i] = q[i]
  <2>1. i \in Nat /\ i >= 1 /\ i <= Len(x) + Len(y) + Len(z)
    BY <1>1, <1>5
  <2>2. CASE i <= Len(x)
    <3>1. i \in 1..(Len(x) + Len(y)) /\ i <= Len(u)
          /\ i \in 1..(Len(u) + Len(z)) /\ i \in 1..(Len(x) + Len(v))
      BY <1>1, <1>5, <2>1, <2>2
    <3>2. p[i] = u[i] /\ u[i] = x[i] /\ q[i] = x[i]
      BY <1>2, <1>4, <2>2, <3>1 DEF Follows
    <3> QED BY <3>2
  <2>3. CASE i > Len(x) /\ i <= Len(x) + Len(y)
    <3>1. /\ i \in 1..(Len(x) + Len(y)) /\ i <= Len(u) /\ ~(i <= Len(x))
          /\ i \in 1..(Len(u) + Len(z)) /\ i \in 1..(Len(x) + Len(v))
          /\ i - Len(x) \in 1..(Len(y) + Len(z)) /\ i - Len(x) <= Len(y)
      BY <1>1, <1>5, <2>1, <2>3
    <3>2. p[i] = u[i] /\ u[i] = y[i - Len(x)]
      BY <1>2, <1>4, <3>1 DEF Follows
    <3>3. q[i] = v[i - Len(x)] /\ v[i - Len(x)] = y[i - Len(x)]
      BY <1>2, <1>4, <3>1 DEF Follows
    <3> QED BY <3>2, <3>3
  <2>4. CASE i > Len(x) + Len(y)
    <3>1. /\ ~(i <= Len(u)) /\ ~(i <= Len(x)) /\ ~(i - Len(x) <= Len(y))
          /\ i \in 1..(Len(u) + Len(z)) /\ i \in 1..(Len(x) + Len(v))
          /\ i - Len(x) \in 1..(Len(y) + Len(z)) /\ (i - Len(x)) - Len(y) = i - Len(u)
      BY <1>1, <1>5, <2>1, <2>4
    <3>2. p[i] = z[i - Len(u)]
      BY <1>4, <3>1 DEF Follows
    <3>3. q[i] = v[i - Len(x)] /\ v[i - Len(x)] = z[(i - Len(x)) - Len(y)]
      BY <1>2, <1>4, <3>1 DEF Follows
    <3> QED BY <3>1, <3>2, <3>3
  <2>5. i <= Len(x) \/ (i > Len(x) /\ i <= Len(x) + Len(y)) \/ i > Len(x) + Len(y)
    BY <1>1, <2>1
  <2> QED BY <2>2, <2>3, <2>4, <2>5
<1>8. p = q
  <2>1. p \in Seq(T) /\ q \in Seq(T)
    BY <1>4 DEF Follows
  <2> QED BY <1>6, <1>7, <2>1, SeqEqual
<1> QED BY <1>8 DEF Regroups, p, q, u, v

\* Joining the front and the rest.
LEMMA FlattenSplit ==
  ASSUME NEW T, NEW s \in Seq(Seq(T)), NEW k \in 0..Len(s)
  PROVE  /\ FlattenSeq(SubSeq(s, 1, k)) \in Seq(T)
         /\ FlattenSeq(SubSeq(s, k + 1, Len(s))) \in Seq(T)
         /\ FlattenSeq(s) = FlattenSeq(SubSeq(s, 1, k)) \o
                            FlattenSeq(SubSeq(s, k + 1, Len(s)))
<1> DEFINE F(a, m) == FlattenSeq(SubSeq(s, a, m))
           G == {m \in Nat : F(1, m) = F(1, k) \o F(k + 1, m)}
<1>1. Len(s) \in Nat /\ k \in Nat /\ k <= Len(s) /\ k + 1 \in 1..(Len(s) + 1)
      /\ 1 \in 1..(Len(s) + 1)
  OBVIOUS
<1>2. ASSUME NEW a \in 1..(Len(s) + 1), NEW m \in Nat, m <= Len(s)
      PROVE  F(a, m) \in Seq(T)
  <2>1. \A i \in a..m : s[i] \in Seq(T)
    BY <1>1, <1>2
  <2>2. SubSeq(s, a, m) \in Seq(Seq(T))
    BY <2>1, SubSeqProperties
  <2>3. <<>> \in Seq(T)
    OBVIOUS
  <2> QED BY <2>2, <2>3, FlattenAppend
<1>3. k \in G
  <2>1. SubSeq(s, k + 1, k) = <<>>
    BY <1>1, SubSeqEmpty
  <2>2. F(k + 1, k) = <<>>
    <3>1. <<>> \in Seq(Seq(T)) /\ <<>> \in Seq(T)
      OBVIOUS
    <3> QED BY <2>1, <3>1, FlattenAppend
  <2>3. F(1, k) \in Seq(T)
    BY <1>1, <1>2
  <2> HIDE DEF F
  <2> QED BY <1>1, <2>2, <2>3, ConcatEmptySeq
<1>4. ASSUME NEW m \in k..Len(s), m < Len(s), m \in G
      PROVE  m + 1 \in G
  <2>1. m \in Nat /\ m + 1 \in Nat /\ s[m + 1] \in Seq(T) /\ m <= Len(s) /\ k + 1 <= m + 1
        /\ 1 <= m + 1
    BY <1>1, <1>4
  <2>2. F(1, m + 1) = F(1, m) \o s[m + 1] /\ F(k + 1, m + 1) = F(k + 1, m) \o s[m + 1]
    <3>1. ASSUME NEW a \in 1..(Len(s) + 1), a <= m + 1
          PROVE  F(a, m + 1) = F(a, m) \o s[m + 1]
      <4>1. /\ SubSeq(s, a, m) \in Seq(Seq(T)) /\ s[m + 1] \in Seq(T)
            /\ SubSeq(s, a, m + 1) = Append(SubSeq(s, a, m), s[m + 1])
        BY <1>4, <2>1, <3>1, SubSeqGrows
      <4> QED BY <4>1, FlattenAppend
    <3> HIDE DEF F
    <3> QED BY <1>1, <2>1, <3>1
  <2>3. F(1, k) \in Seq(T) /\ F(k + 1, m) \in Seq(T)
    <3> HIDE DEF F
    <3> QED BY <1>1, <1>2, <2>1
  <2>4. F(1, m) = F(1, k) \o F(k + 1, m)
    BY <1>4
  <2> HIDE DEF F
  <2>5. F(1, m + 1) = F(1, k) \o F(k + 1, m + 1)
    <3>1. (F(1, k) \o F(k + 1, m)) \o s[m + 1] = F(1, k) \o (F(k + 1, m) \o s[m + 1])
      <4> DEFINE x == F(1, k)
                 y == F(k + 1, m)
                 z == s[m + 1]
      <4>1. x \in Seq(T) /\ y \in Seq(T) /\ z \in Seq(T)
        BY <2>1, <2>3
      <4> HIDE DEF x, y, z
      <4>2. (x \o y) \o z = x \o (y \o z)
        <5>1. Regroups(x, y, z)
          BY <4>1, Assoc
        <5> QED BY <5>1 DEF Regroups
      <4> QED BY <4>2 DEF x, y, z
    <3> QED BY <2>2, <2>4, <3>1, Zenon
  <2> QED BY <2>1, <2>5
<1>5. Len(s) \in G
  <2>1. Len(s) \in k..Len(s)
    BY <1>1
  <2> HIDE DEF G
  <2> QED BY <1>1, <1>3, <1>4, <2>1, Climb
<1>6. F(1, Len(s)) = F(1, k) \o F(k + 1, Len(s))
  BY <1>5
<1>7. F(1, Len(s)) = FlattenSeq(s)
  BY SubSeqFull
<1>8. F(1, k) \in Seq(T) /\ F(k + 1, Len(s)) \in Seq(T)
  <2>1. Len(s) <= Len(s)
    BY <1>1
  <2> HIDE DEF F
  <2> QED BY <1>1, <1>2, <2>1
<1> QED BY <1>6, <1>7, <1>8

-----------------------------------------------------------------------------
(* Frames and their bytes.                                                   *)

\* The frames of a direction, as its encoders write them.
Frames(d) ==
    {f \in [mid : {CONFIG, DATA, READ_ACK, XRCE}, body : Seq(Nat)] :
        /\ f.mid = CONFIG => Len(f.body) = (IF d THEN 2 ELSE 1)
        /\ f.mid = DATA => Len(f.body) = 2 + DataSize
        /\ f.mid = READ_ACK => Len(f.body) = 2
        /\ f.mid = XRCE => Len(f.body) <= Mtu}

HeaderSize(f) == IF f.mid = XRCE THEN 5 ELSE 3

\* The numbers of the protocol.
LEMMA Numbers ==
  /\ Base \in Nat /\ Base > 4 /\ Mtu \in Nat /\ DataSize \in Nat
  /\ SyncFirst \in Nat /\ SyncSecond \in Nat
  /\ DaqcFrameMax >= 5 + Mtu /\ DaqcFrameMax >= 5 + DataSize
  /\ FirstSequence \in Nat /\ Byte \subseteq Nat
BY ProtocolAssumption, LineAssumption DEF Byte, Width

\* A little-endian field is read back as it was written.
LEMMA Le16RoundTrip ==
  ASSUME NEW v \in Nat
  PROVE  /\ WriteLe16(v) \in Seq(Nat) /\ Len(WriteLe16(v)) = 2
         /\ WriteLe16(v)[1] + Base * WriteLe16(v)[2] = v
<1>1. Base \in Nat /\ Base > 0
  BY Numbers
<1>2. v % Base \in Nat /\ v \div Base \in Nat
  BY <1>1
<1>3. (v % Base) + Base * (v \div Base) = v
  BY <1>1
<1>4. WriteLe16(v) = <<v % Base, v \div Base>>
  BY DEF WriteLe16
<1> HIDE DEF WriteLe16
<1>5. WriteLe16(v)[1] = v % Base /\ WriteLe16(v)[2] = v \div Base
  BY <1>4
<1> QED BY <1>2, <1>3, <1>4, <1>5

\* Where the parts of an encoded frame are.
LEMMA EncodeShape ==
  ASSUME NEW f \in Frames(toHost)
  PROVE  /\ Encode(f) \in Seq(Nat)
         /\ Len(Encode(f)) = HeaderSize(f) + Len(f.body)
         /\ Encode(f)[1] = SyncFirst /\ Encode(f)[2] = SyncSecond
         /\ Encode(f)[3] = f.mid
         /\ f.mid = XRCE => Encode(f)[4] + Base * Encode(f)[5] = Len(f.body)
         /\ \A i \in 1..Len(f.body) : Encode(f)[HeaderSize(f) + i] = f.body[i]
<1> DEFINE h == <<SyncFirst, SyncSecond, f.mid>>
           l == IF f.mid = XRCE THEN WriteLe16(Len(f.body)) ELSE <<>>
           b == f.body
<1>1. f.mid \in Nat /\ b \in Seq(Nat) /\ Len(b) \in Nat
  BY DEF Frames, CONFIG, DATA, READ_ACK, XRCE
<1>2. h \in Seq(Nat) /\ Len(h) = 3 /\ h[1] = SyncFirst /\ h[2] = SyncSecond /\ h[3] = f.mid
  BY <1>1, Numbers
<1>3. /\ l \in Seq(Nat) /\ Len(l) = HeaderSize(f) - 3 /\ HeaderSize(f) \in {3, 5}
      /\ f.mid = XRCE => Len(l) = 2 /\ l[1] + Base * l[2] = Len(b)
  <2>1. WriteLe16(Len(b)) \in Seq(Nat) /\ Len(WriteLe16(Len(b))) = 2
        /\ WriteLe16(Len(b))[1] + Base * WriteLe16(Len(b))[2] = Len(b)
    BY <1>1, Le16RoundTrip
  <2>2. CASE f.mid = XRCE
    BY <2>1, <2>2 DEF HeaderSize
  <2>3. CASE f.mid # XRCE
    BY <2>3 DEF HeaderSize
  <2> QED BY <2>2, <2>3
<1>4. Encode(f) = (h \o l) \o b
  BY DEF Encode
<1> HIDE DEF h, l, b
<1>5. /\ h \o l \in Seq(Nat) /\ Len(h \o l) = HeaderSize(f)
      /\ \A i \in 1..HeaderSize(f) : (h \o l)[i] = IF i <= 3 THEN h[i] ELSE l[i - 3]
  <2>1. h \in Seq(Nat) /\ l \in Seq(Nat)
    BY <1>2, <1>3
  <2>2. /\ h \o l \in Seq(Nat) /\ Len(h \o l) = Len(h) + Len(l)
        /\ \A i \in 1..(Len(h) + Len(l)) :
              (h \o l)[i] = IF i <= Len(h) THEN h[i] ELSE l[i - Len(h)]
    BY <2>1, ConcatProperties
  <2>3. Len(h) = 3 /\ Len(h) + Len(l) = HeaderSize(f)
    BY <1>2, <1>3
  <2> QED BY <2>2, <2>3
<1> DEFINE g == h \o l
<1>6. /\ g \in Seq(Nat) /\ Len(g) = HeaderSize(f) /\ Encode(f) = g \o b
      /\ g[1] = h[1] /\ g[2] = h[2] /\ g[3] = h[3]
      /\ f.mid = XRCE => g[4] = l[1] /\ g[5] = l[2]
  BY SMTT(40), <1>3, <1>4, <1>5 DEF HeaderSize
<1> HIDE DEF g
<1>7. /\ g \o b \in Seq(Nat) /\ Len(g \o b) = HeaderSize(f) + Len(b)
      /\ \A i \in 1..(HeaderSize(f) + Len(b)) :
            (g \o b)[i] = IF i <= HeaderSize(f) THEN g[i] ELSE b[i - HeaderSize(f)]
  <2>1. g \in Seq(Nat) /\ b \in Seq(Nat)
    BY <1>1, <1>6
  <2>2. /\ g \o b \in Seq(Nat) /\ Len(g \o b) = Len(g) + Len(b)
        /\ \A i \in 1..(Len(g) + Len(b)) :
              (g \o b)[i] = IF i <= Len(g) THEN g[i] ELSE b[i - Len(g)]
    BY <2>1, ConcatProperties
  <2> QED BY <1>6, <2>2
<1>8. \A i \in 1..HeaderSize(f) : (g \o b)[i] = g[i]
  BY <1>1, <1>3, <1>7
<1>9. \A i \in 1..Len(b) : (g \o b)[HeaderSize(f) + i] = b[i]
  <2> TAKE i \in 1..Len(b)
  <2>1. HeaderSize(f) + i \in 1..(HeaderSize(f) + Len(b)) /\ ~(HeaderSize(f) + i <= HeaderSize(f))
        /\ (HeaderSize(f) + i) - HeaderSize(f) = i
    BY SMTT(40), <1>1, <1>3
  <2> QED BY <1>7, <2>1
<1>10. 1 \in 1..HeaderSize(f) /\ 2 \in 1..HeaderSize(f) /\ 3 \in 1..HeaderSize(f)
       /\ (f.mid = XRCE => 4 \in 1..HeaderSize(f) /\ 5 \in 1..HeaderSize(f))
  BY <1>3 DEF HeaderSize
<1>11. /\ (g \o b)[1] = SyncFirst /\ (g \o b)[2] = SyncSecond /\ (g \o b)[3] = f.mid
       /\ f.mid = XRCE => (g \o b)[4] + Base * (g \o b)[5] = Len(b)
  BY <1>2, <1>3, <1>6, <1>8, <1>10
<1> QED BY <1>6, <1>7, <1>9, <1>11 DEF b

\* A frame fits both parsers, and has more than its header unless it is an
\* XRCE frame with an empty body.
LEMMA FrameFits ==
  ASSUME toHost \in BOOLEAN, NEW f \in Frames(toHost)
  PROVE  /\ Len(f.body) \in Nat
         /\ Len(Encode(f)) \in Nat /\ Len(Encode(f)) >= 4
         /\ Len(Encode(f)) <= Capacity /\ Capacity \in Int
         /\ f.mid = XRCE => Len(Encode(f)) = 5 + Len(f.body) /\ Len(f.body) <= Mtu
         /\ f.mid = CONFIG => Len(Encode(f)) = IF toHost THEN 5 ELSE 4
         /\ f.mid = DATA => Len(Encode(f)) = 5 + DataSize
         /\ f.mid = READ_ACK => Len(Encode(f)) = 5
<1>1. f.body \in Seq(Nat) /\ Len(f.body) \in Nat /\ f.mid \in {CONFIG, DATA, READ_ACK, XRCE}
  BY DEF Frames
<1>2. /\ f.mid = CONFIG => Len(f.body) = (IF toHost THEN 2 ELSE 1)
      /\ f.mid = DATA => Len(f.body) = 2 + DataSize
      /\ f.mid = READ_ACK => Len(f.body) = 2
      /\ f.mid = XRCE => Len(f.body) <= Mtu
  BY DEF Frames
<1>3. Len(Encode(f)) = HeaderSize(f) + Len(f.body)
  BY EncodeShape
<1>4. HeaderSize(f) = IF f.mid = XRCE THEN 5 ELSE 3
  BY DEF HeaderSize
<1>5. /\ Mtu \in Nat /\ DataSize \in Nat /\ Mtu >= 1 /\ DataSize >= 1
      /\ DaqcFrameMax >= 5 + Mtu /\ DaqcFrameMax >= 5 + DataSize
  BY ProtocolAssumption, LineAssumption
<1>6. /\ Capacity >= 5 + Mtu /\ Capacity >= 5 + DataSize /\ Capacity \in Int
  <2>1. LargestFrame >= 5 + Mtu /\ LargestFrame >= 5 + DataSize /\ LargestFrame \in Int
    BY <1>5 DEF LargestFrame
  <2>2. DaqcFrameMax \in Int
    BY LineAssumption
  <2> QED BY <1>5, <2>1, <2>2 DEF Capacity, HostCapacity
<1>7. CASE f.mid = CONFIG
  BY <1>1, <1>2, <1>3, <1>4, <1>5, <1>6, <1>7 DEF CONFIG, DATA, READ_ACK, XRCE
<1>8. CASE f.mid = DATA
  BY <1>1, <1>2, <1>3, <1>4, <1>5, <1>6, <1>8 DEF CONFIG, DATA, READ_ACK, XRCE
<1>9. CASE f.mid = READ_ACK
  <2>1. Len(Encode(f)) = 5 /\ Len(f.body) = 2
    <3>1. HeaderSize(f) = 3
      BY <1>4, <1>9 DEF READ_ACK, XRCE
    <3>2. Len(f.body) = 2
      BY <1>2, <1>9
    <3> QED BY <1>3, <3>1, <3>2
  <2>2. 5 <= Capacity
    BY <1>5, <1>6
  <2> QED BY <1>1, <1>6, <1>9, <2>1, <2>2 DEF CONFIG, DATA, READ_ACK, XRCE
<1>10. CASE f.mid = XRCE
  BY <1>1, <1>2, <1>3, <1>4, <1>5, <1>6, <1>10 DEF CONFIG, DATA, READ_ACK, XRCE
<1> QED BY <1>1, <1>7, <1>8, <1>9, <1>10

\* What a parser that holds the beginning of a frame makes of it: nothing is
\* in front of it, its length is the frame's as soon as it can be known, and a
\* whole frame is decoded as it was encoded.
LEMMA PrefixParses ==
  ASSUME toHost \in BOOLEAN, NEW f \in Frames(toHost), NEW b \in Seq(Nat),
         Len(b) <= Len(Encode(f)), Agree(b, Encode(f), Len(b))
  PROVE  /\ FindSync(b) = 0
         /\ Len(b) >= 3 => SyncAt(b, 1)
         /\ FrameSize(b, toHost) \in {0, Len(Encode(f))}
         /\ FrameSize(b, toHost) = 0 => Len(b) < Len(Encode(f))
         /\ FrameSize(b, toHost) # 0 => Len(b) >= 3
         /\ Len(b) = Len(Encode(f)) => Decode(b, Len(b)) = f
<1> DEFINE e == Encode(f)
           n == Len(f.body)
<1>0. /\ Len(b) \in Nat /\ n \in Nat /\ Len(e) \in Nat /\ Len(e) >= 4 /\ Len(b) <= Len(e)
      /\ f.mid = XRCE => Len(e) = 5 + n /\ n <= Mtu
      /\ f.mid = CONFIG => Len(e) = IF toHost THEN 5 ELSE 4
      /\ f.mid = DATA => Len(e) = 5 + DataSize
      /\ f.mid = READ_ACK => Len(e) = 5
  BY FrameFits
<1>1. /\ e[1] = SyncFirst /\ e[2] = SyncSecond /\ e[3] = f.mid
      /\ f.mid = XRCE => e[4] + Base * e[5] = n
      /\ \A i \in 1..n : e[HeaderSize(f) + i] = f.body[i]
      /\ Len(e) = HeaderSize(f) + n
  BY EncodeShape
<1>2. \A i \in 1..Len(b) : b[i] = e[i]
  BY DEF Agree
<1>3. f \in [mid : {CONFIG, DATA, READ_ACK, XRCE}, body : Seq(Nat)]
  BY DEF Frames
<1> HIDE DEF e, n
<1>4. ASSUME Len(b) >= 2
      PROVE  SyncAt(b, 1)
  <2>1. 1 \in 1..Len(b) /\ 1 + 1 \in 1..Len(b) /\ 1 + 1 = 2
    BY <1>0, <1>4
  <2>2. b[1] = SyncFirst /\ b[1 + 1] = SyncSecond
    BY <1>1, <1>2, <2>1
  <2> QED BY <2>2 DEF SyncAt
<1>5. FindSync(b) = 0
  <2>1. CASE Len(b) < 2
    BY <2>1 DEF FindSync
  <2>2. CASE Len(b) >= 2
    <3> DEFINE pairs == {i \in 1..(Len(b) - 1) : SyncAt(b, i)}
               c == CHOOSE i \in pairs : \A j \in pairs : i <= j
    <3>1. 1 \in pairs /\ \A j \in pairs : 1 <= j
      BY <1>0, <1>4, <2>2
    <3>2. FindSync(b) = IF Len(b) < 2 THEN 0 ELSE IF pairs = {} THEN Len(b) - 1 ELSE c - 1
      BY DEF FindSync
    <3>3. \A j \in pairs : j \in Nat
      BY <1>0
    <3> HIDE DEF pairs
    <3>4. c \in pairs /\ \A j \in pairs : c <= j
      BY <3>1, Zenon
    <3> HIDE DEF c
    <3>5. c = 1
      BY <3>1, <3>3, <3>4
    <3> QED BY <1>0, <2>2, <3>1, <3>2, <3>5
  <2> QED BY <1>0, <2>1, <2>2
<1>6. ASSUME Len(b) >= 3
      PROVE  b[3] = f.mid
  BY <1>0, <1>1, <1>2, <1>6
<1>7. /\ FrameSize(b, toHost) \in {0, Len(e)}
      /\ FrameSize(b, toHost) = 0 => Len(b) < Len(e)
      /\ FrameSize(b, toHost) # 0 => Len(b) >= 3
  <2>1. CASE Len(b) < 3
    <3>1. FrameSize(b, toHost) = 0
      BY <2>1 DEF FrameSize
    <3> QED BY <1>0, <2>1, <3>1
  <2>2. CASE Len(b) >= 3 /\ f.mid = CONFIG
    BY <1>0, <1>6, <2>2 DEF FrameSize, CONFIG, DATA, READ_ACK, XRCE
  <2>3. CASE Len(b) >= 3 /\ f.mid = DATA
    <3>1. DataSize \in Nat
      BY ProtocolAssumption
    <3> QED BY SMTT(40), <1>0, <1>6, <2>3, <3>1 DEF FrameSize, CONFIG, DATA, READ_ACK, XRCE
  <2>4. CASE Len(b) >= 3 /\ f.mid = READ_ACK
    BY <1>0, <1>6, <2>4 DEF FrameSize, CONFIG, DATA, READ_ACK, XRCE
  <2>5. CASE Len(b) >= 3 /\ f.mid = XRCE /\ Len(b) < 5
    <3>1. b[3] = XRCE /\ ~(Len(b) < 3) /\ Len(b) < 5
      BY <1>0, <1>6, <2>5
    <3>2. FrameSize(b, toHost) = 0
      BY <3>1 DEF FrameSize, CONFIG, DATA, READ_ACK, XRCE
    <3> QED BY <1>0, <2>5, <3>2
  <2>6. CASE Len(b) >= 5 /\ f.mid = XRCE
    <3> DEFINE r == ReadLe16(SubSeq(b, 4, 5))
    <3>1. r = n
      <4>1. \A i \in 4..5 : b[i] \in Nat
        BY SMTT(40), <1>0, <2>6
      <4>2. \A i \in 1..(5 - 4 + 1) : SubSeq(b, 4, 5)[i] = b[4 + i - 1]
        BY <4>1, SubSeqProperties
      <4>3. SubSeq(b, 4, 5)[1] = b[4] /\ SubSeq(b, 4, 5)[2] = b[5]
        BY <4>2
      <4>4. b[4] = e[4] /\ b[5] = e[5]
        BY <1>0, <1>2, <2>6
      <4> QED BY <1>1, <2>6, <4>3, <4>4 DEF ReadLe16
    <3> HIDE DEF r
    <3>2. FrameSize(b, toHost) = 5 + r
      <4>1. b[3] = XRCE /\ ~(Len(b) < 3) /\ ~(Len(b) < 5) /\ r <= Mtu
        BY <1>0, <1>6, <2>6, <3>1
      <4> QED BY <4>1 DEF FrameSize, r, CONFIG, DATA, READ_ACK, XRCE
    <3> QED BY <1>0, <2>6, <3>1, <3>2
  <2> QED BY <1>0, <1>3, <2>1, <2>2, <2>3, <2>4, <2>5, <2>6
<1>8. ASSUME Len(b) = Len(e)
      PROVE  Decode(b, Len(b)) = f
  <2> DEFINE h == IF b[3] = XRCE THEN 6 ELSE 4
             s == SubSeq(b, h, Len(b))
  <2>1. b[3] = f.mid
    BY <1>0, <1>6, <1>8
  <2>2. h = HeaderSize(f) + 1 /\ h \in Nat /\ h >= 1 /\ HeaderSize(f) \in Nat
    BY <2>1 DEF HeaderSize
  <2>3. Len(b) = HeaderSize(f) + n
    BY <1>1, <1>8
  <2> HIDE DEF h
  <2>4. s \in Seq(Nat) /\ Len(s) = n /\ \A i \in 1..n : s[i] = b[h + i - 1]
    <3>1. \A i \in h..Len(b) : b[i] \in Nat
      BY <1>0, <2>2
    <3>2. /\ SubSeq(b, h, Len(b)) \in Seq(Nat)
          /\ Len(SubSeq(b, h, Len(b))) = IF h <= Len(b) THEN Len(b) - h + 1 ELSE 0
          /\ \A i \in 1..(Len(b) - h + 1) : SubSeq(b, h, Len(b))[i] = b[h + i - 1]
      <4>1. h \in Int /\ Len(b) \in Int
        BY <1>0, <2>2
      <4> QED BY <3>1, <4>1, SubSeqProperties
    <3>3. Len(b) - h + 1 = n /\ (h <= Len(b) <=> n >= 1)
      BY SMTT(40), <1>0, <2>2, <2>3
    <3> QED BY <1>0, <3>2, <3>3
  <2> HIDE DEF s
  <2>5. ASSUME NEW i \in 1..n
        PROVE  s[i] = f.body[i]
    <3>1. h + i - 1 = HeaderSize(f) + i /\ HeaderSize(f) + i \in 1..Len(b)
      BY SMTT(40), <1>0, <2>2, <2>3
    <3>2. s[i] = b[HeaderSize(f) + i]
      BY <2>4, <3>1
    <3>3. b[HeaderSize(f) + i] = e[HeaderSize(f) + i]
      BY <1>2, <3>1
    <3> QED BY <1>1, <3>2, <3>3
  <2>6. s = f.body
    <3>1. f.body \in Seq(Nat) /\ Len(s) = Len(f.body)
      BY <1>3, <2>4 DEF n
    <3> QED BY <2>4, <2>5, <3>1, SeqEqual
  <2>7. Decode(b, Len(b)) = [mid |-> b[3], body |-> s]
    BY DEF Decode, s, h
  <2> QED BY <1>3, <2>1, <2>6, <2>7
<1> QED BY <1>0, <1>4, <1>5, <1>7, <1>8 DEF e

\* A buffer that begins with a whole frame is read as that frame, whatever
\* follows.
LEMMA WholeParses ==
  ASSUME toHost \in BOOLEAN, NEW f \in Frames(toHost), NEW b \in Seq(Nat),
         Len(b) >= Len(Encode(f)), Agree(b, Encode(f), Len(Encode(f)))
  PROVE  FrameSize(b, toHost) = Len(Encode(f)) /\ Decode(b, Len(Encode(f))) = f
<1> DEFINE e == Encode(f)
           n == Len(e)
<1>1. /\ e \in Seq(Nat) /\ n \in Nat /\ n >= 4 /\ Len(b) \in Nat /\ Len(b) >= n
      /\ f.mid = XRCE => n >= 5
  <2>1. /\ Len(f.body) \in Nat /\ n \in Nat /\ n >= 4
        /\ f.mid = XRCE => n = 5 + Len(f.body)
    BY FrameFits
  <2>2. e \in Seq(Nat)
    BY EncodeShape
  <2> QED BY <2>1, <2>2
<1>2. e[3] = f.mid
  BY EncodeShape
<1>3. \A i \in 1..n : b[i] = e[i]
  BY DEF Agree
<1>4. FrameSize(e, toHost) = n /\ Decode(e, n) = f
  <2>1. n <= n /\ Agree(e, e, n)
    BY <1>1 DEF Agree
  <2>2. /\ FrameSize(e, toHost) \in {0, n}
        /\ FrameSize(e, toHost) = 0 => n < n
        /\ Decode(e, n) = f
    BY <1>1, <2>1, PrefixParses
  <2> QED BY <1>1, <2>2
<1> HIDE DEF e, n
<1>5. b[3] = e[3]
  BY SMTT(40), <1>1, <1>3
<1>6. Decode(b, n) = Decode(e, n)
  <2> DEFINE h == IF e[3] = XRCE THEN 6 ELSE 4
             u == SubSeq(b, h, n)
             v == SubSeq(e, h, n)
  <2>1. h \in Nat /\ h >= 1
    OBVIOUS
  <2> HIDE DEF h
  <2>2. \A i \in h..n : b[i] \in Nat /\ e[i] \in Nat
    BY SMTT(40), <1>1, <2>1 DEF n
  <2>3. /\ u \in Seq(Nat) /\ Len(u) = (IF h <= n THEN n - h + 1 ELSE 0)
        /\ \A i \in 1..(n - h + 1) : u[i] = b[h + i - 1]
    BY SMTT(40), <1>1, <2>1, <2>2, SubSeqProperties
  <2>4. /\ v \in Seq(Nat) /\ Len(v) = (IF h <= n THEN n - h + 1 ELSE 0)
        /\ \A i \in 1..(n - h + 1) : v[i] = e[h + i - 1]
    BY <1>1, <2>1, <2>2, SubSeqProperties
  <2>5. ASSUME NEW i \in 1..Len(u) PROVE u[i] = v[i]
    <3>1. i \in 1..(n - h + 1) /\ h + i - 1 \in 1..n
      BY SMTT(40), <1>1, <2>1, <2>3
    <3> QED BY <1>3, <2>3, <2>4, <3>1
  <2>6. u = v
    <3> HIDE DEF u, v
    <3> QED BY <2>3, <2>4, <2>5, SeqEqual
  <2> HIDE DEF u, v
  <2>7. Decode(b, n) = [mid |-> b[3], body |-> u] /\ Decode(e, n) = [mid |-> e[3], body |-> v]
    BY <1>5 DEF Decode, h, u, v
  <2> QED BY <1>5, <2>6, <2>7
<1>7. FrameSize(b, toHost) = FrameSize(e, toHost)
  <2>1. ~(Len(b) < 3) /\ ~(Len(e) < 3) /\ (f.mid = XRCE => ~(Len(b) < 5) /\ ~(Len(e) < 5))
    BY SMTT(40), <1>1 DEF n
  <2>2. f.mid = XRCE => ReadLe16(SubSeq(b, 4, 5)) = ReadLe16(SubSeq(e, 4, 5))
    <3> SUFFICES ASSUME f.mid = XRCE PROVE ReadLe16(SubSeq(b, 4, 5)) = ReadLe16(SubSeq(e, 4, 5))
      OBVIOUS
    <3>1. \A i \in 4..5 : b[i] \in Nat /\ e[i] \in Nat /\ b[i] = e[i]
      BY SMTT(40), <1>1, <1>3 DEF n
    <3>2. \A i \in 1..(5 - 4 + 1) : SubSeq(b, 4, 5)[i] = b[4 + i - 1]
      BY <3>1, SubSeqProperties
    <3>3. \A i \in 1..(5 - 4 + 1) : SubSeq(e, 4, 5)[i] = e[4 + i - 1]
      BY <3>1, SubSeqProperties
    <3>4. SubSeq(b, 4, 5)[1] = b[4] /\ SubSeq(b, 4, 5)[2] = b[5]
      BY <3>2
    <3>5. SubSeq(e, 4, 5)[1] = e[4] /\ SubSeq(e, 4, 5)[2] = e[5]
      BY <3>3
    <3>6. b[4] = e[4] /\ b[5] = e[5]
      BY <3>1
    <3> QED BY <3>4, <3>5, <3>6 DEF ReadLe16
  <2>3. CASE f.mid = XRCE
    <3> DEFINE r == ReadLe16(SubSeq(b, 4, 5))
    <3>1. ReadLe16(SubSeq(e, 4, 5)) = r
      BY <2>2, <2>3
    <3>2. /\ FrameSize(b, toHost) = IF toHost \/ r <= Mtu THEN 5 + r ELSE 1
          /\ FrameSize(e, toHost) = IF toHost \/ r <= Mtu THEN 5 + r ELSE 1
      <4>1. b[3] = XRCE /\ e[3] = XRCE
        BY <1>2, <1>5, <2>3
      <4> HIDE DEF r
      <4>2. FrameSize(b, toHost) = IF toHost \/ r <= Mtu THEN 5 + r ELSE 1
        BY <2>1, <2>3, <4>1 DEF FrameSize, r, CONFIG, DATA, READ_ACK, XRCE
      <4>3. FrameSize(e, toHost) = IF toHost \/ r <= Mtu THEN 5 + r ELSE 1
        BY <2>1, <2>3, <3>1, <4>1 DEF FrameSize, CONFIG, DATA, READ_ACK, XRCE
      <4> QED BY <4>2, <4>3
    <3> QED BY <3>2
  <2>4. CASE f.mid # XRCE
    <3>1. b[3] # XRCE /\ e[3] # XRCE
      BY <1>2, <1>5, <2>4
    <3> QED BY <1>5, <2>1, <3>1 DEF FrameSize
  <2> QED BY <2>3, <2>4
<1> QED BY <1>4, <1>6, <1>7 DEF e, n

\* The joined images of the elements of a sequence.
Images(c, s) == [k \in 1..Len(s) |-> c[s[k]]]
Joined(c, s) == FlattenSeq(Images(c, s))

\* What maps the elements of F to sequences over E.
Lists(F, E) == [F -> Seq(E)]

\* The images are sequences, and follow Append and SubSeq.
LEMMA ImagesShape ==
  ASSUME NEW E, NEW F, NEW c \in Lists(F, E), NEW s \in Seq(F)
  PROVE  /\ Images(c, s) \in Seq(Seq(E)) /\ Len(Images(c, s)) = Len(s)
         /\ \A k \in 1..Len(s) : Images(c, s)[k] = c[s[k]]
<1>1. Len(s) \in Nat /\ \A k \in 1..Len(s) : s[k] \in F
  OBVIOUS
<1>2. Images(c, s) \in [1..Len(s) -> Seq(E)]
  BY <1>1 DEF Images, Lists
<1> QED BY <1>1, <1>2 DEF Images

\* One element more joins its image at the end.
LEMMA JoinedAppend ==
  ASSUME NEW E, NEW F, NEW c \in Lists(F, E), NEW s \in Seq(F), NEW f \in F
  PROVE  /\ Joined(c, <<>>) = <<>>
         /\ Joined(c, s) \in Seq(E)
         /\ Joined(c, Append(s, f)) = Joined(c, s) \o c[f]
<1> DEFINE t == Append(s, f)
<1>1. t \in Seq(F) /\ Len(t) = Len(s) + 1 /\ t[Len(s) + 1] = f /\ Len(s) \in Nat
      /\ \A k \in 1..Len(s) : t[k] = s[k]
  BY AppendProperties
<1>2. /\ Images(c, s) \in Seq(Seq(E)) /\ Len(Images(c, s)) = Len(s)
      /\ \A k \in 1..Len(s) : Images(c, s)[k] = c[s[k]]
  <2>1. Images(c, s) \in Seq(Seq(E)) /\ Len(Images(c, s)) = Len(s)
    BY ImagesShape
  <2>2. \A k \in 1..Len(s) : Images(c, s)[k] = c[s[k]]
    BY ImagesShape
  <2> QED BY <2>1, <2>2
<1> HIDE DEF t
<1>3. /\ Images(c, t) \in Seq(Seq(E)) /\ Len(Images(c, t)) = Len(t)
      /\ \A k \in 1..Len(t) : Images(c, t)[k] = c[t[k]]
  <2>1. t \in Seq(F)
    BY <1>1
  <2>2. Images(c, t) \in Seq(Seq(E)) /\ Len(Images(c, t)) = Len(t)
    BY <2>1, ImagesShape
  <2>3. \A k \in 1..Len(t) : Images(c, t)[k] = c[t[k]]
    BY DEF Images
  <2> QED BY <2>2, <2>3
<1>4. c[f] \in Seq(E)
  BY DEF Lists
<1> DEFINE a == Append(Images(c, s), c[f])
<1>5. /\ a \in Seq(Seq(E)) /\ Len(a) = Len(s) + 1 /\ a[Len(s) + 1] = c[f]
      /\ \A k \in 1..Len(s) : a[k] = Images(c, s)[k]
  <2> DEFINE m == Images(c, s)
             G == Seq(E)
  <2>1. m \in Seq(G) /\ c[f] \in G /\ Len(m) = Len(s)
    BY <1>2, <1>4
  <2> HIDE DEF m, G
  <2>2. /\ Append(m, c[f]) \in Seq(G) /\ Len(Append(m, c[f])) = Len(m) + 1
        /\ Append(m, c[f])[Len(m) + 1] = c[f]
        /\ \A k \in 1..Len(m) : Append(m, c[f])[k] = m[k]
    BY <2>1, AppendProperties
  <2> QED BY <2>1, <2>2 DEF m, G
<1> HIDE DEF a
<1>6. Images(c, t) = a
  <2>1. \A k \in 1..Len(t) : Images(c, t)[k] = a[k]
    <3> TAKE k \in 1..Len(t)
    <3>1. CASE k = Len(s) + 1
      BY <1>1, <1>3, <1>5, <3>1
    <3>2. CASE k \in 1..Len(s)
      <4>1. k \in 1..Len(t) /\ t[k] = s[k]
        BY <1>1, <3>2
      <4>2. Images(c, t)[k] = c[t[k]]
        BY <1>3, <4>1
      <4>3. a[k] = Images(c, s)[k] /\ Images(c, s)[k] = c[s[k]]
        BY <1>2, <1>5, <3>2
      <4> QED BY <4>1, <4>2, <4>3
    <3> QED BY <1>1, <3>1, <3>2
  <2> QED BY <1>1, <1>3, <1>5, <2>1, SeqEqual
<1>7. FlattenSeq(a) = FlattenSeq(Images(c, s)) \o c[f] /\ FlattenSeq(Images(c, s)) \in Seq(E)
  BY <1>2, <1>4, FlattenAppend DEF a
<1>8. Joined(c, <<>>) = <<>>
  <2>1. Images(c, <<>>) = <<>>
    BY DEF Images
  <2>2. <<>> \in Seq(Seq(E)) /\ <<>> \in Seq(E)
    OBVIOUS
  <2>3. FlattenSeq(<<>>) = <<>>
    BY <2>2, FlattenAppend
  <2> QED BY <2>1, <2>3 DEF Joined
<1>9. Joined(c, t) = Joined(c, s) \o c[f] /\ Joined(c, s) \in Seq(E)
  BY <1>6, <1>7 DEF Joined
<1> QED BY <1>8, <1>9 DEF t

\* The first k images begin the join.
Begins(E, c, s, k) == \E r \in Seq(E) : Joined(c, s) = Joined(c, SubSeq(s, 1, k)) \o r

\* The front of a sequence joins to the front of its join.
LEMMA JoinedFront ==
  ASSUME NEW E, NEW F, NEW c \in Lists(F, E), NEW s \in Seq(F), NEW k \in 0..Len(s)
  PROVE  Begins(E, c, s, k)
<1> DEFINE e == Images(c, s)
           p == SubSeq(s, 1, k)
<1>1. /\ e \in Seq(Seq(E)) /\ Len(e) = Len(s) /\ Len(s) \in Nat /\ k \in Nat
      /\ \A i \in 1..Len(s) : e[i] = c[s[i]]
  <2>1. e \in Seq(Seq(E)) /\ Len(e) = Len(s)
    BY ImagesShape
  <2>3. \A i \in 1..Len(s) : e[i] = c[s[i]]
    BY ImagesShape
  <2>2. Len(s) \in Nat /\ k \in Nat
    OBVIOUS
  <2> QED BY <2>1, <2>2, <2>3
<1>2. /\ p \in Seq(F) /\ Len(p) = k /\ \A i \in 1..k : p[i] = s[i]
  <2>1. \A i \in 1..k : s[i] \in F
    BY <1>1
  <2>2. /\ SubSeq(s, 1, k) \in Seq(F)
        /\ Len(SubSeq(s, 1, k)) = IF 1 <= k THEN k - 1 + 1 ELSE 0
        /\ \A i \in 1..(k - 1 + 1) : SubSeq(s, 1, k)[i] = s[1 + i - 1]
    BY <1>1, <2>1, SubSeqProperties
  <2> QED BY <1>1, <2>2
<1> HIDE DEF p
<1> HIDE DEF e
<1>3. /\ Images(c, p) \in Seq(Seq(E)) /\ Len(Images(c, p)) = k
      /\ \A i \in 1..k : Images(c, p)[i] = c[p[i]]
  <2>1. p \in Seq(F) /\ Len(p) = k
    BY <1>2
  <2>2. Images(c, p) \in Seq(Seq(E)) /\ Len(Images(c, p)) = Len(p)
    BY <2>1, ImagesShape
  <2>3. \A i \in 1..Len(p) : Images(c, p)[i] = c[p[i]]
    BY DEF Images
  <2> QED BY <2>1, <2>2, <2>3
<1>4. /\ SubSeq(e, 1, k) \in Seq(Seq(E)) /\ Len(SubSeq(e, 1, k)) = k
      /\ \A i \in 1..k : SubSeq(e, 1, k)[i] = e[i]
  <2>1. \A i \in 1..k : e[i] \in Seq(E)
    BY <1>1
  <2>2. /\ SubSeq(e, 1, k) \in Seq(Seq(E))
        /\ Len(SubSeq(e, 1, k)) = IF 1 <= k THEN k - 1 + 1 ELSE 0
        /\ \A i \in 1..(k - 1 + 1) : SubSeq(e, 1, k)[i] = e[1 + i - 1]
    BY <1>1, <2>1, SubSeqProperties
  <2> QED BY <1>1, <2>2
<1>5. Images(c, p) = SubSeq(e, 1, k)
  <2>1. ASSUME NEW i \in 1..k PROVE Images(c, p)[i] = SubSeq(e, 1, k)[i]
    <3>1. i \in 1..Len(s)
      BY <1>1
    <3>2. e[i] = c[s[i]]
      BY <1>1, <3>1
    <3>3. Images(c, p)[i] = c[p[i]] /\ p[i] = s[i]
      BY <1>2, <1>3
    <3>4. SubSeq(e, 1, k)[i] = e[i]
      BY <1>4
    <3> QED BY <3>2, <3>3, <3>4
  <2> QED BY <1>1, <1>3, <1>4, <2>1, SeqEqual
<1>6. k \in 0..Len(e)
  BY <1>1
<1>7. /\ FlattenSeq(SubSeq(e, k + 1, Len(e))) \in Seq(E)
      /\ FlattenSeq(e) = FlattenSeq(SubSeq(e, 1, k)) \o FlattenSeq(SubSeq(e, k + 1, Len(e)))
  BY <1>1, <1>6, FlattenSplit
<1> QED BY <1>5, <1>7 DEF Joined, Begins, p, e

\* Bytes and the datagrams among the frames are such joins.
Encoded(d) == [f \in Frames(d) |-> Encode(f)]
Bodies(d) == [f \in Frames(d) |-> IF f.mid = XRCE THEN <<f.body>> ELSE <<>>]

\* They map frames to bytes and to datagrams.
LEMMA EncodedShape ==
  /\ Encoded(toHost) \in [Frames(toHost) -> Seq(Nat)]
  /\ Bodies(toHost) \in [Frames(toHost) -> Seq(Seq(Nat))]
  /\ \A s \in Seq(Frames(toHost)) : Bytes(s) = Joined(Encoded(toHost), s)
  /\ \A s \in Seq(Frames(toHost)) : Carried(s) = Joined(Bodies(toHost), s)
<1>1. Encoded(toHost) \in [Frames(toHost) -> Seq(Nat)]
  BY EncodeShape DEF Encoded
<1>2. Bodies(toHost) \in [Frames(toHost) -> Seq(Seq(Nat))]
  <2>1. \A f \in Frames(toHost) : f.body \in Seq(Nat)
    BY DEF Frames
  <2>2. \A f \in Frames(toHost) : (IF f.mid = XRCE THEN <<f.body>> ELSE <<>>) \in Seq(Seq(Nat))
    BY <2>1
  <2> QED BY <2>2 DEF Bodies
<1>3. ASSUME NEW s \in Seq(Frames(toHost))
      PROVE  Bytes(s) = Joined(Encoded(toHost), s)
  <2>1. \A k \in 1..Len(s) : Encoded(toHost)[s[k]] = Encode(s[k])
    BY DEF Encoded
  <2>2. Images(Encoded(toHost), s) = [k \in 1..Len(s) |-> Encode(s[k])]
    BY <2>1 DEF Images
  <2> QED BY <2>2 DEF Joined, Bytes
<1>4. ASSUME NEW s \in Seq(Frames(toHost))
      PROVE  Carried(s) = Joined(Bodies(toHost), s)
  <2>1. \A k \in 1..Len(s) :
           Bodies(toHost)[s[k]] = IF s[k].mid = XRCE THEN <<s[k].body>> ELSE <<>>
    BY DEF Bodies
  <2>2. Images(Bodies(toHost), s) =
           [k \in 1..Len(s) |-> IF s[k].mid = XRCE THEN <<s[k].body>> ELSE <<>>]
    BY <2>1 DEF Images
  <2> QED BY <2>2 DEF Joined, Carried
<1> QED BY <1>1, <1>2, <1>3, <1>4

\* The bytes of one frame more.
LEMMA BytesAppend ==
  ASSUME NEW s \in Seq(Frames(toHost)), NEW f \in Frames(toHost)
  PROVE  /\ Bytes(<<>>) = <<>> /\ Bytes(s) \in Seq(Nat)
         /\ Append(s, f) \in Seq(Frames(toHost)) /\ Encode(f) \in Seq(Nat)
         /\ Bytes(Append(s, f)) = Bytes(s) \o Encode(f)
<1> DEFINE c == Encoded(toHost)
           F == Frames(toHost)
<1>1. c \in Lists(F, Nat) /\ \A t \in Seq(F) : Bytes(t) = Joined(c, t)
  BY EncodedShape DEF Lists
<1>2. c[f] = Encode(f) /\ Encode(f) \in Seq(Nat)
  BY EncodeShape DEF Encoded
<1>3. <<>> \in Seq(F) /\ Append(s, f) \in Seq(F)
  BY AppendProperties
<1>4. s \in Seq(F) /\ f \in F
  OBVIOUS
<1> HIDE DEF c, F
<1>5. /\ Joined(c, <<>>) = <<>> /\ Joined(c, s) \in Seq(Nat)
      /\ Joined(c, Append(s, f)) = Joined(c, s) \o c[f]
  BY <1>1, <1>4, JoinedAppend
<1> QED BY <1>1, <1>2, <1>3, <1>4, <1>5 DEF F

\* The frame after the first k stands, encoded, after their bytes.
LEMMA BytesNext ==
  ASSUME NEW s \in Seq(Frames(toHost)), NEW k \in Nat, k < Len(s)
  PROVE  /\ s[k + 1] \in Frames(toHost)
         /\ SubSeq(s, 1, k) \in Seq(Frames(toHost))
         /\ SubSeq(s, 1, k + 1) = Append(SubSeq(s, 1, k), s[k + 1])
         /\ \E r \in Seq(Nat) :
               Bytes(s) = Bytes(SubSeq(s, 1, k)) \o (Encode(s[k + 1]) \o r)
<1> DEFINE c == Encoded(toHost)
           F == Frames(toHost)
           p == SubSeq(s, 1, k)
           q == SubSeq(s, 1, k + 1)
           f == s[k + 1]
<1>1. c \in Lists(F, Nat) /\ \A t \in Seq(F) : Bytes(t) = Joined(c, t)
  BY EncodedShape DEF Lists
<1>2. p \in Seq(F) /\ f \in F /\ q = Append(p, f)
  <2>1. 1 \in 1..(Len(s) + 1) /\ 1 <= k + 1
    OBVIOUS
  <2> QED BY <2>1, SubSeqGrows
<1>3. /\ Bytes(p) \in Seq(Nat) /\ Encode(f) \in Seq(Nat) /\ q \in Seq(F)
      /\ Bytes(q) = Bytes(p) \o Encode(f)
  BY <1>2, BytesAppend
<1>4. k + 1 \in 0..Len(s) /\ s \in Seq(F)
  OBVIOUS
<1>5. PICK r \in Seq(Nat) : Joined(c, s) = Joined(c, q) \o r
  <2> HIDE DEF c, F
  <2>1. Begins(Nat, c, s, k + 1)
    BY <1>1, <1>4, JoinedFront
  <2> QED BY <2>1 DEF Begins
<1>6. Bytes(s) = (Bytes(p) \o Encode(f)) \o r
  <2> HIDE DEF c, F, q
  <2> QED BY <1>1, <1>3, <1>4, <1>5
<1>7. Bytes(s) = Bytes(p) \o (Encode(f) \o r)
  <2> DEFINE x == Bytes(p)
             y == Encode(f)
  <2>1. x \in Seq(Nat) /\ y \in Seq(Nat)
    BY <1>3
  <2>2. Bytes(s) = (x \o y) \o r
    BY <1>6
  <2> HIDE DEF x, y
  <2>3. (x \o y) \o r = x \o (y \o r)
    <3>1. Regroups(x, y, r)
      BY <2>1, Assoc
    <3> QED BY <3>1 DEF Regroups
  <2>4. Bytes(s) = x \o (y \o r)
    BY <2>2, <2>3
  <2> QED BY <2>4 DEF x, y
<1> QED BY <1>2, <1>7

-----------------------------------------------------------------------------
(* The invariant of the line.                                                *)

\* What is sent and queued.
SourceInv ==
    /\ toHost \in BOOLEAN
    /\ sequence \in Nat
    /\ sent \in Seq(Frames(toHost))
    /\ queue \in Seq({d \in Seq(Nat) : Len(d) <= Mtu})
    /\ received \in Seq(Seq(Nat))

\* No byte is lost and no payload refused.
Intact == lossAt = 0 /\ ~refused

\* While the line is aligned the frames handled are the first ones sent, and all
\* other bytes are still held; the parser of an intact line holds the beginning
\* of the next frame, of which it has seen as much as its loop knows of.
ParseInv ==
    /\ dropped => refused
    /\ Aligned =>
         /\ wire \in Seq(Nat) /\ chunk \in Seq(Nat) /\ buf \in Seq(Nat)
         /\ Len(delivered) <= Len(sent)
         /\ delivered = SubSeq(sent, 1, Len(delivered))
         /\ Bytes(sent) = Bytes(delivered) \o (buf \o (chunk \o wire))
    /\ Intact /\ buf # <<>> =>
         /\ Len(delivered) < Len(sent)
         /\ Len(buf) <= Len(Encode(sent[Len(delivered) + 1]))
         /\ ~scanning => Len(buf) < Len(Encode(sent[Len(delivered) + 1]))

\* What the queue took in is what was sent of it and what it still holds.
QueueInv ==
    /\ toHost => received = <<>> /\ queue = <<>> /\ stream = <<>> /\ ~refused
    /\ ~toHost => received = Joined(Bodies(toHost), sent) \o queue
    /\ Aligned => stream \in Seq(Nat)

LineInv == SourceInv /\ ParseInv /\ QueueInv

-----------------------------------------------------------------------------
(* Sequences on their way.                                                   *)

\* What was handled, what the parser holds, what was read and what is on the
\* line, as one sequence of bytes.
Whole(x, b, c, w) == x \o (b \o (c \o w))

\* These are all bytes.
AllBytes(x, b, c, w) ==
    x \in Seq(Nat) /\ b \in Seq(Nat) /\ c \in Seq(Nat) /\ w \in Seq(Nat)

\* What is added at the end of the line is added at the end of everything.
LEMMA AddAtEnd ==
  ASSUME NEW x, NEW b, NEW c, NEW w, AllBytes(x, b, c, w), NEW e \in Seq(Nat)
  PROVE  Whole(x, b, c, w) \o e = Whole(x, b, c, w \o e)
<1>0. x \in Seq(Nat) /\ b \in Seq(Nat) /\ c \in Seq(Nat) /\ w \in Seq(Nat)
  BY DEF AllBytes
<1>1. c \o w \in Seq(Nat)
  BY <1>0, ConcatProperties
<1> DEFINE y == c \o w
<1>2. c \o (w \o e) = y \o e
  <2>1. Regroups(c, w, e)
    BY <1>0, Assoc
  <2> QED BY <2>1 DEF Regroups
<1> HIDE DEF y
<1>3. y \in Seq(Nat)
  BY <1>1 DEF y
<1>4. b \o (y \o e) = (b \o y) \o e
  <2>1. Regroups(b, y, e)
    BY <1>0, <1>3, Assoc
  <2> QED BY <2>1 DEF Regroups
<1> DEFINE z == b \o y
<1>5. z \in Seq(Nat)
  BY <1>0, <1>3, ConcatProperties
<1> HIDE DEF z
<1>6. (x \o z) \o e = x \o (z \o e)
  <2>1. Regroups(x, z, e)
    BY <1>0, <1>5, Assoc
  <2> QED BY <2>1 DEF Regroups
<1>7. (x \o z) \o e = x \o (b \o (y \o e))
  BY <1>4, <1>6 DEF z
<1> QED BY <1>2, <1>7 DEF y, z, Whole

\* A byte moves from the chunk to the buffer.
LEMMA MoveByte ==
  ASSUME NEW x, NEW b, NEW c, NEW w, AllBytes(x, b, c, w), c # <<>>
  PROVE  /\ Append(b, Head(c)) \in Seq(Nat) /\ Len(Append(b, Head(c))) = Len(b) + 1
         /\ Tail(c) \in Seq(Nat)
         /\ Whole(x, Append(b, Head(c)), Tail(c), w) = Whole(x, b, c, w)
<1> DEFINE h == <<Head(c)>>
           t == Tail(c)
<1>0. b \in Seq(Nat) /\ c \in Seq(Nat) /\ w \in Seq(Nat)
  BY DEF AllBytes
<1>1. Head(c) \in Nat /\ t \in Seq(Nat) /\ h \in Seq(Nat)
  BY <1>0, HeadTailProperties
<1>2. c = h \o t
  BY <1>0
<1>3. Append(b, Head(c)) = b \o h
  BY <1>0, <1>1, AppendIsConcat
<1>4. Append(b, Head(c)) \in Seq(Nat) /\ Len(Append(b, Head(c))) = Len(b) + 1
  BY <1>0, <1>1, AppendProperties
<1> HIDE DEF h, t
<1>5. t \o w \in Seq(Nat)
  BY <1>0, <1>1, ConcatProperties
<1>6. (b \o h) \o (t \o w) = b \o (h \o (t \o w))
  <2>1. Regroups(b, h, t \o w)
    BY <1>0, <1>1, <1>5, Assoc
  <2> QED BY <2>1 DEF Regroups
<1>7. (h \o t) \o w = h \o (t \o w)
  <2>1. Regroups(h, t, w)
    BY <1>0, <1>1, Assoc
  <2> QED BY <2>1 DEF Regroups
<1>8. Append(b, Head(c)) \o (t \o w) = b \o (c \o w)
  BY <1>2, <1>3, <1>6, <1>7
<1>9. Whole(x, Append(b, Head(c)), t, w) = Whole(x, b, c, w)
  BY <1>8 DEF Whole
<1> QED BY <1>1, <1>4, <1>9 DEF t

\* A read divides the line.
LEMMA DivideLine ==
  ASSUME NEW w \in Seq(Nat), NEW n \in 1..Len(w)
  PROVE  /\ SubSeq(w, 1, n) \in Seq(Nat) /\ SubSeq(w, n + 1, Len(w)) \in Seq(Nat)
         /\ SubSeq(w, 1, n) \o SubSeq(w, n + 1, Len(w)) = w
<1>1. Len(w) \in Nat /\ n \in Nat /\ n <= Len(w)
  OBVIOUS
<1>2. SubSeq(w, 1, n) \in Seq(Nat)
  <2>1. \A i \in 1..n : w[i] \in Nat
    BY <1>1
  <2> QED BY <1>1, <2>1, SubSeqProperties
<1>3. SubSeq(w, n + 1, Len(w)) \in Seq(Nat)
  <2>1. \A i \in (n + 1)..Len(w) : w[i] \in Nat
    BY <1>1
  <2> QED BY <1>1, <2>1, SubSeqProperties
<1>4. SubSeq(w, 1, n) \o SubSeq(w, n + 1, Len(w)) = SubSeq(w, 1, Len(w))
  <2>1. 1 \in 1..(Len(w) + 1) /\ n \in (1 - 1)..Len(w) /\ Len(w) \in n..Len(w)
    BY <1>1
  <2> QED BY <2>1, ConcatAdjacentSubSeq
<1>5. SubSeq(w, 1, Len(w)) = w
  BY SubSeqFull
<1> QED BY ZenonT(60), <1>2, <1>3, <1>4, <1>5

\* After x the bytes b and y are the bytes e and r.
Same(x, b, y, e, r) == x \o (b \o y) = x \o (e \o r)

\* What stands after the same bytes begins the same.
LEMMA SameRest ==
  ASSUME NEW x, NEW b, NEW y, NEW r, AllBytes(x, b, y, r), NEW e \in Seq(Nat),
         Same(x, b, y, e, r), Len(b) <= Len(e)
  PROVE  Agree(b, e, Len(b))
<1>0. x \in Seq(Nat) /\ b \in Seq(Nat) /\ y \in Seq(Nat) /\ r \in Seq(Nat)
  BY DEF AllBytes
<1>1. b \o y \in Seq(Nat) /\ e \o r \in Seq(Nat)
  BY <1>0, ConcatProperties
<1>2. b \o y = e \o r
  <2> DEFINE p == b \o y
             q == e \o r
  <2>1. p \in Seq(Nat) /\ q \in Seq(Nat) /\ x \o p = x \o q
    BY <1>1 DEF Same
  <2> HIDE DEF p, q
  <2>2. p = q
    BY <1>0, <2>1, ConcatSimplifications
  <2> QED BY <2>2 DEF p, q
<1>3. ASSUME NEW i \in 1..Len(b)
      PROVE  b[i] = e[i]
  <2>1. /\ \A j \in 1..(Len(b) + Len(y)) : (b \o y)[j] = IF j <= Len(b) THEN b[j] ELSE y[j - Len(b)]
        /\ \A j \in 1..(Len(e) + Len(r)) : (e \o r)[j] = IF j <= Len(e) THEN e[j] ELSE r[j - Len(e)]
    BY <1>0, ConcatProperties
  <2>2. Len(b) \in Nat /\ Len(y) \in Nat /\ Len(e) \in Nat /\ Len(r) \in Nat
    BY <1>0
  <2>3. (b \o y)[i] = b[i] /\ (e \o r)[i] = e[i]
    BY <1>3, <2>1, <2>2
  <2> QED BY <1>2, <2>3
<1> QED BY <1>3 DEF Agree

-----------------------------------------------------------------------------
(* The steps of the line.                                                    *)

\* Every frame the code sends is one of its direction.
LEMMA SendersConform ==
  ASSUME toHost \in BOOLEAN
  PROVE  /\ toHost => HostFrames \subseteq Frames(toHost)
         /\ \A v \in Nat, p \in DataPayloads :
               Frame(DATA, WriteLe16(v) \o p) \in Frames(toHost)
         /\ \A v \in Nat : Frame(READ_ACK, WriteLe16(v)) \in Frames(toHost)
         /\ ~toHost => Frame(CONFIG, <<1>>) \in Frames(toHost)
         /\ \A q \in Seq(Nat) : Len(q) <= Mtu => Frame(XRCE, q) \in Frames(toHost)
<1>1. Byte \subseteq Nat
  BY Numbers
<1>2. ASSUME toHost, NEW f \in HostFrames
      PROVE  f \in Frames(toHost)
  <2>1. f \in [mid : {CONFIG, XRCE}, body : Seq(Byte)]
        /\ (f.mid = XRCE => Len(f.body) <= Mtu) /\ (f.mid # XRCE => Len(f.body) = 2)
    BY FramesAssumption
  <2>2. f.body \in Seq(Nat)
    BY <1>1, <2>1, SeqMonotonic
  <2>3. f \in [mid : {CONFIG, DATA, READ_ACK, XRCE}, body : Seq(Nat)]
    BY <2>1, <2>2
  <2> QED BY <1>2, <2>1, <2>3 DEF Frames, CONFIG, DATA, READ_ACK, XRCE
<1>3. ASSUME NEW v \in Nat, NEW p \in DataPayloads
      PROVE  Frame(DATA, WriteLe16(v) \o p) \in Frames(toHost)
  <2>1. p \in Seq(Byte) /\ Len(p) = DataSize
    BY FramesAssumption
  <2>2. p \in Seq(Nat)
    BY <1>1, <2>1, SeqMonotonic
  <2>3. WriteLe16(v) \in Seq(Nat) /\ Len(WriteLe16(v)) = 2
    BY Le16RoundTrip
  <2> DEFINE b == WriteLe16(v) \o p
  <2>4. b \in Seq(Nat) /\ Len(b) = 2 + DataSize
    <3> DEFINE l == WriteLe16(v)
    <3>1. l \in Seq(Nat) /\ Len(l) = 2
      BY <2>3
    <3> HIDE DEF l
    <3>2. l \o p \in Seq(Nat) /\ Len(l \o p) = Len(l) + Len(p)
      BY <2>2, <3>1, ConcatProperties
    <3> QED BY <2>1, <3>1, <3>2 DEF l
  <2> HIDE DEF b
  <2>5. Frame(DATA, b) \in Frames(toHost)
    BY <2>4 DEF Frame, Frames, CONFIG, DATA, READ_ACK, XRCE
  <2> QED BY <2>5 DEF b
<1>4. ASSUME NEW v \in Nat
      PROVE  Frame(READ_ACK, WriteLe16(v)) \in Frames(toHost)
  <2> DEFINE b == WriteLe16(v)
  <2>1. b \in Seq(Nat) /\ Len(b) = 2
    BY Le16RoundTrip
  <2> HIDE DEF b
  <2>2. Frame(READ_ACK, b) \in Frames(toHost)
    BY <2>1 DEF Frame, Frames, CONFIG, DATA, READ_ACK, XRCE
  <2> QED BY <2>2 DEF b
<1>5. ASSUME ~toHost
      PROVE  Frame(CONFIG, <<1>>) \in Frames(toHost)
  <2> DEFINE b == <<1>>
  <2>1. b \in Seq(Nat) /\ Len(b) = 1
    OBVIOUS
  <2> HIDE DEF b
  <2>2. Frame(CONFIG, b) \in Frames(toHost)
    BY <1>5, <2>1 DEF Frame, Frames, CONFIG, DATA, READ_ACK, XRCE
  <2> QED BY <2>2 DEF b
<1>6. ASSUME NEW q \in Seq(Nat), Len(q) <= Mtu
      PROVE  Frame(XRCE, q) \in Frames(toHost)
  BY <1>6 DEF Frame, Frames, CONFIG, DATA, READ_ACK, XRCE
<1> QED BY <1>2, <1>3, <1>4, <1>5, <1>6

\* Nothing is on the line at first.
LEMMA LineInitInv == LineInit => LineInv
<1> SUFFICES ASSUME LineInit PROVE LineInv
  OBVIOUS
<1>1. <<>> \in Seq(Nat) /\ <<>> \in Seq(Seq(Nat)) /\ Len(<<>>) = 0
  OBVIOUS
<1>2. SourceInv
  BY Numbers DEF LineInit, SourceInv
<1>3. /\ Bytes(<<>>) = <<>> /\ Joined(Bodies(toHost), <<>>) = <<>> /\ FlattenSeq(<<>>) = <<>>
  <2>1. Images(Bodies(toHost), <<>>) = <<>> /\ [k \in 1..Len(<<>>) |-> Encode(<<>>[k])] = <<>>
    BY DEF Images
  <2>2. FlattenSeq(<<>>) = <<>>
    BY <1>1, FlattenAppend
  <2> QED BY <2>1, <2>2 DEF Bytes, Joined
<1>4. <<>> \o <<>> = <<>>
  OBVIOUS
<1>5. SubSeq(<<>>, 1, 0) = <<>>
  BY SubSeqEmpty
<1>6. ParseInv
  <2>1. sent = <<>> /\ delivered = <<>> /\ wire = <<>> /\ chunk = <<>> /\ buf = <<>>
    BY DEF LineInit
  <2>2. Bytes(sent) = Bytes(delivered) \o (buf \o (chunk \o wire))
    BY <1>3, <1>4, <2>1
  <2>3. delivered = SubSeq(sent, 1, Len(delivered)) /\ Len(delivered) <= Len(sent)
    BY <1>1, <1>5, <2>1
  <2>4. ~dropped
    BY DEF LineInit
  <2> QED BY <1>1, <2>1, <2>2, <2>3, <2>4 DEF ParseInv
<1>7. QueueInv
  <2>1. /\ received = <<>> /\ queue = <<>> /\ sent = <<>> /\ stream = <<>> /\ delivered = <<>>
        /\ ~refused
    BY DEF LineInit
  <2> QED BY <1>1, <1>3, <1>4, <2>1 DEF QueueInv
<1> QED BY <1>2, <1>6, <1>7 DEF LineInv

\* One more frame on the line is one more frame sent.
LEMMA PutStep ==
  ASSUME LineInv, NEW f \in Frames(toHost), Put(f), UNCHANGED <<lossAt, refused, dropped>>
  PROVE  /\ sent' \in Seq(Frames(toHost)) /\ ParseInv'
         /\ Joined(Bodies(toHost), sent) \in Seq(Seq(Nat))
         /\ Joined(Bodies(toHost), sent') =
               Joined(Bodies(toHost), sent) \o Bodies(toHost)[f]
<1>1. /\ sent' = Append(sent, f) /\ wire' = wire \o Encode(f)
      /\ toHost' = toHost /\ chunk' = chunk /\ buf' = buf /\ scanning' = scanning
      /\ delivered' = delivered /\ lossAt' = lossAt /\ refused' = refused
      /\ dropped' = dropped
  BY DEF Put
<1>2. sent \in Seq(Frames(toHost)) /\ ParseInv
  BY DEF LineInv, SourceInv
<1>3. /\ Bytes(sent) \in Seq(Nat) /\ sent' \in Seq(Frames(toHost)) /\ Encode(f) \in Seq(Nat)
      /\ Bytes(sent') = Bytes(sent) \o Encode(f)
  BY <1>1, <1>2, BytesAppend
<1>4. /\ Len(sent) \in Nat /\ Len(sent') = Len(sent) + 1
      /\ \A k \in 1..Len(sent) : sent'[k] = sent[k]
  BY <1>1, <1>2, AppendProperties
<1>5. /\ Joined(Bodies(toHost), sent) \in Seq(Seq(Nat))
      /\ Joined(Bodies(toHost), sent') =
            Joined(Bodies(toHost), sent) \o Bodies(toHost)[f]
  <2> DEFINE c == Bodies(toHost)
             F == Frames(toHost)
             E == Seq(Nat)
  <2>1. c \in Lists(F, E) /\ sent \in Seq(F) /\ f \in F
    BY <1>2, EncodedShape DEF Lists
  <2> HIDE DEF c, F, E
  <2>2. Joined(c, sent) \in Seq(E) /\ Joined(c, Append(sent, f)) = Joined(c, sent) \o c[f]
    BY <2>1, JoinedAppend
  <2> QED BY <1>1, <2>2 DEF c, E
<1>6. ASSUME Aligned'
      PROVE  /\ wire' \in Seq(Nat) /\ chunk' \in Seq(Nat) /\ buf' \in Seq(Nat)
             /\ Len(delivered') <= Len(sent')
             /\ delivered' = SubSeq(sent', 1, Len(delivered'))
             /\ Bytes(sent') = Bytes(delivered') \o (buf' \o (chunk' \o wire'))
  <2>1. Aligned
    BY <1>1, <1>6 DEF Aligned
  <2>2. /\ wire \in Seq(Nat) /\ chunk \in Seq(Nat) /\ buf \in Seq(Nat)
        /\ Len(delivered) <= Len(sent) /\ delivered = SubSeq(sent, 1, Len(delivered))
        /\ Bytes(sent) = Bytes(delivered) \o (buf \o (chunk \o wire))
    BY <1>2, <2>1 DEF ParseInv
  <2> DEFINE n == Len(delivered)
  <2>3. /\ n \in Nat /\ \A k \in 1..n : sent[k] \in Frames(toHost)
        /\ delivered \in Seq(Frames(toHost))
    <3>2. n \in Nat
      BY <2>2
    <3>3. \A k \in 1..n : sent[k] \in Frames(toHost)
      BY <1>2, <2>2, <3>2
    <3>4. SubSeq(sent, 1, n) \in Seq(Frames(toHost))
      BY <3>2, <3>3, SubSeqProperties
    <3> QED BY <2>2, <3>2, <3>3, <3>4
  <2>4. wire' \in Seq(Nat)
    BY <1>1, <1>3, <2>2, ConcatProperties
  <2>5. Bytes(delivered) \in Seq(Nat)
    BY <2>3, BytesAppend
  <2>6. Bytes(sent') = Bytes(delivered') \o (buf' \o (chunk' \o wire'))
    <3> DEFINE x == Bytes(delivered)
               e == Encode(f)
    <3>1. Bytes(sent') = Whole(x, buf, chunk, wire) \o e
      BY <1>3, <2>2 DEF Whole
    <3>2. x \in Seq(Nat) /\ e \in Seq(Nat)
      BY <1>3, <2>5
    <3> HIDE DEF x, e
    <3>3. Whole(x, buf, chunk, wire) \o e = Whole(x, buf, chunk, wire \o e)
      <4>1. AllBytes(x, buf, chunk, wire)
        BY <2>2, <3>2 DEF AllBytes
      <4> QED BY <3>2, <4>1, AddAtEnd
    <3> QED BY <1>1, <3>1, <3>3 DEF x, e, Whole
  <2>7. delivered' = SubSeq(sent', 1, Len(delivered'))
    <3>1. SubSeq(sent', 1, n) = SubSeq(sent, 1, n)
      BY <1>3, <1>4, <2>2, <2>3
    <3> QED BY <1>1, <2>2, <3>1
  <2> QED BY <1>1, <1>4, <2>2, <2>3, <2>4, <2>6, <2>7
<1>7. ASSUME Intact', buf' # <<>>
      PROVE  /\ Len(delivered') < Len(sent')
             /\ Len(buf') <= Len(Encode(sent'[Len(delivered') + 1]))
             /\ ~scanning' => Len(buf') < Len(Encode(sent'[Len(delivered') + 1]))
  <2> DEFINE n == Len(delivered)
  <2>1. Intact /\ buf # <<>> /\ Aligned
    BY <1>1, <1>2, <1>7 DEF Intact, Aligned, ParseInv
  <2>2. /\ n < Len(sent) /\ Len(buf) <= Len(Encode(sent[n + 1]))
        /\ ~scanning => Len(buf) < Len(Encode(sent[n + 1]))
    BY <1>2, <2>1 DEF ParseInv
  <2>3. delivered = SubSeq(sent, 1, n) /\ n <= Len(sent)
    BY <1>2, <2>1 DEF ParseInv
  <2>4. n \in Nat
    BY <1>2, <2>3
  <2>5. sent'[n + 1] = sent[n + 1]
    BY <1>4, <2>2, <2>4
  <2> QED BY <1>1, <1>4, <2>2, <2>4, <2>5
<1>8. dropped' => refused'
  BY <1>1, <1>2 DEF ParseInv
<1> QED BY <1>3, <1>5, <1>6, <1>7, <1>8 DEF ParseInv

\* An intact line is aligned.
LEMMA IntactAligned ==
  ASSUME LineInv, Intact
  PROVE  Aligned
BY DEF LineInv, ParseInv, Intact, Aligned

\* On an aligned line, what was handled, held, read and is still on the line.
LEMMA AlignedFacts ==
  ASSUME LineInv, Aligned
  PROVE  /\ sent \in Seq(Frames(toHost)) /\ delivered \in Seq(Frames(toHost))
         /\ Len(delivered) \in Nat /\ Len(sent) \in Nat /\ Len(delivered) <= Len(sent)
         /\ delivered = SubSeq(sent, 1, Len(delivered))
         /\ AllBytes(Bytes(delivered), buf, chunk, wire)
         /\ Bytes(sent) = Whole(Bytes(delivered), buf, chunk, wire)
<1>1. sent \in Seq(Frames(toHost)) /\ toHost \in BOOLEAN
  BY DEF LineInv, SourceInv
<1>2. /\ wire \in Seq(Nat) /\ chunk \in Seq(Nat) /\ buf \in Seq(Nat)
      /\ Len(delivered) <= Len(sent) /\ delivered = SubSeq(sent, 1, Len(delivered))
      /\ Bytes(sent) = Bytes(delivered) \o (buf \o (chunk \o wire))
  BY DEF LineInv, ParseInv
<1> DEFINE n == Len(delivered)
<1>3. n \in Nat
  BY <1>1, <1>2
<1>4. \A k \in 1..n : sent[k] \in Frames(toHost)
  BY <1>1, <1>2, <1>3
<1>5. SubSeq(sent, 1, n) \in Seq(Frames(toHost))
  BY <1>3, <1>4, SubSeqProperties
<1>6. delivered \in Seq(Frames(toHost))
  BY <1>2, <1>5
<1>7. Bytes(delivered) \in Seq(Nat)
  <2>1. Frame(XRCE, <<>>) \in Frames(toHost)
    <3>1. <<>> \in Seq(Nat) /\ Len(<<>>) <= Mtu
      BY Numbers
    <3> QED BY <1>1, <3>1, SendersConform
  <2> QED BY <1>6, <2>1, BytesAppend
<1> QED BY <1>1, <1>2, <1>3, <1>6, <1>7 DEF AllBytes, Whole

\* Bytes that follow those of the frames handled are of the next frame.
LEMMA NextFrame ==
  ASSUME LineInv, Aligned, NEW b, NEW y, AllBytes(Bytes(delivered), b, y, <<>>), b # <<>>,
         Bytes(sent) = Bytes(delivered) \o (b \o y)
  PROVE  /\ Len(delivered) < Len(sent)
         /\ sent[Len(delivered) + 1] \in Frames(toHost)
         /\ Len(b) <= Len(Encode(sent[Len(delivered) + 1])) =>
               Agree(b, Encode(sent[Len(delivered) + 1]), Len(b))
         /\ Len(b) >= Len(Encode(sent[Len(delivered) + 1])) =>
               Agree(b, Encode(sent[Len(delivered) + 1]), Len(Encode(sent[Len(delivered) + 1])))
<1> DEFINE n == Len(delivered)
           x == Bytes(delivered)
<1>1. /\ sent \in Seq(Frames(toHost)) /\ n \in Nat /\ Len(sent) \in Nat /\ n <= Len(sent)
      /\ delivered = SubSeq(sent, 1, n)
  BY AlignedFacts
<1>2. x \in Seq(Nat) /\ b \in Seq(Nat) /\ y \in Seq(Nat)
  BY DEF AllBytes
<1>3. n < Len(sent)
  <2> SUFFICES ASSUME n = Len(sent) PROVE FALSE
    BY <1>1
  <2>1. delivered = sent
    BY <1>1, SubSeqFull
  <2>2. x = x \o (b \o y)
    BY <2>1
  <2> HIDE DEF x
  <2> DEFINE z == b \o y
  <2>3. z \in Seq(Nat)
    BY <1>2, ConcatProperties
  <2>4. Len(z) = Len(b) + Len(y)
    BY <1>2, ConcatProperties
  <2>5. x \o z = x
    BY <2>2
  <2> HIDE DEF z
  <2>6. z = <<>>
    BY <1>2, <2>3, <2>5, ConcatEqualIffEmpty
  <2>7. Len(b) \in Nat /\ Len(b) # 0 /\ Len(y) \in Nat
    BY <1>2, EmptySeq
  <2> QED BY <2>4, <2>6, <2>7
<1> DEFINE f == sent[n + 1]
<1>4. f \in Frames(toHost)
  BY <1>1, <1>3
<1>5. PICK r \in Seq(Nat) : Bytes(sent) = Bytes(SubSeq(sent, 1, n)) \o (Encode(f) \o r)
  BY <1>1, <1>3, BytesNext
<1>6. Encode(f) \in Seq(Nat)
  BY <1>4, EncodeShape
<1>7. Len(b) <= Len(Encode(f)) => Agree(b, Encode(f), Len(b))
  <2> DEFINE e == Encode(f)
  <2>1. Same(x, b, y, e, r) /\ AllBytes(x, b, y, r) /\ e \in Seq(Nat)
    BY <1>1, <1>2, <1>5, <1>6 DEF AllBytes, Same
  <2> HIDE DEF e, x
  <2>2. Len(b) <= Len(e) => Agree(b, e, Len(b))
    BY <2>1, SameRest
  <2> QED BY <2>2 DEF e
<1>8. Len(b) >= Len(Encode(f)) => Agree(b, Encode(f), Len(Encode(f)))
  <2> DEFINE e == Encode(f)
  <2>1. Same(x, e, r, b, y) /\ AllBytes(x, e, r, y) /\ b \in Seq(Nat) /\ e \in Seq(Nat)
    BY <1>1, <1>2, <1>5, <1>6 DEF AllBytes, Same
  <2> HIDE DEF e, x
  <2>2. Len(e) <= Len(b) => Agree(e, b, Len(e))
    BY <2>1, SameRest
  <2>3. Len(b) \in Nat /\ Len(e) \in Nat
    BY <2>1
  <2>4. Len(b) >= Len(e) => Agree(b, e, Len(e))
    BY <2>2, <2>3 DEF Agree
  <2> QED BY <2>4 DEF e
<1> QED BY <1>3, <1>4, <1>7, <1>8

\* What the parser holds: nothing, the beginning of the next frame or, after a
\* refusal, that frame and more.
LEMMA HeldParses ==
  ASSUME LineInv, Aligned
  PROVE  /\ Misplaced = 0 /\ buf \in Seq(Nat)
         /\ buf = <<>> => Len(buf) = 0
         /\ buf # <<>> =>
               LET f == sent[Len(delivered) + 1]
               IN  /\ Len(delivered) < Len(sent) /\ f \in Frames(toHost)
                   /\ Intact => Len(buf) <= Len(Encode(f))
                   /\ Len(Encode(f)) \in Nat
                   /\ Len(Encode(f)) >= 4 /\ Len(Encode(f)) <= Capacity
                   /\ Capacity \in Int
                   /\ Size \in {0, Len(Encode(f))}
                   /\ Size = 0 => Len(buf) < Len(Encode(f))
                   /\ Len(buf) >= Len(Encode(f)) =>
                         /\ Decode(buf, Len(Encode(f))) = f
                         /\ Agree(buf, Encode(f), Len(Encode(f)))
<1> DEFINE f == sent[Len(delivered) + 1]
           y == chunk \o wire
<1>1. buf \in Seq(Nat) /\ toHost \in BOOLEAN
  BY DEF LineInv, SourceInv, ParseInv
<1>2. CASE buf = <<>>
  <2>1. Len(buf) = 0
    BY <1>2
  <2>2. FindSync(buf) = 0
    BY <2>1 DEF FindSync
  <2> QED BY <1>1, <1>2, <2>1, <2>2 DEF Misplaced
<1>3. CASE buf # <<>>
  <2>1. AllBytes(Bytes(delivered), buf, y, <<>>) /\ Bytes(sent) = Bytes(delivered) \o (buf \o y)
    <3>1. /\ Bytes(delivered) \in Seq(Nat) /\ chunk \in Seq(Nat) /\ wire \in Seq(Nat)
          /\ Bytes(sent) = Bytes(delivered) \o (buf \o (chunk \o wire))
      BY AlignedFacts DEF AllBytes, Whole
    <3>2. y \in Seq(Nat) /\ <<>> \in Seq(Nat)
      BY <3>1, ConcatProperties
    <3> QED BY <1>1, <3>1, <3>2 DEF AllBytes
  <2>2. Intact => Len(buf) <= Len(Encode(f))
    BY <1>3 DEF LineInv, ParseInv
  <2>3. /\ Len(delivered) < Len(sent) /\ f \in Frames(toHost)
        /\ Len(buf) <= Len(Encode(f)) => Agree(buf, Encode(f), Len(buf))
        /\ Len(buf) >= Len(Encode(f)) => Agree(buf, Encode(f), Len(Encode(f)))
    <3> HIDE DEF y
    <3> QED BY <1>3, <2>1, NextFrame
  <2>4. toHost => Intact
    BY DEF LineInv, QueueInv, Intact, Aligned
  <2> HIDE DEF f, y
  <2>5. Len(Encode(f)) \in Nat /\ Len(Encode(f)) >= 4 /\ Len(Encode(f)) <= Capacity
        /\ Capacity \in Int /\ Len(buf) \in Nat
    BY <1>1, <2>3, FrameFits
  <2>6. Len(buf) <= Len(Encode(f)) =>
          /\ FindSync(buf) = 0
          /\ Len(buf) >= 3 => SyncAt(buf, 1)
          /\ FrameSize(buf, toHost) \in {0, Len(Encode(f))}
          /\ FrameSize(buf, toHost) = 0 => Len(buf) < Len(Encode(f))
    BY <1>1, <2>3, PrefixParses
  <2>7. Len(buf) >= Len(Encode(f)) =>
          /\ FrameSize(buf, toHost) = Len(Encode(f))
          /\ Decode(buf, Len(Encode(f))) = f
    BY <1>1, <2>3, WholeParses
  <2>8. Len(buf) >= Len(Encode(f)) => SyncAt(buf, 1)
    <3> SUFFICES ASSUME Len(buf) >= Len(Encode(f)) PROVE SyncAt(buf, 1)
      OBVIOUS
    <3>1. Encode(f)[1] = SyncFirst /\ Encode(f)[2] = SyncSecond
      BY <2>3, EncodeShape
    <3>2. buf[1] = Encode(f)[1] /\ buf[2] = Encode(f)[2]
      BY <2>3, <2>5 DEF Agree
    <3> QED BY <2>5, <3>1, <3>2 DEF SyncAt
  <2>9. Misplaced = 0
    <3>1. CASE Len(buf) <= Len(Encode(f))
      BY <2>6, <3>1 DEF Misplaced
    <3>2. CASE ~(Len(buf) <= Len(Encode(f)))
      <4>1. ~toHost /\ SyncAt(buf, 1)
        BY <2>2, <2>4, <2>5, <2>8, <3>2
      <4> QED BY <4>1 DEF Misplaced
    <3> QED BY <3>1, <3>2
  <2>10. Size \in {0, Len(Encode(f))} /\ (Size = 0 => Len(buf) < Len(Encode(f)))
    BY <2>5, <2>6, <2>7 DEF Size
  <2> QED BY <1>1, <1>3, <2>2, <2>3, <2>5, <2>7, <2>9, <2>10 DEF f
<1> QED BY <1>2, <1>3

\* On an aligned line nothing is resynchronised or rejected, and a frame that is
\* complete is the next one sent; on an intact line it is all the parser holds.
LEMMA AlignedParser ==
  ASSUME LineInv, Aligned
  PROVE  /\ ~Resync /\ ~Reject
         /\ Complete => /\ buf # <<>> /\ Len(delivered) < Len(sent)
                        /\ Current = sent[Len(delivered) + 1]
                        /\ Current \in Frames(toHost)
                        /\ SubSeq(buf, Size + 1, Len(buf)) \in Seq(Nat)
                        /\ buf = Encode(Current) \o SubSeq(buf, Size + 1, Len(buf))
                        /\ Intact => SubSeq(buf, Size + 1, Len(buf)) = <<>>
<1> DEFINE f == sent[Len(delivered) + 1]
<1>1. Misplaced = 0 /\ buf \in Seq(Nat)
  BY HeldParses
<1>2. ~Resync
  BY <1>1 DEF Resync, Discard
<1>3. ASSUME Len(buf) >= 3
      PROVE  /\ buf # <<>> /\ f \in Frames(toHost) /\ Len(delivered) < Len(sent)
             /\ Intact => Len(buf) <= Len(Encode(f))
             /\ Len(Encode(f)) \in Nat
             /\ Len(Encode(f)) >= 4 /\ Len(Encode(f)) <= Capacity /\ Capacity \in Int
             /\ Size \in {0, Len(Encode(f))}
             /\ Len(buf) >= Len(Encode(f)) =>
                   /\ Decode(buf, Len(Encode(f))) = f
                   /\ Agree(buf, Encode(f), Len(Encode(f)))
  <2>1. buf # <<>>
    BY <1>3, HeldParses
  <2> QED BY <2>1, HeldParses
<1> HIDE DEF f
<1>4. ~Reject
  BY <1>3 DEF Reject, Synced, TooLong
<1>5. ASSUME Complete
      PROVE  /\ buf # <<>> /\ Len(delivered) < Len(sent) /\ Current = f /\ f \in Frames(toHost)
             /\ SubSeq(buf, Size + 1, Len(buf)) \in Seq(Nat)
             /\ buf = Encode(f) \o SubSeq(buf, Size + 1, Len(buf))
             /\ Intact => SubSeq(buf, Size + 1, Len(buf)) = <<>>
  <2>1. Len(buf) >= 3 /\ Size > 1 /\ Len(buf) >= Size /\ Len(buf) \in Nat
    BY <1>1, <1>5 DEF Complete, Synced
  <2>2. Size = Len(Encode(f)) /\ Size \in 1..Len(buf) /\ Size \in Nat
    BY <1>3, <2>1
  <2>3. Current = f
    BY <1>3, <2>1, <2>2 DEF Current
  <2>4. Intact => SubSeq(buf, Size + 1, Len(buf)) = <<>>
    <3> SUFFICES ASSUME Intact PROVE SubSeq(buf, Size + 1, Len(buf)) = <<>>
      OBVIOUS
    <3>1. Len(buf) = Size
      BY <1>3, <2>1, <2>2
    <3> QED BY <1>1, <2>1, <3>1, SubSeqEmpty
  <2>5. Encode(f) \in Seq(Nat) /\ \A i \in 1..Size : buf[i] = Encode(f)[i]
    BY <1>3, <2>1, <2>2, EncodeShape DEF Agree
  <2>6. SubSeq(buf, 1, Size) = Encode(f)
    <3> DEFINE e == Encode(f)
               s == SubSeq(buf, 1, Size)
    <3>1. e \in Seq(Nat) /\ Len(e) = Size /\ \A i \in 1..Size : buf[i] = e[i]
      BY <2>2, <2>5
    <3> HIDE DEF e
    <3>2. \A i \in 1..Size : buf[i] \in Nat
      BY <1>1, <2>2
    <3>3. /\ s \in Seq(Nat) /\ Len(s) = (IF 1 <= Size THEN Size - 1 + 1 ELSE 0)
          /\ \A i \in 1..(Size - 1 + 1) : s[i] = buf[1 + i - 1]
      BY <2>2, <3>2, SubSeqProperties
    <3> HIDE DEF s
    <3>4. Len(s) = Len(e) /\ \A i \in 1..Len(s) : s[i] = e[i]
      BY <2>2, <3>1, <3>3
    <3>5. s = e
      BY <3>1, <3>3, <3>4, SeqEqual
    <3> QED BY <3>5 DEF s, e
  <2>7. /\ SubSeq(buf, Size + 1, Len(buf)) \in Seq(Nat)
        /\ SubSeq(buf, 1, Size) \o SubSeq(buf, Size + 1, Len(buf)) = buf
    BY <1>1, <2>2, DivideLine
  <2> QED BY <1>3, <2>1, <2>3, <2>4, <2>6, <2>7
<1> QED BY <1>2, <1>4, <1>5 DEF f

\* The parts of the invariant, where a step leaves what they are about.
LEMMA SourceKept ==
  ASSUME LineInv, UNCHANGED <<toHost, sequence, sent, queue, received>>
  PROVE  SourceInv'
BY DEF LineInv, SourceInv

\* The parser and the line are left alone.
LEMMA ParseKept ==
  ASSUME LineInv, UNCHANGED <<parser, sent, delivered, lossAt, refused, dropped>>
  PROVE  ParseInv'
BY DEF LineInv, ParseInv, Intact, Aligned, parser

\* The datagrams stay where they are.
LEMMA QueueKept ==
  ASSUME LineInv, UNCHANGED <<toHost, queue, received, stream, sent, refused>>,
         Aligned' => Aligned
  PROVE  QueueInv'
BY DEF LineInv, QueueInv

\* What an aligned line holds, in the new state.
HeldTo ==
    /\ wire' \in Seq(Nat) /\ chunk' \in Seq(Nat) /\ buf' \in Seq(Nat)
    /\ Len(delivered') <= Len(sent')
    /\ delivered' = SubSeq(sent', 1, Len(delivered'))
    /\ Bytes(sent') = Whole(Bytes(delivered'), buf', chunk', wire')

\* What the parser of an intact line holds, in the new state.
BegunTo ==
    buf' # <<>> => /\ Len(delivered') < Len(sent')
                   /\ Len(buf') <= Len(Encode(sent'[Len(delivered') + 1]))
                   /\ ~scanning' => Len(buf') < Len(Encode(sent'[Len(delivered') + 1]))

\* The new state of the parser.
LEMMA ParseTo ==
  ASSUME dropped' => refused', Aligned' => HeldTo, Intact' => BegunTo
  PROVE  ParseInv'
BY DEF ParseInv, Whole, HeldTo, BegunTo

\* A frame sent by the board, or one it could not send.
LEMMA SendFromBoardStep ==
  ASSUME LineInv, SendFromBoard
  PROVE  LineInv'
<1>1. toHost \in BOOLEAN /\ sequence \in Nat
  BY DEF LineInv, SourceInv
<1>2. /\ toHost /\ queue' = queue /\ stream' = stream
      /\ lossAt' = lossAt /\ refused' = refused /\ dropped' = dropped /\ received' = received
  BY DEF SendFromBoard, host, history
<1>3. sequence' \in Nat
  <2>1. Width \in Nat /\ Width > 0
    BY ProtocolAssumption DEF Width
  <2>2. sequence' = sequence \/ sequence' = (sequence + 1) % Width
    BY DEF SendFromBoard
  <2> QED BY <1>1, <2>1, <2>2
<1>4. CASE \E f \in Frames(toHost) : Put(f)
  <2>1. PICK f \in Frames(toHost) : Put(f)
    BY <1>4
  <2>2. toHost' = toHost
    BY <2>1 DEF Put
  <2>3. sent' \in Seq(Frames(toHost)) /\ ParseInv'
    BY <1>2, <2>1, PutStep
  <2>4. SourceInv'
    BY <1>1, <1>2, <1>3, <2>2, <2>3 DEF LineInv, SourceInv
  <2>5. QueueInv'
    BY <1>2, <2>2 DEF LineInv, QueueInv, Aligned
  <2> QED BY <2>3, <2>4, <2>5 DEF LineInv
<1>5. CASE UNCHANGED <<toHost, parser, sent, delivered>>
  <2>1. ParseInv'
    BY <1>2, <1>5, ParseKept
  <2>2. SourceInv'
    BY <1>1, <1>2, <1>3, <1>5 DEF LineInv, SourceInv
  <2>3. QueueInv'
    BY <1>2, <1>5 DEF LineInv, QueueInv, Aligned
  <2> QED BY <2>1, <2>2, <2>3 DEF LineInv
<1>6. CASE \E f \in HostFrames : Put(f)
  BY <1>1, <1>2, <1>4, <1>6, SendersConform
<1>7. CASE \E p \in DataPayloads : Put(Frame(DATA, WriteLe16(sequence) \o p))
  <2>1. PICK p \in DataPayloads : Put(Frame(DATA, WriteLe16(sequence) \o p))
    BY <1>7
  <2>2. Frame(DATA, WriteLe16(sequence) \o p) \in Frames(toHost)
    BY <1>1, SendersConform
  <2> QED BY <1>4, <2>1, <2>2
<1> QED BY <1>5, <1>6, <1>7 DEF SendFromBoard

\* A datagram joins the queue.
LEMMA ReceiveStep ==
  ASSUME LineInv, ReceiveFromAgent
  PROVE  LineInv'
<1>1. PICK q \in Datagrams : /\ Len(q) <= Mtu /\ received' = Append(received, q)
                             /\ queue' = Append(queue, q)
  BY DEF ReceiveFromAgent
<1>2. /\ ~toHost /\ toHost' = toHost /\ sequence' = sequence /\ stream' = stream
      /\ sent' = sent /\ delivered' = delivered /\ lossAt' = lossAt
      /\ refused' = refused /\ dropped' = dropped /\ UNCHANGED parser
  BY DEF ReceiveFromAgent, board
<1> DEFINE S == {d \in Seq(Nat) : Len(d) <= Mtu}
<1>3. q \in Seq(Nat) /\ q \in S
  <2>1. q \in Seq(Byte) /\ Byte \subseteq Nat
    BY FramesAssumption, Numbers
  <2> QED BY <1>1, <2>1, SeqMonotonic
<1>4. queue \in Seq(S) /\ received \in Seq(Seq(Nat)) /\ S \subseteq Seq(Nat)
  BY DEF LineInv, SourceInv
<1>5. SourceInv'
  <2>1. received' \in Seq(Seq(Nat))
    BY <1>1, <1>3, <1>4, AppendProperties
  <2>2. queue' \in Seq(S)
    <3> HIDE DEF S
    <3> QED BY <1>1, <1>3, <1>4, AppendProperties
  <2> QED BY <1>2, <2>1, <2>2 DEF LineInv, SourceInv
<1>6. ParseInv'
  BY <1>2, ParseKept
<1>7. received' = Joined(Bodies(toHost), sent) \o queue'
  <2> DEFINE j == Joined(Bodies(toHost), sent)
             E == Seq(Nat)
  <2>1. queue \in Seq(E) /\ q \in E
    <3> HIDE DEF S
    <3> QED BY <1>3, <1>4, SeqMonotonic
  <2>2. received = j \o queue
    BY <1>2 DEF LineInv, QueueInv
  <2>3. j \in Seq(E)
    <3>1. Frame(XRCE, q) \in Frames(toHost) /\ sent \in Seq(Frames(toHost))
      BY <1>1, <1>3, SendersConform DEF LineInv, SourceInv
    <3>2. Bodies(toHost) \in [Frames(toHost) -> Seq(E)]
      BY EncodedShape
    <3> DEFINE F == Frames(toHost)
               c == Bodies(toHost)
    <3>3. c \in Lists(F, E) /\ Frame(XRCE, q) \in F /\ sent \in Seq(F)
      BY <3>1, <3>2 DEF Lists
    <3> HIDE DEF F, c, E
    <3>4. Joined(c, sent) \in Seq(E)
      BY <3>3, JoinedAppend
    <3> QED BY <3>4 DEF c
  <2> HIDE DEF j, E
  <2>4. Append(j \o queue, q) = j \o Append(queue, q)
    <3>1. <<q>> \in Seq(E) /\ j \o queue \in Seq(E)
      BY <2>1, <2>3, ConcatProperties
    <3>2. /\ Append(j \o queue, q) = (j \o queue) \o <<q>>
          /\ Append(queue, q) = queue \o <<q>>
      BY <2>1, <3>1, AppendIsConcat
    <3>3. (j \o queue) \o <<q>> = j \o (queue \o <<q>>)
      <4>1. Regroups(j, queue, <<q>>)
        BY <2>1, <2>3, <3>1, Assoc
      <4> QED BY <4>1 DEF Regroups
    <3> QED BY <3>2, <3>3
  <2>5. received' = j \o queue'
    BY <1>1, <2>2, <2>4
  <2> QED BY <2>5 DEF j
<1>8. QueueInv'
  BY <1>2, <1>7 DEF LineInv, QueueInv, Aligned
<1> QED BY <1>5, <1>6, <1>8 DEF LineInv

\* A frame sent by the host: a datagram of the queue, or nothing of it.
LEMMA TakeTransmitStep ==
  ASSUME LineInv, TakeTransmit
  PROVE  LineInv'
<1> DEFINE S == {d \in Seq(Nat) : Len(d) <= Mtu}
           E == Seq(Nat)
           j == Joined(Bodies(toHost), sent)
<1>1. toHost \in BOOLEAN /\ FirstSequence \in Nat /\ queue \in Seq(S) /\ sent \in Seq(Frames(toHost))
  BY Numbers DEF LineInv, SourceInv
<1>2. /\ ~toHost /\ sequence' = sequence /\ stream' = stream
      /\ lossAt' = lossAt /\ refused' = refused /\ dropped' = dropped /\ received' = received
  BY DEF TakeTransmit, board, history
<1>3. queue \in Seq(E) /\ S \subseteq E
  <2>1. S \subseteq E
    OBVIOUS
  <2> HIDE DEF S, E
  <2> QED BY <1>1, <2>1, SeqMonotonic
<1>5. PICK f \in Frames(toHost) :
         Put(f) /\ queue' \in Seq(S) /\ queue' \in Seq(E) /\ queue = Bodies(toHost)[f] \o queue'
  <2>1. ASSUME NEW f \in Frames(toHost), Put(f), f.mid # XRCE, UNCHANGED queue
        PROVE  /\ Put(f) /\ queue' \in Seq(S) /\ queue' \in Seq(E)
               /\ queue = Bodies(toHost)[f] \o queue'
    <3>1. Bodies(toHost)[f] = <<>>
      BY <2>1 DEF Bodies
    <3>2. <<>> \o queue = queue
      BY <1>3, ConcatEmptySeq
    <3> QED BY <1>1, <1>3, <2>1, <3>1, <3>2
  <2>2. CASE Put(Frame(CONFIG, <<1>>)) /\ UNCHANGED queue
    <3>1. Frame(CONFIG, <<1>>) \in Frames(toHost) /\ Frame(CONFIG, <<1>>).mid # XRCE
      BY <1>1, <1>2, SendersConform DEF Frame, CONFIG, XRCE
    <3> QED BY <2>1, <2>2, <3>1
  <2>3. CASE Put(Frame(READ_ACK, WriteLe16(FirstSequence))) /\ UNCHANGED queue
    <3>1. /\ Frame(READ_ACK, WriteLe16(FirstSequence)) \in Frames(toHost)
          /\ Frame(READ_ACK, WriteLe16(FirstSequence)).mid # XRCE
      BY <1>1, SendersConform DEF Frame, READ_ACK, XRCE
    <3> QED BY <2>1, <2>3, <3>1
  <2>4. CASE /\ \E p \in DataPayloads : Put(Frame(DATA, WriteLe16(FirstSequence) \o p))
             /\ UNCHANGED queue
    <3>1. PICK p \in DataPayloads : Put(Frame(DATA, WriteLe16(FirstSequence) \o p))
      BY <2>4
    <3>2. /\ Frame(DATA, WriteLe16(FirstSequence) \o p) \in Frames(toHost)
          /\ Frame(DATA, WriteLe16(FirstSequence) \o p).mid # XRCE
      <4>1. Frame(DATA, WriteLe16(FirstSequence) \o p) \in Frames(toHost)
        BY <1>1, SendersConform
      <4> QED BY <4>1 DEF Frame, DATA, XRCE
    <3> QED BY <2>1, <2>4, <3>1, <3>2
  <2>5. CASE queue # <<>> /\ Put(Frame(XRCE, Head(queue))) /\ queue' = Tail(queue)
    <3>1. Head(queue) \in S /\ queue' \in Seq(S)
      <4> HIDE DEF S
      <4> QED BY <1>1, <2>5, HeadTailProperties
    <3>2. Frame(XRCE, Head(queue)) \in Frames(toHost)
      BY <1>1, <3>1, SendersConform
    <3>3. Bodies(toHost)[Frame(XRCE, Head(queue))] = <<Head(queue)>>
      BY <3>2 DEF Bodies, Frame
    <3>4. queue' \in Seq(E) /\ queue = <<Head(queue)>> \o queue'
      <4> HIDE DEF E
      <4> QED BY <1>3, <2>5
    <3> QED BY <2>5, <3>1, <3>2, <3>3, <3>4
  <2> QED BY <2>2, <2>3, <2>4, <2>5 DEF TakeTransmit, Urgent
<1>6. toHost' = toHost /\ delivered' = delivered
  BY <1>5 DEF Put
<1>7. /\ sent' \in Seq(Frames(toHost)) /\ ParseInv' /\ j \in Seq(E)
      /\ Joined(Bodies(toHost), sent') = j \o Bodies(toHost)[f]
  BY <1>2, <1>5, PutStep
<1>8. SourceInv'
  BY <1>1, <1>2, <1>5, <1>6, <1>7 DEF LineInv, SourceInv
<1>9. received' = Joined(Bodies(toHost), sent') \o queue'
  <2> DEFINE p == Bodies(toHost)[f]
             q == queue'
  <2>1. p \in Seq(E) /\ q \in Seq(E) /\ j \in Seq(E)
    BY <1>5, <1>7, EncodedShape
  <2>2. received = j \o queue
    BY <1>2 DEF LineInv, QueueInv
  <2>3. queue = p \o q /\ Joined(Bodies(toHost), sent') = j \o p
    BY <1>5, <1>7
  <2>4. received' = received
    BY <1>2
  <2> HIDE DEF p, q, j, E
  <2>5. (j \o p) \o q = j \o (p \o q)
    <3>1. Regroups(j, p, q)
      BY <2>1, Assoc
    <3> QED BY <3>1 DEF Regroups
  <2>6. received' = Joined(Bodies(toHost), sent') \o q
    BY <2>2, <2>3, <2>4, <2>5
  <2> QED BY <2>6 DEF q
<1>10. QueueInv'
  BY <1>2, <1>6, <1>9 DEF LineInv, QueueInv, Aligned
<1> QED BY <1>7, <1>8, <1>10 DEF LineInv

\* A line that loses a byte is not aligned: the place of the loss is not 0.
LEMMA LoseStep ==
  ASSUME LineInv, LoseByte
  PROVE  LineInv'
<1>1. /\ toHost' = toHost /\ sequence' = sequence /\ stream' = stream /\ queue' = queue
      /\ sent' = sent /\ delivered' = delivered /\ refused' = refused /\ dropped' = dropped
      /\ received' = received /\ lossAt = 0
      /\ lossAt' = Len(Bytes(sent)) - Len(wire) + 1
  BY DEF LoseByte, host, board
<1>2. ~Aligned' /\ ~Intact'
  <2>0. ~refused => ~dropped
    BY DEF LineInv, ParseInv
  <2> SUFFICES ASSUME ~dropped PROVE lossAt' # 0
    BY <1>1, <2>0 DEF Intact, Aligned
  <2>1. Aligned
    BY <1>1 DEF Aligned
  <2> DEFINE x == Bytes(delivered)
             y == chunk \o wire
             z == buf \o y
  <2>2. /\ x \in Seq(Nat) /\ buf \in Seq(Nat) /\ chunk \in Seq(Nat) /\ wire \in Seq(Nat)
        /\ Bytes(sent) = x \o z
    BY <2>1, AlignedFacts DEF AllBytes, Whole
  <2>3. y \in Seq(Nat) /\ Len(y) = Len(chunk) + Len(wire)
    BY <2>2, ConcatProperties
  <2> HIDE DEF x, y
  <2>4. z \in Seq(Nat) /\ Len(z) = Len(buf) + Len(y)
    BY <2>2, <2>3, ConcatProperties
  <2> HIDE DEF z
  <2>5. Len(x \o z) = Len(x) + Len(z)
    BY <2>2, <2>4, ConcatProperties
  <2>6. Len(x) \in Nat /\ Len(buf) \in Nat /\ Len(chunk) \in Nat /\ Len(wire) \in Nat
    BY <2>2
  <2>7. Len(Bytes(sent)) \in Nat /\ Len(Bytes(sent)) >= Len(wire)
    BY <2>2, <2>3, <2>4, <2>5, <2>6
  <2> QED BY <1>1, <2>6, <2>7
<1>3. SourceInv'
  BY <1>1, SourceKept
<1>4. ParseInv'
  BY <1>1, <1>2 DEF LineInv, ParseInv
<1>5. QueueInv'
  BY <1>1, <1>2, QueueKept
<1> QED BY <1>3, <1>4, <1>5 DEF LineInv

\* A read takes the beginning of the line.
LEMMA ReadStep ==
  ASSUME LineInv, Read
  PROVE  LineInv'
<1>1. /\ toHost' = toHost /\ sequence' = sequence /\ stream' = stream /\ queue' = queue
      /\ sent' = sent /\ delivered' = delivered /\ refused' = refused /\ dropped' = dropped /\ lossAt' = lossAt
      /\ received' = received /\ buf' = buf /\ scanning' = scanning
      /\ chunk = <<>> /\ wire # <<>>
  BY DEF Read, host, board, history
<1>2. PICK n \in IF toHost THEN {1} ELSE 1..Len(wire) :
         chunk' = SubSeq(wire, 1, n) /\ wire' = SubSeq(wire, n + 1, Len(wire))
  BY DEF Read
<1>3. ASSUME Aligned'
      PROVE  HeldTo
  <2>1. Aligned
    BY <1>1, <1>3 DEF Aligned
  <2>2. /\ wire \in Seq(Nat) /\ buf \in Seq(Nat)
        /\ Bytes(sent) = Whole(Bytes(delivered), buf, chunk, wire)
        /\ Len(delivered) <= Len(sent) /\ delivered = SubSeq(sent, 1, Len(delivered))
    BY <2>1, AlignedFacts DEF AllBytes
  <2>3. n \in 1..Len(wire)
    <3>1. Len(wire) \in Nat /\ Len(wire) # 0
      BY <1>1, <2>2, EmptySeq
    <3> QED BY <1>2, <3>1
  <2>4. wire' \in Seq(Nat) /\ chunk' \in Seq(Nat) /\ chunk' \o wire' = wire
    BY <1>2, <2>2, <2>3, DivideLine
  <2>5. chunk \o wire = wire
    BY <1>1, <2>2, ConcatEmptySeq
  <2>6. Bytes(sent') = Whole(Bytes(delivered'), buf', chunk', wire')
    BY <1>1, <2>2, <2>4, <2>5 DEF Whole
  <2> QED BY <1>1, <2>2, <2>4, <2>6 DEF HeldTo
<1>4. Intact' => BegunTo
  BY <1>1 DEF LineInv, ParseInv, Intact, BegunTo
<1>5. SourceInv' /\ (dropped' => refused')
  BY <1>1, SourceKept DEF LineInv, ParseInv
<1>6. QueueInv'
  BY <1>1, QueueKept DEF Aligned
<1> QED BY <1>3, <1>4, <1>5, <1>6, ParseTo DEF LineInv

\* The next byte of the chunk joins what the parser holds; on an intact line it
\* is the next byte of the frame begun, or the first one of the next frame.
LEMMA FeedStep ==
  ASSUME LineInv, FeedByte
  PROVE  LineInv'
<1>1. /\ toHost' = toHost /\ sequence' = sequence /\ stream' = stream /\ queue' = queue
      /\ sent' = sent /\ delivered' = delivered /\ refused' = refused /\ lossAt' = lossAt
      /\ received' = received /\ wire' = wire
      /\ chunk # <<>> /\ ~scanning /\ scanning' = TRUE /\ chunk' = Tail(chunk)
      /\ buf' = Append(IF Len(buf) = Capacity THEN Tail(buf) ELSE buf, Head(chunk))
      /\ dropped' = (dropped \/ (refused /\ Len(buf) = Capacity))
  BY DEF FeedByte, host, board
<1> DEFINE f == sent[Len(delivered) + 1]
           x == Bytes(delivered)
<1>2. (dropped' => refused') /\ (Aligned' => Aligned) /\ (Intact' => Intact /\ Aligned')
  BY <1>1 DEF LineInv, ParseInv, Aligned, Intact
<1>3. ASSUME Aligned'
      PROVE  /\ buf' = Append(buf, Head(chunk)) /\ Len(buf') = Len(buf) + 1 /\ Len(buf) \in Nat
             /\ buf' \in Seq(Nat) /\ chunk' \in Seq(Nat)
             /\ Bytes(sent) = Whole(x, buf', chunk', wire)
             /\ Len(delivered) < Len(sent) /\ f \in Frames(toHost) /\ HeldTo
  <2>1. Aligned
    BY <1>2, <1>3
  <2>2. /\ AllBytes(x, buf, chunk, wire) /\ Bytes(sent) = Whole(x, buf, chunk, wire)
        /\ Len(delivered) <= Len(sent) /\ delivered = SubSeq(sent, 1, Len(delivered))
    BY <2>1, AlignedFacts
  <2>3. x \in Seq(Nat) /\ buf \in Seq(Nat) /\ chunk \in Seq(Nat) /\ wire \in Seq(Nat)
        /\ Len(buf) \in Nat
    BY <2>2 DEF AllBytes
  <2>4. Len(buf) # Capacity
    <3>1. CASE buf = <<>>
      <4>1. Len(buf) = 0
        BY <3>1
      <4>2. Capacity # 0
        BY ProtocolAssumption, LineAssumption DEF Capacity, HostCapacity, LargestFrame
      <4> QED BY <4>1, <4>2
    <3>2. CASE buf # <<>> /\ ~refused
      <4>0. Intact
        BY <2>1, <3>2 DEF Aligned, Intact
      <4>1. Len(Encode(f)) \in Nat /\ Len(Encode(f)) <= Capacity /\ Capacity \in Int
        BY <2>1, <3>2, HeldParses
      <4>2. Len(buf) < Len(Encode(f))
        BY <1>1, <3>2, <4>0 DEF LineInv, ParseInv
      <4> QED BY <2>3, <4>1, <4>2
    <3>3. CASE refused
      BY <1>1, <1>3, <3>3 DEF Aligned
    <3> QED BY <3>1, <3>2, <3>3
  <2>5. buf' = Append(buf, Head(chunk))
    BY <1>1, <2>4
  <2>6. /\ buf' \in Seq(Nat) /\ Len(buf') = Len(buf) + 1 /\ chunk' \in Seq(Nat)
        /\ Whole(x, buf', chunk', wire) = Whole(x, buf, chunk, wire)
    <3> HIDE DEF x
    <3>1. AllBytes(x, buf, chunk, wire) /\ chunk # <<>>
      BY <1>1, <2>2
    <3>2. /\ Append(buf, Head(chunk)) \in Seq(Nat)
          /\ Len(Append(buf, Head(chunk))) = Len(buf) + 1
          /\ Tail(chunk) \in Seq(Nat)
          /\ Whole(x, Append(buf, Head(chunk)), Tail(chunk), wire) = Whole(x, buf, chunk, wire)
      BY <3>1, MoveByte
    <3> QED BY <1>1, <2>5, <3>2
  <2>7. Bytes(sent) = Whole(x, buf', chunk', wire)
    BY <2>2, <2>6
  <2>8. buf' # <<>>
    BY <2>3, <2>6
  <2>9. Len(delivered) < Len(sent) /\ f \in Frames(toHost)
    <3> DEFINE b == buf'
               y == chunk' \o wire
    <3>1. y \in Seq(Nat) /\ <<>> \in Seq(Nat)
      BY <2>3, <2>6, ConcatProperties
    <3>2. AllBytes(x, b, y, <<>>)
      BY <2>3, <2>6, <3>1 DEF AllBytes
    <3>3. Bytes(sent) = x \o (b \o y) /\ b # <<>>
      BY <2>7, <2>8 DEF Whole
    <3> HIDE DEF b, y
    <3> QED BY <2>1, <3>2, <3>3, NextFrame
  <2>10. HeldTo
    BY <1>1, <2>2, <2>3, <2>6, <2>7 DEF HeldTo
  <2> QED BY <2>3, <2>5, <2>6, <2>7, <2>9, <2>10
<1>4. ASSUME Intact'
      PROVE  BegunTo
  <2>1. Intact /\ Aligned'
    BY <1>2, <1>4
  <2>2. /\ Len(buf') = Len(buf) + 1 /\ Len(buf) \in Nat
        /\ Len(delivered) < Len(sent) /\ f \in Frames(toHost)
    BY <1>3, <2>1
  <2>3. Len(Encode(f)) \in Nat /\ Len(Encode(f)) >= 4
    BY <2>2, FrameFits DEF LineInv, SourceInv
  <2>4. Len(buf') <= Len(Encode(f))
    <3>1. CASE buf = <<>>
      <4>1. Len(buf) = 0
        BY <3>1
      <4> QED BY <2>2, <2>3, <4>1
    <3>2. CASE buf # <<>>
      <4>1. Len(buf) < Len(Encode(f))
        BY <1>1, <2>1, <3>2 DEF LineInv, ParseInv
      <4> QED BY <2>2, <2>3, <4>1
    <3> QED BY <3>1, <3>2
  <2> QED BY <1>1, <2>2, <2>4 DEF BegunTo
<1>5. ParseInv'
  BY <1>2, <1>3, <1>4, ParseTo
<1>6. SourceInv'
  BY <1>1, SourceKept
<1>7. QueueInv'
  BY <1>1, <1>2, QueueKept
<1> QED BY <1>5, <1>6, <1>7 DEF LineInv

\* The loop is left only while the frame is not complete.
LEMMA NeedMoreStep ==
  ASSUME LineInv, NeedMore
  PROVE  LineInv'
<1>1. /\ toHost' = toHost /\ sequence' = sequence /\ stream' = stream /\ queue' = queue
      /\ sent' = sent /\ delivered' = delivered /\ refused' = refused /\ dropped' = dropped
      /\ lossAt' = lossAt /\ received' = received /\ wire' = wire /\ chunk' = chunk
      /\ buf' = buf
  BY DEF NeedMore, host, board, history
<1>2. (dropped' => refused') /\ (Aligned' => Aligned) /\ (Intact' => Intact /\ Aligned)
  BY <1>1 DEF LineInv, ParseInv, Aligned, Intact
<1>3. Aligned' => HeldTo
  BY <1>1, <1>2 DEF LineInv, ParseInv, HeldTo, Whole
<1>4. ASSUME Intact', buf # <<>>
      PROVE  /\ Len(delivered) < Len(sent)
             /\ Len(buf) <= Len(Encode(sent[Len(delivered) + 1]))
             /\ Len(buf) < Len(Encode(sent[Len(delivered) + 1]))
  <2> DEFINE e == Len(Encode(sent[Len(delivered) + 1]))
  <2>1. /\ Len(delivered) < Len(sent) /\ Len(buf) <= e /\ e \in Nat /\ e >= 4
        /\ Size \in {0, e} /\ (Size = 0 => Len(buf) < e) /\ buf \in Seq(Nat)
    BY <1>2, <1>4, HeldParses
  <2>2. Len(buf) < 3 \/ Size = 0 \/ Len(buf) < Size
    BY DEF NeedMore
  <2>3. Len(buf) \in Nat
    BY <2>1
  <2> HIDE DEF e
  <2>4. Len(buf) < e
    BY <2>1, <2>2, <2>3
  <2> QED BY <2>1, <2>4 DEF e
<1>5. Intact' => BegunTo
  BY <1>1, <1>4 DEF BegunTo
<1>6. ParseInv'
  BY <1>2, <1>3, <1>5, ParseTo
<1>7. SourceInv'
  BY <1>1, SourceKept
<1>8. QueueInv'
  BY <1>1, <1>2, QueueKept
<1> QED BY <1>6, <1>7, <1>8 DEF LineInv

\* A frame that is handled is the next one sent.
LEMMA ConsumeStep ==
  ASSUME LineInv, Complete, Consume, UNCHANGED <<lossAt, refused, dropped>>
  PROVE  ParseInv'
<1>1. /\ toHost' = toHost /\ sent' = sent /\ wire' = wire /\ chunk' = chunk
      /\ scanning' = scanning /\ refused' = refused /\ dropped' = dropped /\ lossAt' = lossAt
      /\ buf' = SubSeq(buf, Size + 1, Len(buf)) /\ delivered' = Append(delivered, Current)
  BY DEF Consume
<1>2. (dropped' => refused') /\ (Aligned' => Aligned) /\ (Intact' => Intact /\ Aligned)
  BY SMTT(40), <1>1 DEF LineInv, ParseInv, Aligned, Intact
<1>3. ASSUME Aligned'
      PROVE  HeldTo
  <2> DEFINE n == Len(delivered)
             x == Bytes(delivered)
             e == Encode(Current)
             r == buf'
             y == chunk \o wire
  <2>1. Aligned
    BY <1>2, <1>3
  <2>2. /\ Current = sent[n + 1] /\ n < Len(sent) /\ Current \in Frames(toHost)
        /\ r \in Seq(Nat) /\ buf = e \o r
    BY <1>1, <2>1, AlignedParser
  <2>4. /\ sent \in Seq(Frames(toHost)) /\ delivered \in Seq(Frames(toHost))
        /\ n \in Nat /\ Len(sent) \in Nat /\ delivered = SubSeq(sent, 1, n)
        /\ Bytes(sent) = x \o (buf \o y)
        /\ x \in Seq(Nat) /\ chunk \in Seq(Nat) /\ wire \in Seq(Nat) /\ buf \in Seq(Nat)
    BY <2>1, AlignedFacts DEF AllBytes, Whole
  <2>5. Bytes(delivered') = x \o e /\ e \in Seq(Nat)
    BY <1>1, <2>2, <2>4, BytesAppend
  <2>6. y \in Seq(Nat)
    BY <2>4, ConcatProperties
  <2>7. Bytes(sent') = Whole(Bytes(delivered'), buf', chunk', wire')
    <3>1. Bytes(sent) = x \o ((e \o r) \o y)
      BY <2>2, <2>4
    <3>2. x \in Seq(Nat) /\ e \in Seq(Nat) /\ y \in Seq(Nat) /\ r \in Seq(Nat)
      BY <2>2, <2>4, <2>5, <2>6
    <3>3. Whole(Bytes(delivered'), buf', chunk', wire') = (x \o e) \o (r \o y)
      BY <1>1, <2>5 DEF Whole
    <3> HIDE DEF x, e, y, r
    <3>4. (e \o r) \o y = e \o (r \o y) /\ r \o y \in Seq(Nat)
      <4>1. Regroups(e, r, y)
        BY <3>2, Assoc
      <4>2. (e \o r) \o y = e \o (r \o y)
        BY <4>1 DEF Regroups
      <4>3. r \o y \in Seq(Nat)
        BY <3>2, ConcatProperties
      <4> QED BY <4>2, <4>3
    <3>5. (x \o e) \o (r \o y) = x \o (e \o (r \o y))
      <4>1. Regroups(x, e, r \o y)
        BY <3>2, <3>4, Assoc
      <4> QED BY <4>1 DEF Regroups
    <3> QED BY <1>1, <3>1, <3>3, <3>4, <3>5
  <2>8. SubSeq(sent, 1, n + 1) = Append(SubSeq(sent, 1, n), sent[n + 1])
    BY <2>2, <2>4, BytesNext
  <2>9. Len(delivered') = n + 1
    BY <1>1, <2>2, <2>4, AppendProperties
  <2>10. delivered' = SubSeq(sent', 1, Len(delivered')) /\ Len(delivered') <= Len(sent')
    <3>1. delivered' = SubSeq(sent, 1, n + 1)
      BY <1>1, <2>2, <2>4, <2>8
    <3>2. n + 1 <= Len(sent)
      BY <2>2, <2>4
    <3> QED BY <1>1, <2>9, <3>1, <3>2
  <2> QED BY <1>1, <2>2, <2>4, <2>7, <2>10 DEF HeldTo
<1>4. ASSUME Intact'
      PROVE  BegunTo
  <2>1. buf' = <<>>
    BY <1>1, <1>2, <1>4, AlignedParser
  <2> QED BY <2>1 DEF BegunTo
<1> QED BY <1>2, <1>3, <1>4, ParseTo

\* The handlers, which consume the frame.
LEMMA HandleStep ==
  ASSUME LineInv, HostHandles \/ BoardHandles \/ AcceptXrce
  PROVE  LineInv'
<1>1. /\ toHost' = toHost /\ sequence' = sequence /\ queue' = queue /\ sent' = sent
      /\ refused' = refused /\ dropped' = dropped /\ lossAt' = lossAt /\ received' = received
      /\ Complete /\ Consume
  BY DEF HostHandles, BoardHandles, AcceptXrce, Consume, host, board, history
<1>2. SourceInv'
  BY <1>1, SourceKept
<1>3. ParseInv'
  BY <1>1, ConsumeStep
<1>4. ASSUME Aligned'
      PROVE  stream' \in Seq(Nat)
  <2>1. Aligned /\ stream \in Seq(Nat)
    BY <1>1, <1>4 DEF LineInv, QueueInv, Aligned
  <2>2. CASE HostHandles \/ BoardHandles
    BY <2>1, <2>2 DEF HostHandles, BoardHandles, board
  <2>3. CASE AcceptXrce
    <3>1. Current \in Frames(toHost)
      BY <1>1, <2>1, AlignedParser
    <3>2. Current.body \in Seq(Nat)
      BY <3>1 DEF Frames
    <3>3. stream' = stream \o Current.body
      BY <2>3 DEF AcceptXrce
    <3> QED BY <2>1, <3>2, <3>3, ConcatProperties
  <2> QED BY <2>2, <2>3
<1>5. toHost => stream' = stream
  BY DEF HostHandles, BoardHandles, AcceptXrce, board
<1>6. QueueInv'
  BY <1>1, <1>4, <1>5 DEF LineInv, QueueInv
<1> QED BY <1>2, <1>3, <1>6 DEF LineInv

\* A payload that is refused stays where it is, and the line aligned when no
\* more of this read is thrown away.
LEMMA RefuseStep ==
  ASSUME LineInv, RefuseXrce
  PROVE  LineInv'
<1>1. /\ toHost' = toHost /\ sequence' = sequence /\ queue' = queue /\ sent' = sent
      /\ received' = received /\ ~toHost /\ refused' /\ wire' = wire /\ buf' = buf
      /\ delivered' = delivered /\ lossAt' = lossAt /\ Complete
      /\ chunk' = <<>> /\ dropped' = (dropped \/ chunk # <<>>)
      /\ stream' = stream \o SubSeq(Current.body, 1, Room)
  BY DEF RefuseXrce, host
<1>2. ~Intact'
  BY <1>1 DEF Intact
<1>3. ASSUME Aligned'
      PROVE  HeldTo /\ stream' \in Seq(Nat)
  <2>1. Aligned /\ chunk' = chunk
    BY <1>1, <1>3 DEF Aligned
  <2>2. HeldTo
    BY <1>1, <2>1 DEF LineInv, ParseInv, HeldTo, Whole
  <2>3. stream \in Seq(Nat) /\ Current \in Frames(toHost)
    BY <1>1, <2>1, AlignedParser DEF LineInv, QueueInv
  <2>4. Current.body \in Seq(Nat)
    BY <2>3 DEF Frames
  <2>5. SubSeq(Current.body, 1, Room) \in Seq(Nat)
    <3>1. Len(Current.body) > Room
      BY DEF RefuseXrce
    <3>2. Room \in Int
      BY <2>3, Numbers, ProtocolAssumption DEF Room
    <3>3. \A i \in 1..Room : Current.body[i] \in Nat
      BY <2>4, <3>1, <3>2
    <3> QED BY <3>2, <3>3, SubSeqProperties
  <2>6. stream' \in Seq(Nat)
    BY <1>1, <2>3, <2>5, ConcatProperties
  <2> QED BY <2>2, <2>6
<1>4. SourceInv'
  BY <1>1, SourceKept
<1>5. ParseInv'
  BY <1>1, <1>2, <1>3, ParseTo
<1>6. QueueInv'
  BY <1>1, <1>3 DEF LineInv, QueueInv
<1> QED BY <1>4, <1>5, <1>6 DEF LineInv

\* micro-ROS takes what the stream buffer holds.
LEMMA TransportReadStep ==
  ASSUME LineInv, TransportRead
  PROVE  LineInv'
<1>1. /\ toHost' = toHost /\ sequence' = sequence /\ queue' = queue /\ sent' = sent
      /\ refused' = refused /\ dropped' = dropped /\ lossAt' = lossAt /\ received' = received
      /\ delivered' = delivered /\ UNCHANGED parser /\ stream' = <<>>
  BY DEF TransportRead, host, history
<1>2. stream' \in Seq(Nat)
  BY <1>1
<1>3. QueueInv'
  BY <1>1, <1>2 DEF LineInv, QueueInv
<1>4. SourceInv' /\ ParseInv'
  BY <1>1, SourceKept, ParseKept
<1> QED BY <1>3, <1>4 DEF LineInv

\* Bytes are dropped from the buffer only on a line that is not aligned.
LEMMA DiscardStep ==
  ASSUME LineInv, Resync \/ Reject
  PROVE  LineInv'
<1>1. /\ toHost' = toHost /\ sequence' = sequence /\ stream' = stream /\ queue' = queue
      /\ sent' = sent /\ delivered' = delivered /\ refused' = refused /\ dropped' = dropped
      /\ lossAt' = lossAt /\ received' = received
  BY DEF Resync, Reject, Discard, host, board, history
<1>2. ~Aligned /\ ~Aligned' /\ ~Intact' /\ (dropped' => refused')
  <2>1. ~Aligned
    BY AlignedParser
  <2> QED BY <1>1, <2>1 DEF LineInv, ParseInv, Intact, Aligned
<1>3. SourceInv' /\ QueueInv'
  BY <1>1, <1>2, SourceKept, QueueKept
<1>4. ParseInv'
  BY <1>2 DEF ParseInv
<1> QED BY <1>3, <1>4 DEF LineInv

\* Every step of the line keeps its invariant.
LEMMA LineStep == LineInv /\ [LineNext]_lineVars => LineInv'
<1> SUFFICES ASSUME LineInv, [LineNext]_lineVars PROVE LineInv'
  OBVIOUS
<1>1. CASE SendFromBoard
  BY <1>1, SendFromBoardStep
<1>2. CASE ReceiveFromAgent
  BY <1>2, ReceiveStep
<1>3. CASE TakeTransmit
  BY <1>3, TakeTransmitStep
<1>4. CASE LoseByte
  BY <1>4, LoseStep
<1>5. CASE Read
  BY <1>5, ReadStep
<1>6. CASE FeedByte
  BY <1>6, FeedStep
<1>7. CASE Resync \/ Reject
  BY <1>7, DiscardStep
<1>8. CASE NeedMore
  BY <1>8, NeedMoreStep
<1>9. CASE HostHandles \/ BoardHandles \/ AcceptXrce
  BY <1>9, HandleStep
<1>10. CASE RefuseXrce
  BY <1>10, RefuseStep
<1>11. CASE TransportRead
  BY <1>11, TransportReadStep
<1>12. CASE UNCHANGED lineVars
  <2>1. UNCHANGED <<toHost, parser, sequence, queue, sent, delivered, lossAt, refused,
                    dropped, received, stream>>
    BY <1>12 DEF lineVars, host, board, history
  <2>2. SourceInv'
    BY <2>1, SourceKept
  <2>3. ParseInv'
    BY <2>1, ParseKept
  <2>4. QueueInv'
    <3>1. Aligned' => Aligned
      BY <2>1 DEF Aligned
    <3> QED BY <2>1, <3>1, QueueKept
  <2> QED BY <2>2, <2>3, <2>4 DEF LineInv
<1> QED BY <1>1, <1>2, <1>3, <1>4, <1>5, <1>6, <1>7, <1>8, <1>9, <1>10, <1>11, <1>12
        DEF LineNext, Parse

\* The inductive invariant of the line: while it is aligned the frames handled
\* are the first ones sent and all other bytes are held, the parser of an intact
\* line holds the beginning of the next frame, and the datagrams the queue took
\* in are those sent and those it still holds, in order.
THEOREM LineInvariant == LineSpec => []LineInv
<1>1. LineInit => LineInv
  BY LineInitInv
<1>2. LineInv /\ [LineNext]_lineVars => LineInv'
  BY LineStep
<1> QED BY <1>1, <1>2, PTL DEF LineSpec

\* For all frames and any division of the bytes into reads, the handlers get
\* exactly the frames that were sent, in order, as long as no byte is lost and
\* none thrown away after a refusal.
THEOREM LineLosslessInOrder == LineSpec => []LosslessInOrder
<1>1. LineInv => LosslessInOrder
  <2> SUFFICES ASSUME LineInv, Aligned
               PROVE  /\ IsPrefix(delivered, sent)
                      /\ Bytes(sent) = ((Bytes(delivered) \o buf) \o chunk) \o wire
    BY DEF LosslessInOrder
  <2> DEFINE x == Bytes(delivered)
             z == buf \o chunk
  <2>1. /\ sent \in Seq(Frames(toHost)) /\ delivered \in Seq(Frames(toHost))
        /\ Len(delivered) <= Len(sent) /\ delivered = SubSeq(sent, 1, Len(delivered))
        /\ AllBytes(x, buf, chunk, wire) /\ Bytes(sent) = x \o (buf \o (chunk \o wire))
    BY AlignedFacts DEF Whole
  <2>2. IsPrefix(delivered, sent)
    <3>1. SubSeq(delivered, 1, Len(delivered)) = delivered
      BY <2>1, SubSeqFull
    <3> QED BY <2>1, <3>1 DEF IsPrefix
  <2>3. Bytes(sent) = ((x \o buf) \o chunk) \o wire
    <3>1. x \in Seq(Nat) /\ buf \in Seq(Nat) /\ chunk \in Seq(Nat) /\ wire \in Seq(Nat)
      BY <2>1 DEF AllBytes
    <3> HIDE DEF x
    <3>2. z \in Seq(Nat)
      BY <3>1, ConcatProperties
    <3>3. (x \o buf) \o chunk = x \o z
      <4>1. Regroups(x, buf, chunk)
        BY <3>1, Assoc
      <4> QED BY <4>1 DEF Regroups
    <3>4. z \o wire = buf \o (chunk \o wire)
      <4>1. Regroups(buf, chunk, wire)
        BY <3>1, Assoc
      <4> QED BY <4>1 DEF Regroups
    <3> HIDE DEF z
    <3>5. (x \o z) \o wire = x \o (z \o wire)
      <4>1. Regroups(x, z, wire)
        BY <3>1, <3>2, Assoc
      <4> QED BY <4>1 DEF Regroups
    <3> QED BY <2>1, <3>3, <3>4, <3>5
  <2> QED BY <2>2, <2>3
<1> QED BY <1>1, LineInvariant, PTL

\* One more frame adds its list to the joined ones.
Adds(c, s, f) == Joined(c, Append(s, f)) = Joined(c, s) \o c[f]

\* JoinedAppend in this form.
LEMMA JoinedAdds ==
  ASSUME NEW E, NEW F, NEW c \in Lists(F, E), NEW s \in Seq(F), NEW f \in F
  PROVE  Adds(c, s, f)
BY JoinedAppend DEF Adds

\* What stands at place n of an aligned line's frames, when it is a datagram, is
\* the datagram the queue took in after those of the first n frames.
LEMMA NextDatagram ==
  ASSUME LineInv, Aligned, ~toHost, Len(delivered) < Len(sent),
         NEW f, f = sent[Len(delivered) + 1], f.mid = XRCE
  PROVE  Len(Carried(delivered)) < Len(received) /\ received[Len(Carried(delivered)) + 1] = f.body
<1> DEFINE c == Bodies(toHost)
           F == Frames(toHost)
           E == Seq(Nat)
           n == Len(delivered)
           d == delivered
           p == Joined(c, d)
           b == f.body
<1>1. /\ c \in Lists(F, E) /\ sent \in Seq(F) /\ d \in Seq(F) /\ d = SubSeq(sent, 1, n)
      /\ n \in Nat /\ n + 1 \in 0..Len(sent) /\ Carried(d) = p
  BY AlignedFacts, EncodedShape DEF Lists
<1>2. f \in F /\ SubSeq(sent, 1, n + 1) = Append(d, f)
  BY <1>1, BytesNext
<1>3. c[f] = <<b>> /\ b \in E
  BY <1>2 DEF Bodies, Frames
<1>4. received = Joined(c, sent) \o queue /\ queue \in Seq(E)
  <2>1. queue \in Seq({q \in Seq(Nat) : Len(q) <= Mtu}) /\ received = Joined(c, sent) \o queue
    BY DEF LineInv, SourceInv, QueueInv
  <2> QED BY <2>1, SeqMonotonic
<1> HIDE DEF c, F, E, d, b, n
<1>5. p \in Seq(E) /\ Joined(c, Append(d, f)) = p \o c[f]
  <2>1. c \in Lists(F, E) /\ d \in Seq(F) /\ f \in F
    BY <1>1, <1>2
  <2>2. Joined(c, d) \in Seq(E)
    BY <2>1, JoinedAppend
  <2>3. Adds(c, d, f)
    BY <2>1, JoinedAdds
  <2> QED BY <2>2, <2>3 DEF Adds
<1>6. PICK r \in Seq(E) : Joined(c, sent) = Joined(c, SubSeq(sent, 1, n + 1)) \o r
  <2>1. Begins(E, c, sent, n + 1)
    BY <1>1, JoinedFront
  <2> QED BY <2>1 DEF Begins
<1> HIDE DEF p
<1>7. received = ((p \o <<b>>) \o r) \o queue
  BY <1>2, <1>3, <1>4, <1>5, <1>6
<1>8. Len(p) < Len(received) /\ received[Len(p) + 1] = b
  <2>1. /\ p \o <<b>> \in Seq(E) /\ Len(p \o <<b>>) = Len(p) + 1
        /\ (p \o <<b>>)[Len(p) + 1] = b /\ Len(p) \in Nat
    BY <1>3, <1>5
  <2> DEFINE u == p \o <<b>>
  <2> HIDE DEF u
  <2>2. u \in Seq(E) /\ Len(u) = Len(p) + 1 /\ u[Len(p) + 1] = b
    BY <2>1 DEF u
  <2>3. u \o r \in Seq(E) /\ Len(u \o r) >= Len(p) + 1 /\ (u \o r)[Len(p) + 1] = b
    BY <1>6, <2>1, <2>2
  <2> DEFINE v == u \o r
  <2> HIDE DEF v
  <2>4. v \in Seq(E) /\ Len(v) \in Nat /\ Len(v) >= Len(p) + 1 /\ v[Len(p) + 1] = b
    BY <2>3 DEF v
  <2>5. Len(v \o queue) >= Len(p) + 1 /\ (v \o queue)[Len(p) + 1] = b
    BY <1>4, <2>1, <2>4
  <2>6. received = v \o queue
    BY <1>7 DEF u, v
  <2>7. Len(received) \in Nat
    BY DEF LineInv, SourceInv
  <2> QED BY <2>1, <2>5, <2>6, <2>7
<1> QED BY <1>1, <1>8 DEF d, b

\* What is behind the end of a sequence that has grown.
LEMMA Grown ==
  ASSUME NEW s \in Seq(Nat), NEW g \in Seq(Nat)
  PROVE  SubSeq(s \o g, Len(s) + 1, Len(s \o g)) = g
<1> DEFINE t == s \o g
           u == SubSeq(t, Len(s) + 1, Len(t))
<1>1. /\ t \in Seq(Nat) /\ Len(t) = Len(s) + Len(g) /\ Len(s) \in Nat /\ Len(g) \in Nat
      /\ \A i \in 1..Len(g) : t[Len(s) + i] = g[i]
  BY ConcatProperties
<1> HIDE DEF t
<1>2. \A i \in (Len(s) + 1)..Len(t) : t[i] \in Nat
  BY SMTT(40), <1>1
<1>3. /\ u \in Seq(Nat)
      /\ Len(u) = (IF Len(s) + 1 <= Len(t) THEN Len(t) - (Len(s) + 1) + 1 ELSE 0)
      /\ \A i \in 1..(Len(t) - (Len(s) + 1) + 1) : u[i] = t[Len(s) + 1 + i - 1]
  <2> DEFINE i0 == Len(s) + 1
  <2>1. i0 \in Int /\ Len(t) \in Int /\ \A i \in i0..Len(t) : t[i] \in Nat
    BY <1>1, <1>2
  <2> HIDE DEF i0
  <2>2. /\ SubSeq(t, i0, Len(t)) \in Seq(Nat)
        /\ Len(SubSeq(t, i0, Len(t))) = (IF i0 <= Len(t) THEN Len(t) - i0 + 1 ELSE 0)
        /\ \A i \in 1..(Len(t) - i0 + 1) : SubSeq(t, i0, Len(t))[i] = t[i0 + i - 1]
    BY <2>1, SubSeqProperties
  <2> QED BY <2>2 DEF i0
<1> HIDE DEF u
<1>4. Len(u) = Len(g)
  BY <1>1, <1>3
<1>5. ASSUME NEW i \in 1..Len(u) PROVE u[i] = g[i]
  <2>1. i \in 1..(Len(t) - (Len(s) + 1) + 1) /\ Len(s) + 1 + i - 1 = Len(s) + i /\ i \in 1..Len(g)
    BY <1>1, <1>4
  <2> QED BY <1>1, <1>3, <2>1
<1>6. u = g
  BY <1>3, <1>4, <1>5, SeqEqual
<1> QED BY <1>6 DEF u, t

\* What the board gives micro-ROS is the next datagram, or its beginning.
LEMMA GivenStep ==
  ASSUME LineInv, Aligned, [LineNext]_lineVars, Len(stream') > Len(stream)
  PROVE  LET n == Len(Carried(delivered))
             given == SubSeq(stream', Len(stream) + 1, Len(stream'))
         IN  /\ n < Len(received) /\ IsPrefix(given, received[n + 1])
             /\ delivered' # delivered => given = received[n + 1]
<1> DEFINE n == Len(Carried(delivered))
           given == SubSeq(stream', Len(stream) + 1, Len(stream'))
<1>1. stream \in Seq(Nat) /\ Len(stream) \in Nat
  BY DEF LineInv, QueueInv
<1>2. AcceptXrce \/ RefuseXrce
  <2>1. stream' # stream
    BY <1>1
  <2>2. ~TransportRead
    <3> SUFFICES ASSUME TransportRead PROVE FALSE
      OBVIOUS
    <3>1. stream' = <<>>
      BY DEF TransportRead
    <3>2. Len(stream') = 0
      BY <3>1
    <3> QED BY <1>1, <3>2
  <2>3. CASE SendFromBoard \/ ReceiveFromAgent \/ TakeTransmit \/ LoseByte \/ Read
    BY <2>1, <2>3 DEF SendFromBoard, ReceiveFromAgent, TakeTransmit, LoseByte, Read, board
  <2>4. CASE FeedByte \/ Resync \/ Reject \/ NeedMore \/ HostHandles \/ BoardHandles
    BY <2>1, <2>4 DEF FeedByte, Resync, Reject, Discard, NeedMore, HostHandles, BoardHandles, board
  <2>5. CASE UNCHANGED lineVars
    BY <2>1, <2>5 DEF lineVars, board
  <2> QED BY <2>2, <2>3, <2>4, <2>5 DEF LineNext, Parse
<1>3. ~toHost /\ Complete /\ Current.mid = XRCE
  BY <1>2 DEF AcceptXrce, RefuseXrce
<1>4. /\ Len(delivered) < Len(sent) /\ Current = sent[Len(delivered) + 1]
      /\ Current \in Frames(toHost)
  BY <1>3, AlignedParser
<1> DEFINE b == Current.body
<1>5. b \in Seq(Nat) /\ Len(b) \in Nat
  BY <1>4 DEF Frames
<1>6. n < Len(received) /\ received[n + 1] = b
  BY <1>3, <1>4, NextDatagram
<1>7. CASE AcceptXrce
  <2>1. stream' = stream \o b
    BY <1>7 DEF AcceptXrce
  <2> HIDE DEF b
  <2>2. given = b
    BY <1>1, <1>5, <2>1, Grown
  <2>3. IsPrefix(b, b)
    BY <1>5 DEF IsPrefix
  <2> QED BY <1>6, <2>2, <2>3 DEF b
<1>8. CASE RefuseXrce
  <2> DEFINE g == SubSeq(b, 1, Room)
  <2>1. stream' = stream \o g /\ Len(b) > Room /\ delivered' = delivered
    BY <1>8 DEF RefuseXrce
  <2>2. Room \in Int
    BY <1>1, ProtocolAssumption DEF Room
  <2> HIDE DEF b
  <2>3. g \in Seq(Nat) /\ Len(g) = IF 1 <= Room THEN Room ELSE 0
    <3>1. \A i \in 1..Room : b[i] \in Nat
      BY <1>5, <2>1, <2>2
    <3>2. g \in Seq(Nat) /\ Len(g) = IF 1 <= Room THEN Room - 1 + 1 ELSE 0
      BY <2>2, <3>1, SubSeqProperties
    <3> QED BY <2>2, <3>2
  <2>4. given = g
    <3> HIDE DEF g
    <3> QED BY <1>1, <2>1, <2>3, Grown
  <2>5. IsPrefix(g, b)
    <3>1. Len(stream \o g) = Len(stream) + Len(g)
      BY <1>1, <2>3, ConcatProperties
    <3>2. 1 <= Room
      BY <1>1, <2>1, <2>2, <2>3, <3>1
    <3>3. Len(g) = Room /\ Len(g) <= Len(b)
      BY <1>5, <2>1, <2>2, <2>3, <3>2
    <3>4. SubSeq(g, 1, Len(g)) = g
      BY <2>3, SubSeqFull
    <3> QED BY <3>3, <3>4 DEF IsPrefix, g
  <2> QED BY <1>6, <2>1, <2>4, <2>5 DEF b
<1> QED BY <1>2, <1>7, <1>8

\* For all datagrams and any queue depth, whatever a step gives micro-ROS, while
\* no byte is lost or thrown away, is of the next datagram the queue took in:
\* all of it when its frame is handled with the step, and a beginning of it when
\* the board refuses it.
THEOREM LineDatagramsArriveInOrder == LineSpec => DatagramsArriveInOrder
<1>1. LineInv /\ [LineNext]_lineVars =>
        [Aligned /\ Len(stream') > Len(stream) =>
           LET n == Len(Carried(delivered))
               given == SubSeq(stream', Len(stream) + 1, Len(stream'))
           IN  /\ n < Len(received) /\ IsPrefix(given, received[n + 1])
               /\ delivered' # delivered => given = received[n + 1]]_lineVars
  BY GivenStep
<1> QED BY <1>1, LineInvariant, PTL DEF LineSpec, DatagramsArriveInOrder

-----------------------------------------------------------------------------
(* Sequence numbers.                                                         *)

\* The number of the DATA frame after n others, and whether a frame has the
\* number of one that a behaviour can send.
Number(n) == (FirstSequence + n) % Width
Numbered(f) == f.mid = DATA => \E n \in 0..(MaxFrames - 1) : ReadLe16(f.body) = Number(n)

\* Bytes and frames keep their types, damaged or not.
BytesInv ==
    /\ wire \in Seq(Nat) /\ chunk \in Seq(Nat) /\ buf \in Seq(Nat)
    /\ delivered \in Seq([mid : Nat, body : Seq(Nat)])
    /\ Len(sent) <= MaxFrames

\* The frames the board has sent are numbered one after the other, some numbers
\* left out.
NumbersInv ==
    /\ sequence \in 0..(Width - 1)
    /\ toHost => \A k \in 1..Len(sent) : Numbered(sent[k])

\* The tracker has counted what lies between the first and the last number
\* taken, which are those of frames h and i.
Counted ==
    /\ tracker \in [initialized : BOOLEAN, last : Nat, missing : Int]
    /\ accepted \in Seq(Nat)
    /\ tracker.initialized = (accepted # <<>>)
    /\ accepted = <<>> => tracker.missing = 0
    /\ accepted # <<>> =>
          \E h, i \in 0..(MaxFrames - 1) :
             /\ h <= i /\ accepted[1] = Number(h) /\ accepted[Len(accepted)] = Number(i)
             /\ tracker.last = Number(i)
             /\ tracker.missing + Len(accepted) = i - h + 1

GapInv ==
    /\ BytesInv /\ NumbersInv
    /\ toHost /\ (\A k \in 1..Len(delivered) : Numbered(delivered[k])) => Counted

\* A remainder is known by its range.
LEMMA Remainder ==
  ASSUME NEW w \in Nat, NEW r \in 0..(w - 1), NEW q \in Int, NEW a \in Int, a = r + w * q
  PROVE  a % w = r
<1>1. w > 0 /\ r \in Int
  OBVIOUS
<1>2. a % w \in Int /\ 0 <= a % w /\ a % w < w /\ a \div w \in Int
  BY <1>1
<1>3. (a % w) + w * (a \div w) = a
  BY <1>1
<1> DEFINE d == q - (a \div w)
<1>4. d \in Int /\ w * d = w * q - w * (a \div w)
  BY <1>2
<1>5. w * d = (a % w) - r
  BY <1>1, <1>2, <1>3, <1>4
<1> HIDE DEF d
<1>6. d >= 1 => w * d >= w
  BY <1>1, <1>4
<1>7. d <= -1 => w * d <= -w
  BY <1>1, <1>4
<1>8. d = 0
  BY <1>1, <1>2, <1>4, <1>5, <1>6, <1>7
<1> QED BY <1>1, <1>2, <1>5, <1>8

\* Remainders of numbers less than one period away.
LEMMA NearRemainders ==
  ASSUME NEW w \in Nat, NEW r \in 0..(w - 1)
  PROVE  r % w = r /\ (r + w) % w = r /\ (r - w) % w = r
<1>1. r = r + w * 0 /\ r + w = r + w * 1 /\ r - w = r + w * (-1) /\ w \in Int /\ r \in Int
  OBVIOUS
<1>2. r % w = r
  BY <1>1, Remainder
<1>3. (r + w) % w = r
  BY <1>1, Remainder
<1>4. (r - w) % w = r
  BY <1>1, Remainder
<1> QED BY <1>2, <1>3, <1>4

\* The range of sequence numbers.
LEMMA Range16 ==
  /\ Width \in Nat /\ Width > 3 /\ FirstSequence \in Nat /\ FirstSequence < Width
  /\ Width \div 2 \in Nat /\ 2 * (Width \div 2) <= Width /\ Width \div 2 > 1
  /\ MaxFrames \in Nat
<1>1. Base \in Nat /\ Base > 4
  BY ProtocolAssumption
<1>2. Base * Base \in Nat /\ Base * Base >= 4 * Base
  BY <1>1
<1>3. Width \in Nat /\ Width > 3
  BY <1>1, <1>2 DEF Width
<1> QED BY <1>3, LineAssumption

\* The numbers of two frames of a behaviour are as far apart as the frames.
LEMMA NumberDistance ==
  ASSUME MaxFrames <= Width \div 2,
         NEW i \in 0..(MaxFrames - 1), NEW j \in 0..(MaxFrames - 1)
  PROVE  /\ Number(i) \in Nat /\ Number(j) \in Nat
         /\ Distance(Number(j), Number(i)) = IF j >= i THEN j - i ELSE Width + j - i
<1>1. /\ Width \in Nat /\ FirstSequence \in Nat /\ FirstSequence < Width
      /\ Width \div 2 \in Nat /\ 2 * (Width \div 2) <= Width /\ MaxFrames \in Nat
  BY Range16
<1>2. ASSUME NEW n \in 0..(MaxFrames - 1)
      PROVE  Number(n) = IF FirstSequence + n < Width THEN FirstSequence + n
                         ELSE FirstSequence + n - Width
  <2>1. CASE FirstSequence + n < Width
    <3>1. FirstSequence + n \in 0..(Width - 1)
      BY <1>1, <2>1
    <3>2. (FirstSequence + n) % Width = FirstSequence + n
      BY <1>1, <3>1, NearRemainders
    <3> QED BY <2>1, <3>2 DEF Number
  <2>2. CASE FirstSequence + n >= Width
    <3> DEFINE r == FirstSequence + n - Width
    <3>1. r \in 0..(Width - 1) /\ FirstSequence + n = r + Width
      BY <1>1, <2>2
    <3> HIDE DEF r
    <3>2. (r + Width) % Width = r
      BY <1>1, <3>1, NearRemainders
    <3>3. Number(n) = r
      BY <3>1, <3>2 DEF Number
    <3>4. ~(FirstSequence + n < Width)
      BY <1>1, <2>2
    <3> QED BY <3>3, <3>4 DEF r
  <2> QED BY <1>1, <2>1, <2>2
<1>3. Number(i) \in Nat /\ Number(j) \in Nat
  BY <1>1, <1>2
<1> DEFINE d == IF j >= i THEN j - i ELSE Width + j - i
           a == Number(j) - Number(i)
<1>4. d \in 0..(Width - 1)
  BY <1>1
<1>5. a = d \/ a = d + Width \/ a = d - Width
  <2>1. a = j - i \/ a = j - i - Width \/ a = j - i + Width
    BY <1>1, <1>2
  <2>2. a \in Int /\ a < Width /\ a > -Width
    BY <1>1, <1>2
  <2> QED BY <1>1, <2>1, <2>2
<1> HIDE DEF d, a
<1>6. a % Width = d
  BY <1>1, <1>4, <1>5, NearRemainders
<1> QED BY <1>3, <1>6 DEF Distance, a, d

\* The length a parser computes is a number.
LEMMA SizeIsNumber ==
  ASSUME buf \in Seq(Nat)
  PROVE  Size \in Nat
<1>1. DataSize \in Nat /\ Base \in Nat
  BY ProtocolAssumption
<1>2. Len(buf) \in Nat /\ \A i \in 1..Len(buf) : buf[i] \in Nat
  OBVIOUS
<1> DEFINE r == ReadLe16(SubSeq(buf, 4, 5))
<1>3. Len(buf) >= 5 => r \in Nat
  <2> SUFFICES ASSUME Len(buf) >= 5 PROVE r \in Nat
    OBVIOUS
  <2>1. \A i \in 4..5 : buf[i] \in Nat
    BY <1>2
  <2>2. \A i \in 1..(5 - 4 + 1) : SubSeq(buf, 4, 5)[i] = buf[4 + i - 1]
    BY <2>1, SubSeqProperties
  <2>3. SubSeq(buf, 4, 5)[1] = buf[4] /\ SubSeq(buf, 4, 5)[2] = buf[5]
    BY <2>2
  <2>4. buf[4] \in Nat /\ buf[5] \in Nat
    BY <1>2
  <2>5. Base * buf[5] \in Nat
    BY <1>1, <2>4
  <2> QED BY SMTT(40), <1>1, <2>3, <2>4, <2>5 DEF ReadLe16
<1> HIDE DEF r
<1>4. \/ FrameSize(buf, toHost) \in {0, 1, 4, 5}
      \/ FrameSize(buf, toHost) = 5 + DataSize
      \/ Len(buf) >= 5 /\ FrameSize(buf, toHost) = 5 + r
  <2> DEFINE m == buf[3]
  <2>1. CASE Len(buf) < 3 \/ (m = XRCE /\ Len(buf) < 5)
    BY <2>1 DEF FrameSize
  <2>2. CASE ~(Len(buf) < 3 \/ (m = XRCE /\ Len(buf) < 5))
    <3>1. CASE m = CONFIG
      BY <2>2, <3>1 DEF FrameSize, CONFIG, DATA, READ_ACK, XRCE
    <3>2. CASE m = DATA
      BY <2>2, <3>2 DEF FrameSize, CONFIG, DATA, READ_ACK, XRCE
    <3>3. CASE m = READ_ACK
      BY <2>2, <3>3 DEF FrameSize, CONFIG, DATA, READ_ACK, XRCE
    <3>4. CASE m = XRCE /\ (toHost \/ r <= Mtu)
      BY <1>2, <2>2, <3>4 DEF FrameSize, r, CONFIG, DATA, READ_ACK, XRCE
    <3>5. CASE ~(m = CONFIG) /\ ~(m = DATA) /\ ~(m = READ_ACK) /\ ~(m = XRCE /\ (toHost \/ r <= Mtu))
      BY <2>2, <3>5 DEF FrameSize, r, CONFIG, DATA, READ_ACK, XRCE
    <3> QED BY <3>1, <3>2, <3>3, <3>4, <3>5
  <2> QED BY <2>1, <2>2
<1> QED BY <1>1, <1>3, <1>4 DEF Size

\* A frame handled has the shape of one, whatever the bytes are.
LEMMA HandledShape ==
  ASSUME buf \in Seq(Nat), Complete
  PROVE  Current \in [mid : Nat, body : Seq(Nat)]
<1>1. Size \in Nat /\ Len(buf) \in Nat /\ Len(buf) >= 3 /\ Len(buf) >= Size
  BY SizeIsNumber DEF Complete, Synced
<1> DEFINE h == IF buf[3] = XRCE THEN 6 ELSE 4
<1>2. h \in Nat /\ h >= 1
  OBVIOUS
<1>3. Current = [mid |-> buf[3], body |-> SubSeq(buf, h, Size)]
  BY DEF Current, Decode
<1> HIDE DEF h
<1>4. \A i \in h..Size : buf[i] \in Nat
  BY <1>1, <1>2
<1>5. SubSeq(buf, h, Size) \in Seq(Nat)
  BY <1>1, <1>2, <1>4, SubSeqProperties
<1>6. buf[3] \in Nat
  BY <1>1
<1> QED BY <1>3, <1>5, <1>6

\* What is cut off the front of a sequence of bytes leaves one.
LEMMA CutFront ==
  ASSUME NEW s \in Seq(Nat), NEW n \in Nat
  PROVE  SubSeq(s, n + 1, Len(s)) \in Seq(Nat)
<1>1. Len(s) \in Nat /\ n + 1 \in Nat
  OBVIOUS
<1>2. \A i \in (n + 1)..Len(s) : s[i] \in Nat
  BY <1>1
<1> QED BY <1>1, <1>2, SubSeqProperties

\* The board puts one frame on the line or leaves it alone, and the host puts one.
LEMMA SendersPut ==
  ASSUME LineInv
  PROVE  /\ SendFromBoard => \/ \E f \in Frames(toHost) : Put(f)
                             \/ UNCHANGED <<toHost, parser, sent, delivered>>
         /\ TakeTransmit => \E f \in Frames(toHost) : Put(f)
<1>0. toHost \in BOOLEAN /\ sequence \in Nat /\ FirstSequence \in Nat
  BY Numbers DEF LineInv, SourceInv
<1>1. ASSUME SendFromBoard, ~UNCHANGED <<toHost, parser, sent, delivered>>
      PROVE  \E f \in Frames(toHost) : Put(f)
  <2>1. toHost
    BY <1>1 DEF SendFromBoard
  <2>2. \/ \E f \in HostFrames : Put(f)
        \/ \E p \in DataPayloads : Put(Frame(DATA, WriteLe16(sequence) \o p))
    BY <1>1 DEF SendFromBoard
  <2>3. CASE \E f \in HostFrames : Put(f)
    BY <1>0, <2>1, <2>3, SendersConform
  <2>4. CASE \E p \in DataPayloads : Put(Frame(DATA, WriteLe16(sequence) \o p))
    BY <1>0, <2>4, SendersConform
  <2> QED BY <2>2, <2>3, <2>4
<1>2. ASSUME TakeTransmit
      PROVE  \E f \in Frames(toHost) : Put(f)
  <2>1. ~toHost
    BY <1>2 DEF TakeTransmit
  <2>2. ASSUME queue # <<>> PROVE Frame(XRCE, Head(queue)) \in Frames(toHost)
    <3> DEFINE S == {d \in Seq(Nat) : Len(d) <= Mtu}
    <3>1. queue \in Seq(S)
      BY DEF LineInv, SourceInv
    <3>2. Head(queue) \in S
      <4> HIDE DEF S
      <4> QED BY <2>2, <3>1, HeadTailProperties
    <3> QED BY <1>0, <3>2, SendersConform
  <2>3. CASE Urgent
    <3>1. CASE Put(Frame(CONFIG, <<1>>))
      BY <1>0, <2>1, <3>1, SendersConform
    <3>2. CASE Put(Frame(READ_ACK, WriteLe16(FirstSequence)))
      BY <1>0, <3>2, SendersConform
    <3>3. CASE \E p \in DataPayloads : Put(Frame(DATA, WriteLe16(FirstSequence) \o p))
      BY <1>0, <3>3, SendersConform
    <3> QED BY <2>3, <3>1, <3>2, <3>3 DEF Urgent
  <2>4. CASE queue # <<>> /\ Put(Frame(XRCE, Head(queue)))
    BY <2>2, <2>4
  <2> QED BY <1>2, <2>3, <2>4 DEF TakeTransmit
<1> QED BY <1>1, <1>2

\* Bytes stay bytes.
LEMMA BytesStep ==
  ASSUME LineInv, BytesInv, [LineNext]_lineVars
  PROVE  BytesInv'
<1> DEFINE R == [mid : Nat, body : Seq(Nat)]
<1>0. /\ wire \in Seq(Nat) /\ chunk \in Seq(Nat) /\ buf \in Seq(Nat)
      /\ delivered \in Seq(R) /\ Len(sent) <= MaxFrames
      /\ sent \in Seq(Frames(toHost)) /\ toHost \in BOOLEAN /\ sequence \in Nat
      /\ FirstSequence \in Nat /\ MaxFrames \in Nat
  BY Numbers, LineAssumption DEF BytesInv, LineInv, SourceInv
<1>1. ASSUME NEW f \in Frames(toHost), Put(f)
      PROVE  BytesInv'
  <2>1. /\ sent' = Append(sent, f) /\ wire' = wire \o Encode(f) /\ chunk' = chunk
        /\ buf' = buf /\ delivered' = delivered /\ Len(sent) < MaxFrames
    BY <1>1 DEF Put
  <2>2. Encode(f) \in Seq(Nat)
    BY EncodeShape
  <2>3. wire' \in Seq(Nat)
    BY <1>0, <2>1, <2>2, ConcatProperties
  <2>4. Len(sent') = Len(sent) + 1 /\ Len(sent) \in Nat
    BY <1>0, <2>1, AppendProperties
  <2>5. Len(sent') <= MaxFrames
    BY <1>0, <2>1, <2>4
  <2> QED BY <1>0, <2>1, <2>3, <2>5 DEF BytesInv
<1>2. CASE SendFromBoard
  <2>1. CASE UNCHANGED <<toHost, parser, sent, delivered>>
    BY <1>0, <2>1 DEF BytesInv, parser
  <2> QED BY <1>1, <1>2, <2>1, SendersPut
<1>3. CASE TakeTransmit
  BY <1>1, <1>3, SendersPut
<1>4. CASE ReceiveFromAgent \/ TransportRead \/ NeedMore \/ UNCHANGED lineVars
  BY <1>0, <1>4 DEF ReceiveFromAgent, TransportRead, NeedMore, BytesInv, parser, lineVars
<1>5. CASE LoseByte
  <2>1. wire' \in Seq(Nat)
    BY <1>0, <1>5, HeadTailProperties DEF LoseByte
  <2> QED BY <1>0, <1>5, <2>1 DEF LoseByte, BytesInv
<1>6. CASE Read
  <2>1. PICK n \in IF toHost THEN {1} ELSE 1..Len(wire) :
           chunk' = SubSeq(wire, 1, n) /\ wire' = SubSeq(wire, n + 1, Len(wire))
    BY <1>6 DEF Read
  <2>2. n \in 1..Len(wire)
    <3>1. Len(wire) \in Nat /\ Len(wire) # 0
      BY <1>0, <1>6, EmptySeq DEF Read
    <3> QED BY <2>1, <3>1
  <2>3. wire' \in Seq(Nat) /\ chunk' \in Seq(Nat)
    BY <1>0, <2>1, <2>2, DivideLine
  <2> QED BY <1>0, <1>6, <2>3 DEF Read, BytesInv
<1>7. CASE FeedByte
  <2> DEFINE b == IF Len(buf) = Capacity THEN Tail(buf) ELSE buf
  <2>1. chunk # <<>> /\ buf' = Append(b, Head(chunk)) /\ chunk' = Tail(chunk)
    BY <1>7 DEF FeedByte
  <2>2. Head(chunk) \in Nat /\ chunk' \in Seq(Nat)
    BY <1>0, <2>1, HeadTailProperties
  <2>3. b \in Seq(Nat)
    <3>1. CASE Len(buf) = Capacity
      <4>1. Capacity # 0
        BY ProtocolAssumption, LineAssumption DEF Capacity, HostCapacity, LargestFrame
      <4>2. buf # <<>>
        BY <3>1, <4>1
      <4> QED BY <1>0, <3>1, <4>2, HeadTailProperties
    <3> QED BY <1>0, <3>1
  <2> HIDE DEF b
  <2>4. buf' \in Seq(Nat)
    BY <2>1, <2>2, <2>3, AppendProperties
  <2> QED BY <1>0, <1>7, <2>2, <2>4 DEF FeedByte, BytesInv
<1>8. CASE Resync \/ Reject
  <2>1. PICK n \in {Misplaced, 1} : Discard(n)
    BY <1>8 DEF Resync, Reject
  <2>2. n \in Nat
    <3>1. FindSync(buf) \in Nat
      <4> DEFINE pairs == {i \in 1..(Len(buf) - 1) : SyncAt(buf, i)}
                 c == CHOOSE i \in pairs : \A j \in pairs : i <= j
      <4>1. Len(buf) \in Nat
        BY <1>0
      <4>2. FindSync(buf) = IF Len(buf) < 2 THEN 0 ELSE IF pairs = {} THEN Len(buf) - 1 ELSE c - 1
        BY DEF FindSync
      <4>3. pairs # {} => c - 1 \in Nat
        <5> SUFFICES ASSUME pairs # {} PROVE c - 1 \in Nat
          OBVIOUS
        <5>1. pairs \subseteq Nat /\ \A i \in pairs : i >= 1
          BY <4>1
        <5> HIDE DEF pairs
        <5>2. \E i \in pairs : \A j \in pairs : i <= j
          BY <5>1, LeastNatural
        <5>3. c \in pairs
          BY <5>2, Zenon
        <5> HIDE DEF c
        <5> QED BY <5>1, <5>3
      <4> HIDE DEF pairs, c
      <4> QED BY <4>1, <4>2, <4>3
    <3> QED BY <2>1, <3>1 DEF Misplaced
  <2>3. buf' \in Seq(Nat)
    BY <1>0, <2>1, <2>2, CutFront DEF Discard
  <2> QED BY <1>0, <2>1, <2>3 DEF Discard, BytesInv
<1>9. CASE HostHandles \/ BoardHandles \/ AcceptXrce
  <2>1. /\ Complete /\ buf' = SubSeq(buf, Size + 1, Len(buf)) /\ wire' = wire /\ chunk' = chunk
        /\ delivered' = Append(delivered, Current) /\ sent' = sent
    BY <1>9 DEF HostHandles, BoardHandles, AcceptXrce, Consume
  <2>2. buf' \in Seq(Nat)
    BY <1>0, <2>1, SizeIsNumber, CutFront
  <2>3. Current \in R
    BY <1>0, <2>1, HandledShape
  <2>4. delivered' \in Seq(R)
    <3> HIDE DEF R
    <3> QED BY <1>0, <2>1, <2>3, AppendProperties
  <2> QED BY <1>0, <2>1, <2>2, <2>4 DEF BytesInv
<1>10. CASE RefuseXrce
  <2>1. chunk' \in Seq(Nat) /\ wire' = wire /\ buf' = buf /\ sent' = sent /\ delivered' = delivered
    BY <1>10 DEF RefuseXrce
  <2> QED BY <1>0, <2>1 DEF BytesInv
<1> QED BY <1>2, <1>3, <1>4, <1>5, <1>6, <1>7, <1>8, <1>9, <1>10 DEF LineNext, Parse

\* A number is that of the frame as far from the first as it is itself.
LEMMA NumberBack ==
  ASSUME NEW s \in 0..(Width - 1)
  PROVE  Distance(s, FirstSequence) \in Nat /\ Number(Distance(s, FirstSequence)) = s
<1>1. Width \in Nat /\ FirstSequence \in Nat /\ FirstSequence < Width
  BY Range16
<1>2. CASE s >= FirstSequence
  <2> DEFINE d == s - FirstSequence
  <2>1. d \in 0..(Width - 1) /\ FirstSequence + d = s
    BY <1>1, <1>2
  <2> HIDE DEF d
  <2>2. d % Width = d /\ s % Width = s
    BY <1>1, <2>1, NearRemainders
  <2>3. Distance(s, FirstSequence) = d
    BY <2>2 DEF Distance, d
  <2> QED BY <2>1, <2>2, <2>3 DEF Number
<1>3. CASE s < FirstSequence
  <2> DEFINE d == s - FirstSequence + Width
  <2>1. d \in 0..(Width - 1) /\ FirstSequence + d = s + Width /\ s - FirstSequence = d - Width
    BY <1>1, <1>3
  <2> HIDE DEF d
  <2>2. (d - Width) % Width = d /\ (s + Width) % Width = s
    BY <1>1, <2>1, NearRemainders
  <2>3. Distance(s, FirstSequence) = d
    BY <2>1, <2>2 DEF Distance
  <2> QED BY <2>1, <2>2, <2>3 DEF Number
<1> QED BY <1>1, <1>2, <1>3

\* The frames the board sends carry the next number, or none.
LEMMA NumbersStep ==
  ASSUME LineInv, BytesInv, NumbersInv, [LineNext]_lineVars
  PROVE  NumbersInv'
<1>0. /\ sent \in Seq(Frames(toHost)) /\ toHost \in BOOLEAN /\ sequence \in Nat
      /\ Len(sent) \in Nat /\ Len(sent) <= MaxFrames /\ MaxFrames \in Nat
  BY LineAssumption DEF BytesInv, LineInv, SourceInv
<1>1. sequence \in 0..(Width - 1) /\ Width \in Nat /\ Width > 3
  BY Range16 DEF NumbersInv
<1>2. ASSUME NEW f \in Frames(toHost), Put(f), toHost => Numbered(f),
             sequence' \in 0..(Width - 1)
      PROVE  NumbersInv'
  <2>1. sent' = Append(sent, f) /\ toHost' = toHost
    BY <1>2 DEF Put
  <2>2. Len(sent') = Len(sent) + 1 /\ sent'[Len(sent) + 1] = f
        /\ \A k \in 1..Len(sent) : sent'[k] = sent[k]
    BY <1>0, <2>1, AppendProperties
  <2>3. ASSUME toHost', NEW k \in 1..Len(sent')
        PROVE  Numbered(sent'[k])
    <3>1. CASE k = Len(sent) + 1
      BY <1>2, <2>1, <2>2, <2>3, <3>1
    <3>2. CASE k \in 1..Len(sent)
      <4>1. sent'[k] = sent[k] /\ Numbered(sent[k])
        BY <2>1, <2>2, <2>3, <3>2 DEF NumbersInv
      <4> QED BY <4>1
    <3> QED BY <1>0, <2>2, <3>1, <3>2
  <2> QED BY <1>2, <2>2, <2>3 DEF NumbersInv
<1>3. (sequence + 1) % Width \in 0..(Width - 1)
  BY <1>1
<1>4. CASE SendFromBoard
  <2>1. toHost
    BY <1>4 DEF SendFromBoard
  <2>2. CASE \E f \in HostFrames : Put(f) /\ UNCHANGED sequence
    <3>1. PICK f \in HostFrames : Put(f) /\ UNCHANGED sequence
      BY <2>2
    <3>2. f \in Frames(toHost)
      BY <1>0, <2>1, SendersConform
    <3>3. f.mid # DATA
      BY FramesAssumption DEF CONFIG, DATA, XRCE
    <3>4. Numbered(f)
      BY <3>3 DEF Numbered
    <3> QED BY <1>1, <1>2, <3>1, <3>2, <3>4
  <2>3. CASE /\ Distance(sequence, FirstSequence) < MaxFrames
             /\ \E p \in DataPayloads : /\ Put(Frame(DATA, WriteLe16(sequence) \o p))
                                        /\ sequence' = (sequence + 1) % Width
    <3>1. PICK p \in DataPayloads : /\ Put(Frame(DATA, WriteLe16(sequence) \o p))
                                    /\ sequence' = (sequence + 1) % Width
      BY <2>3
    <3> DEFINE f == Frame(DATA, WriteLe16(sequence) \o p)
    <3>2. f \in Frames(toHost)
      BY <1>0, SendersConform
    <3>3. ReadLe16(f.body) = sequence
      <4> DEFINE l == WriteLe16(sequence)
      <4>1. l \in Seq(Nat) /\ Len(l) = 2 /\ l[1] + Base * l[2] = sequence
        BY <1>0, Le16RoundTrip
      <4>2. p \in Seq(Nat)
        <5>1. p \in Seq(Byte) /\ Byte \subseteq Nat
          BY FramesAssumption, Numbers
        <5> QED BY <5>1, SeqMonotonic
      <4>3. f.body = l \o p
        BY DEF Frame
      <4> HIDE DEF l, f
      <4>4. \A i \in 1..(Len(l) + Len(p)) : (l \o p)[i] = IF i <= Len(l) THEN l[i] ELSE p[i - Len(l)]
        BY <4>1, <4>2, ConcatProperties
      <4>5. Len(p) \in Nat
        BY <4>2
      <4>6. 1 \in 1..(Len(l) + Len(p)) /\ 2 \in 1..(Len(l) + Len(p)) /\ 1 <= Len(l) /\ 2 <= Len(l)
        BY <4>1, <4>5
      <4>7. (l \o p)[1] = l[1]
        BY <4>4, <4>6
      <4>8. (l \o p)[2] = l[2]
        BY <4>4, <4>6
      <4> QED BY <4>1, <4>3, <4>7, <4>8 DEF ReadLe16
    <3>5. Numbered(f)
      <4> DEFINE d == Distance(sequence, FirstSequence)
      <4>1. d \in Nat /\ Number(d) = sequence
        BY <1>1, NumberBack
      <4>2. d \in 0..(MaxFrames - 1)
        BY <1>0, <2>3, <4>1
      <4> HIDE DEF f, d
      <4> QED BY <3>3, <4>1, <4>2 DEF Numbered
    <3> HIDE DEF f
    <3> QED BY <1>2, <1>3, <3>1, <3>2, <3>5 DEF f
  <2>4. CASE UNCHANGED <<toHost, parser, sent, delivered>> /\ sequence' = (sequence + 1) % Width
    BY <1>3, <2>4 DEF NumbersInv
  <2> QED BY <1>4, <2>2, <2>3, <2>4 DEF SendFromBoard
<1>5. CASE TakeTransmit
  <2>1. ~toHost /\ sequence' = sequence
    BY <1>5 DEF TakeTransmit, board
  <2>2. PICK f \in Frames(toHost) : Put(f)
    BY <1>5, SendersPut
  <2> QED BY <1>1, <1>2, <2>1, <2>2
<1>6. CASE UNCHANGED <<toHost, sent, sequence>>
  BY <1>6 DEF NumbersInv
<1>7. CASE ReceiveFromAgent \/ LoseByte \/ Read \/ Parse \/ TransportRead
  <2>1. UNCHANGED <<toHost, sent, sequence>>
    BY <1>7 DEF ReceiveFromAgent, LoseByte, Read, Parse, TransportRead, FeedByte, Resync,
       Reject, Discard, NeedMore, HostHandles, BoardHandles, AcceptXrce, RefuseXrce,
       Consume, board
  <2> QED BY <1>6, <2>1
<1>8. CASE UNCHANGED lineVars
  <2>1. UNCHANGED <<toHost, sent, sequence>>
    BY <1>8 DEF lineVars, board
  <2> QED BY <1>6, <2>1
<1> QED BY <1>4, <1>5, <1>7, <1>8 DEF LineNext

\* A tracker and the numbers it has taken, before it has counted anything.
Fresh(t, a) ==
    /\ t \in [initialized : BOOLEAN, last : Nat, missing : Int] /\ a \in Seq(Nat)
    /\ t.initialized = (a # <<>>) /\ t.missing = 0

\* A link that has just been confirmed has counted nothing.
LEMMA FreshTracker == Fresh(NewTracker, <<>>)
<1>1. NewTracker.initialized = FALSE /\ NewTracker.missing = 0
  BY DEF NewTracker
<1>2. NewTracker \in [initialized : BOOLEAN, last : Nat, missing : Int]
  BY DEF NewTracker
<1>3. <<>> \in Seq(Nat)
  OBVIOUS
<1> QED BY <1>1, <1>2, <1>3 DEF Fresh

\* A number taken after one of frame i is that of a later frame; one that is
\* not taken leaves the tracker alone.
LEMMA TrackStep ==
  ASSUME MaxFrames <= Width \div 2, Counted, NEW j \in 0..(MaxFrames - 1), NEW s, s = Number(j),
         tracker' = Track(tracker, s),
         accepted' = IF Accepted(tracker, s) THEN Append(accepted, s) ELSE accepted
  PROVE  Counted'
<1>0. /\ Width \in Nat /\ Width \div 2 \in Nat /\ 2 * (Width \div 2) <= Width /\ Width \div 2 > 1
      /\ MaxFrames \in Nat
  BY Range16
<1>1. /\ tracker \in [initialized : BOOLEAN, last : Nat, missing : Int] /\ accepted \in Seq(Nat)
      /\ Len(accepted) \in Nat
  BY DEF Counted
<1>2. s \in Nat
  BY NumberDistance
<1>3. /\ Append(accepted, s) \in Seq(Nat) /\ Len(Append(accepted, s)) = Len(accepted) + 1
      /\ Append(accepted, s)[Len(accepted) + 1] = s
      /\ \A k \in 1..Len(accepted) : Append(accepted, s)[k] = accepted[k]
      /\ Append(accepted, s) # <<>>
  <2>1. Append(accepted, s) \in Seq(Nat) /\ Len(Append(accepted, s)) = Len(accepted) + 1
    BY <1>1, <1>2, AppendProperties
  <2>2. /\ Append(accepted, s)[Len(accepted) + 1] = s
        /\ \A k \in 1..Len(accepted) : Append(accepted, s)[k] = accepted[k]
    BY <1>1, <1>2, AppendProperties
  <2>3. Append(accepted, s) # <<>>
    BY <1>1, <2>1
  <2> QED BY <2>1, <2>2, <2>3
<1>4. CASE accepted = <<>>
  <2>1. Relation(tracker, s) = "FIRST"
    BY <1>4 DEF Counted, Relation
  <2>2. tracker' = [tracker EXCEPT !.initialized = TRUE, !.last = s]
    BY <2>1 DEF Track
  <2>3. accepted' = Append(accepted, s)
    BY <2>1 DEF Accepted
  <2>4. tracker'.initialized = TRUE /\ tracker'.last = s /\ tracker'.missing = 0
        /\ tracker' \in [initialized : BOOLEAN, last : Nat, missing : Int]
    BY <1>1, <1>2, <1>4, <2>2 DEF Counted
  <2>5. Len(accepted) = 0
    BY <1>4
  <2>6. Len(accepted') = 1 /\ accepted'[1] = s /\ accepted' \in Seq(Nat) /\ accepted' # <<>>
    BY <1>3, <2>3, <2>5
  <2>7. /\ j <= j /\ accepted'[1] = Number(j) /\ accepted'[Len(accepted')] = Number(j)
        /\ tracker'.last = Number(j) /\ tracker'.missing + Len(accepted') = j - j + 1
    BY <2>4, <2>6
  <2> QED BY SMTT(40), <2>4, <2>6, <2>7 DEF Counted
<1>5. CASE accepted # <<>>
  <2>1. PICK h, i \in 0..(MaxFrames - 1) :
           /\ h <= i /\ accepted[1] = Number(h) /\ accepted[Len(accepted)] = Number(i)
           /\ tracker.last = Number(i) /\ tracker.missing + Len(accepted) = i - h + 1
    BY <1>5 DEF Counted
  <2>2. tracker.initialized
    BY <1>5 DEF Counted
  <2>3. Distance(s, tracker.last) = IF j >= i THEN j - i ELSE Width + j - i
    BY <2>1, NumberDistance
  <2> DEFINE d == Distance(s, tracker.last)
  <2>4. CASE j <= i
    <3>1. d = 0 \/ (d # 0 /\ d # 1 /\ d >= Width \div 2)
      BY <1>0, <2>1, <2>3, <2>4
    <3>2. Relation(tracker, s) = "DUPLICATE" \/ Relation(tracker, s) = "OLD"
      <4>1. d = 0 => ~(d >= Width \div 2) /\ d # 1
        BY <1>0
      <4> QED BY <2>2, <3>1, <4>1 DEF Relation
    <3>3. tracker' = tracker
      BY <3>2 DEF Track
    <3>4. accepted' = accepted
      BY <3>2 DEF Accepted
    <3> QED BY <3>3, <3>4 DEF Counted
  <2>5. CASE j > i
    <3>1. d = j - i /\ d # 0 /\ ~(d >= Width \div 2)
      BY <1>0, <2>1, <2>3, <2>5
    <3>2. Relation(tracker, s) = "EXPECTED" \/ Relation(tracker, s) = "GAP"
      BY <2>2, <3>1 DEF Relation
    <3>3. tracker' = [tracker EXCEPT !.last = s, !.missing = @ + d - 1]
      BY <3>2 DEF Track
    <3>4. accepted' = Append(accepted, s)
      BY <3>2 DEF Accepted
    <3> HIDE DEF d
    <3>5. tracker'.initialized = TRUE /\ tracker'.last = s /\ tracker'.missing = tracker.missing + d - 1
          /\ tracker' \in [initialized : BOOLEAN, last : Nat, missing : Int]
      <4>1. d \in Int
        BY <3>1
      <4>2. tracker.missing + d - 1 \in Int
        BY <1>1, <4>1
      <4>3. tracker'.initialized = tracker.initialized /\ tracker'.last = s
        BY <1>1, <3>3
      <4>4. tracker'.missing = tracker.missing + d - 1
        BY <1>1, <3>3
      <4>5. tracker' \in [initialized : BOOLEAN, last : Nat, missing : Int]
        BY <1>1, <1>2, <3>3, <4>2
      <4> QED BY <1>1, <2>2, <4>3, <4>4, <4>5
    <3>6. Len(accepted) # 0
      BY <1>1, <1>5, EmptySeq
    <3>7. Len(accepted') = Len(accepted) + 1 /\ accepted'[1] = accepted[1]
          /\ accepted'[Len(accepted')] = s /\ accepted' \in Seq(Nat) /\ accepted' # <<>>
      BY SMTT(40), <1>1, <1>3, <3>4, <3>6
    <3>8. h <= j /\ tracker'.missing + Len(accepted') = j - h + 1
      <4> DEFINE m == tracker.missing
                 l == Len(accepted)
      <4>1. m \in Int /\ l \in Nat /\ m + l = i - h + 1
        BY <1>1, <2>1
      <4>2. tracker'.missing = m + d - 1 /\ Len(accepted') = l + 1
        BY <3>5, <3>7
      <4> HIDE DEF m, l
      <4>3. (m + d - 1) + (l + 1) = j - h + 1
        BY <1>0, <3>1, <4>1
      <4> QED BY <1>0, <2>1, <2>5, <4>2, <4>3
    <3>9. /\ h <= j /\ accepted'[1] = Number(h) /\ accepted'[Len(accepted')] = Number(j)
          /\ tracker'.last = Number(j) /\ tracker'.missing + Len(accepted') = j - h + 1
      BY <2>1, <3>5, <3>7, <3>8
    <3> QED BY <3>5, <3>7, <3>9 DEF Counted
  <2> QED BY <2>4, <2>5
<1> QED BY <1>4, <1>5

\* Only a frame the host handles changes what it has counted.
LEMMA CountedStep ==
  ASSUME MaxFrames <= Width \div 2, LineInv, GapInv, [LineNext]_lineVars,
         toHost', \A k \in 1..Len(delivered') : Numbered(delivered'[k])
  PROVE  Counted'
<1>0. delivered \in Seq([mid : Nat, body : Seq(Nat)]) /\ buf \in Seq(Nat)
  BY DEF GapInv, BytesInv
<1>1. CASE UNCHANGED <<toHost, delivered, tracker, accepted>>
  BY <1>1 DEF GapInv, Counted
<1>2. CASE HostHandles
  <2>1. toHost /\ Complete /\ delivered' = Append(delivered, Current)
    BY <1>2 DEF HostHandles, Consume
  <2>2. Current \in [mid : Nat, body : Seq(Nat)]
    BY <1>0, <2>1, HandledShape
  <2>3. /\ Len(delivered) \in Nat /\ Len(delivered') = Len(delivered) + 1
        /\ delivered'[Len(delivered) + 1] = Current
        /\ \A k \in 1..Len(delivered) : delivered'[k] = delivered[k]
    <3> DEFINE R == [mid : Nat, body : Seq(Nat)]
    <3> HIDE DEF R
    <3> QED BY <1>0, <2>1, <2>2, AppendProperties DEF R
  <2>4. Numbered(Current)
    BY <2>3
  <2>5. ASSUME NEW k \in 1..Len(delivered) PROVE Numbered(delivered[k])
    <3>1. k \in 1..Len(delivered') /\ delivered'[k] = delivered[k]
      BY <2>3
    <3>2. Numbered(delivered'[k])
      BY <3>1
    <3> QED BY <3>1, <3>2
  <2>6. Counted
    BY <2>1, <2>5 DEF GapInv
  <2> DEFINE s == ReadLe16(Current.body)
             confirms == Current.mid = CONFIG /\ Confirms(Current.body[1], Current.body[2])
  <2>7. /\ tracker' = IF confirms THEN NewTracker
                      ELSE IF Current.mid = DATA /\ mode = 3 THEN Track(tracker, s) ELSE tracker
        /\ accepted' = IF confirms THEN <<>>
                       ELSE IF Current.mid = DATA /\ mode = 3 /\ Accepted(tracker, s)
                            THEN Append(accepted, s) ELSE accepted
    BY <1>2 DEF HostHandles
  <2>8. CASE confirms
    <3>1. tracker' = NewTracker /\ accepted' = <<>>
      BY <2>7, <2>8
    <3>2. Fresh(tracker', accepted')
      BY <3>1, FreshTracker
    <3> QED BY <3>1, <3>2 DEF Counted, Fresh
  <2>9. CASE ~confirms /\ Current.mid = DATA /\ mode = 3
    <3>1. PICK j \in 0..(MaxFrames - 1) : s = Number(j)
      BY <2>4, <2>9 DEF Numbered
    <3>2. /\ tracker' = Track(tracker, s)
          /\ accepted' = IF Accepted(tracker, s) THEN Append(accepted, s) ELSE accepted
      BY <2>7, <2>9
    <3> HIDE DEF s
    <3> QED BY <2>6, <3>1, <3>2, TrackStep
  <2>10. CASE ~confirms /\ ~(Current.mid = DATA /\ mode = 3)
    <3>1. tracker' = tracker /\ accepted' = accepted
      BY <2>7, <2>10
    <3> QED BY <2>6, <3>1 DEF Counted
  <2> QED BY <2>8, <2>9, <2>10
<1>3. CASE SendFromBoard \/ ReceiveFromAgent \/ TakeTransmit \/ LoseByte \/ Read \/ TransportRead
           \/ UNCHANGED lineVars
  <2>1. UNCHANGED <<toHost, delivered, tracker, accepted>>
    BY <1>3 DEF SendFromBoard, ReceiveFromAgent, TakeTransmit, Urgent, LoseByte, Read,
       TransportRead, Put, host, history, lineVars
  <2> QED BY <1>1, <2>1
<1>4. CASE FeedByte \/ Resync \/ Reject \/ NeedMore \/ RefuseXrce
  <2>1. UNCHANGED <<toHost, delivered, tracker, accepted>>
    BY <1>4 DEF FeedByte, Resync, Reject, Discard, NeedMore, RefuseXrce, host, history
  <2> QED BY <1>1, <2>1
<1>5. CASE BoardHandles \/ AcceptXrce
  <2>1. ~toHost /\ toHost' = toHost
    BY <1>5 DEF BoardHandles, AcceptXrce, Consume
  <2> QED BY <2>1
<1> QED BY <1>2, <1>3, <1>4, <1>5 DEF LineNext, Parse

\* The invariant of the sequence numbers starts true and is kept.
LEMMA GapStep ==
  ASSUME MaxFrames <= Width \div 2
  PROVE  /\ LineInit => GapInv
         /\ LineInv /\ GapInv /\ [LineNext]_lineVars => GapInv'
<1>1. ASSUME LineInit PROVE GapInv
  <2>1. BytesInv
    BY <1>1, LineAssumption DEF LineInit, BytesInv
  <2>2. NumbersInv
    <3>1. sequence \in 0..(Width - 1) /\ sent = <<>> /\ Len(sent) = 0
      BY <1>1, Range16 DEF LineInit
    <3> QED BY <3>1 DEF NumbersInv
  <2>3. Counted
    <3>1. tracker = NewTracker /\ accepted = <<>>
      BY <1>1 DEF LineInit
    <3>2. Fresh(tracker, accepted)
      BY <3>1, FreshTracker
    <3> QED BY <3>1, <3>2 DEF Counted, Fresh
  <2> QED BY <2>1, <2>2, <2>3 DEF GapInv
<1>2. ASSUME LineInv, GapInv, [LineNext]_lineVars PROVE GapInv'
  <2>1. BytesInv' /\ NumbersInv'
    BY <1>2, BytesStep, NumbersStep DEF GapInv
  <2>2. ASSUME toHost', \A k \in 1..Len(delivered') : Numbered(delivered'[k])
        PROVE  Counted'
    BY <1>2, <2>2, CountedStep
  <2>3. (toHost /\ (\A k \in 1..Len(delivered) : Numbered(delivered[k])) => Counted)'
    BY <2>2
  <2> QED BY <2>1, <2>3 DEF GapInv
<1> QED BY <1>1, <1>2

\* Between the first and the last number taken lie the frames counted.
LEMMA GapsFollow ==
  ASSUME MaxFrames <= Width \div 2, GapInv
  PROVE  GapsAreCounted
<1> SUFFICES ASSUME toHost, accepted # <<>>,
                    \A k \in 1..Len(delivered) : \E j \in 1..Len(sent) : delivered[k] = sent[j]
             PROVE  tracker.missing + Len(accepted) = Distance(Last(accepted), Head(accepted)) + 1
  BY DEF GapsAreCounted
<1>1. ASSUME NEW k \in 1..Len(delivered) PROVE Numbered(delivered[k])
  <2>1. PICK j \in 1..Len(sent) : delivered[k] = sent[j]
    OBVIOUS
  <2>2. Numbered(sent[j])
    BY <2>1 DEF GapInv, NumbersInv
  <2> QED BY <2>1, <2>2
<1>2. Counted
  BY <1>1 DEF GapInv
<1>3. PICK h, i \in 0..(MaxFrames - 1) :
         /\ h <= i /\ accepted[1] = Number(h) /\ accepted[Len(accepted)] = Number(i)
         /\ tracker.missing + Len(accepted) = i - h + 1
  BY <1>2 DEF Counted
<1>4. Head(accepted) = Number(h) /\ Last(accepted) = Number(i)
  <2>1. accepted \in Seq(Nat) /\ Head(accepted) = accepted[1]
    BY <1>2, HeadTailProperties DEF Counted
  <2> QED BY <1>3, <2>1 DEF Last
<1>5. Distance(Number(i), Number(h)) = i - h
  <2>1. Distance(Number(i), Number(h)) = IF i >= h THEN i - h ELSE Width + i - h
    BY NumberDistance
  <2> QED BY <1>3, <2>1
<1> QED BY <1>3, <1>4, <1>5

\* daq_protocol.c, DaqSequenceTrack: as long as the frames handled are frames
\* that were sent, the count of missing frames is exact, whatever was lost and
\* at the wrap too.  The tracker tells late from new by half its range, and so
\* the theorem is about behaviours of no more frames than that.
THEOREM LineGapsAreCounted ==
  ASSUME MaxFrames <= Width \div 2
  PROVE  LineSpec => []GapsAreCounted
<1>1. LineInit => GapInv
  BY GapStep
<1>2. LineInv /\ GapInv /\ [LineNext]_lineVars => GapInv'
  BY GapStep
<1>3. GapInv => GapsAreCounted
  BY GapsFollow
<1> QED BY <1>1, <1>2, <1>3, LineInvariant, PTL DEF LineSpec

-----------------------------------------------------------------------------
(* A lost byte.                                                              *)

\* The bytes of the first k frames of s; the bytes between the line and the
\* handlers; how many bytes sent are no longer there, the lost one among them.
Off(s, k) == Len(Bytes(SubSeq(s, 1, k)))
Held == Whole(<<>>, buf, chunk, wire)
Gone == Len(Bytes(sent)) - Len(Held)

\* The parser has left its loop: it needs more bytes.
Idle ==
    /\ Misplaced = 0
    /\ Len(buf) < 3 \/ (Size # 1 /\ ~TooLong /\ (Size = 0 \/ Len(buf) < Size))

IdleInv == ~refused => Len(buf) <= Capacity /\ (~scanning => Idle)

\* The place of a byte that would be at a if none had been lost in front of it.
Place(a, p) == IF a <= p THEN a - 1 ELSE a

\* What is held is the end of the bytes sent, less the one lost at p.
Content(h, bytes, p) ==
    LET g == Len(bytes) - Len(h)
    IN  /\ p \in 1..Len(bytes) /\ g >= 1
        /\ \A i \in 1..Len(h) : h[i] = bytes[Place(g + i, p)]

ContentInv == lossAt > 0 /\ ~refused => Content(Held, Bytes(sent), lossAt)

\* The frames of s that a byte lost at p may not damage.  When g bytes are gone
\* and d has been handled, those up to the m-th are the last of d, and of the
\* others no byte is gone.
Spared(s, p, k) == Off(s, k - 1) >= p + LargestFrame

Recovered(s, d, g, p, m) ==
    /\ Off(s, m) <= g
    /\ \A k \in 1..m : Spared(s, p, k) =>
          m - k < Len(d) /\ d[Len(d) - (m - k)] = s[k]
    /\ \A k \in (m + 1)..Len(s) : Spared(s, p, k) => g <= Off(s, k - 1)

SparedInv ==
    lossAt > 0 /\ ~refused /\ Clean =>
        \E m \in 0..Len(sent) : Recovered(sent, delivered, Gone, lossAt, m)

DamageInv == IdleInv /\ ContentInv /\ SparedInv

\* Where a frame ends the next one begins, with its sync pair.
LEMMA OffsetNext ==
  ASSUME toHost \in BOOLEAN, NEW s \in Seq(Frames(toHost)), NEW k \in Nat, k < Len(s)
  PROVE  /\ Off(s, k) \in Nat /\ s[k + 1] \in Frames(toHost)
         /\ Encode(s[k + 1]) \in Seq(Nat) /\ Len(Encode(s[k + 1])) \in Nat
         /\ Len(Encode(s[k + 1])) >= 4
         /\ Off(s, k + 1) = Off(s, k) + Len(Encode(s[k + 1]))
         /\ Off(s, k + 1) <= Len(Bytes(s))
         /\ \A i \in 1..Len(Encode(s[k + 1])) : Bytes(s)[Off(s, k) + i] = Encode(s[k + 1])[i]
<1> DEFINE p == SubSeq(s, 1, k)
           f == s[k + 1]
           e == Encode(f)
           x == Bytes(p)
           y == Bytes(s)
<1>1. /\ f \in Frames(toHost) /\ p \in Seq(Frames(toHost)) /\ SubSeq(s, 1, k + 1) = Append(p, f)
      /\ \E r \in Seq(Nat) : y = x \o (e \o r)
  BY BytesNext
<1>2. PICK r \in Seq(Nat) : y = x \o (e \o r)
  BY <1>1
<1>3. e \in Seq(Nat) /\ x \in Seq(Nat) /\ Bytes(SubSeq(s, 1, k + 1)) = x \o e
  BY <1>1, BytesAppend
<1>4. Len(e) \in Nat /\ Len(e) >= 4
  BY <1>1, FrameFits
<1>5. Off(s, k) = Len(x) /\ Off(s, k + 1) = Len(x \o e)
  BY <1>3 DEF Off
<1> HIDE DEF e, x, y, f, p
<1>6. Len(x) \in Nat /\ Len(x \o e) = Len(x) + Len(e) /\ Len(r) \in Nat
  BY <1>3, ConcatProperties
<1>7. /\ e \o r \in Seq(Nat) /\ Len(e \o r) = Len(e) + Len(r)
      /\ \A i \in 1..(Len(e) + Len(r)) : (e \o r)[i] = IF i <= Len(e) THEN e[i] ELSE r[i - Len(e)]
  BY <1>3, ConcatProperties
<1> DEFINE z == e \o r
<1>8. z \in Seq(Nat) /\ Len(z) = Len(e) + Len(r) /\ \A i \in 1..Len(e) : z[i] = e[i]
  BY <1>4, <1>6, <1>7
<1>9. y = x \o z
  BY <1>2
<1> HIDE DEF z
<1>10. /\ Len(y) = Len(x) + Len(z)
       /\ \A i \in 1..(Len(x) + Len(z)) : y[i] = IF i <= Len(x) THEN x[i] ELSE z[i - Len(x)]
  <2>1. Len(x \o z) = Len(x) + Len(z)
    BY <1>3, <1>8, ConcatProperties
  <2>2. \A i \in 1..(Len(x) + Len(z)) : (x \o z)[i] = IF i <= Len(x) THEN x[i] ELSE z[i - Len(x)]
    BY <1>3, <1>8, ConcatProperties
  <2> QED BY <1>9, <2>1, <2>2
<1>11. ASSUME NEW i \in 1..Len(e) PROVE y[Len(x) + i] = e[i]
  <2>1. Len(x) + i \in 1..(Len(x) + Len(z)) /\ ~(Len(x) + i <= Len(x)) /\ (Len(x) + i) - Len(x) = i
    BY SMTT(40), <1>4, <1>6, <1>8
  <2> QED BY <1>8, <1>10, <2>1
<1>12. Len(x) + Len(e) <= Len(y)
  BY <1>4, <1>6, <1>8, <1>10
<1> QED BY <1>1, <1>3, <1>4, <1>5, <1>6, <1>11, <1>12 DEF e, f, y

\* The places of the frames.
LEMMA Offsets ==
  ASSUME toHost \in BOOLEAN, NEW s \in Seq(Frames(toHost))
  PROVE  /\ Bytes(s) \in Seq(Nat) /\ Off(s, 0) = 0 /\ Off(s, Len(s)) = Len(Bytes(s))
         /\ \A k \in 0..Len(s) : Off(s, k) \in Nat /\ Off(s, k) <= Len(Bytes(s))
         /\ \A j, k \in 0..Len(s) : j < k => Off(s, j) + 4 <= Off(s, k)
<1>0. Len(s) \in Nat
  OBVIOUS
<1>1. Bytes(s) \in Seq(Nat) /\ Bytes(<<>>) = <<>>
  <2>1. Bytes(<<>>) = <<>>
    <3>1. FlattenSeq(<<>>) = <<>>
      BY DEF FlattenSeq
    <3>2. [k \in 1..Len(<<>>) |-> Encode(<<>>[k])] = <<>>
      OBVIOUS
    <3> QED BY <3>1, <3>2 DEF Bytes
  <2>2. Bytes(s) \in Seq(Nat)
    <3>1. Frame(READ_ACK, <<0, 0>>) \in Frames(toHost)
      BY DEF Frames, Frame, READ_ACK, CONFIG, DATA, XRCE
    <3> QED BY <3>1, BytesAppend
  <2> QED BY <2>1, <2>2
<1>2. Off(s, 0) = 0
  <2>1. SubSeq(s, 1, 0) = <<>>
    BY SubSeqEmpty
  <2>2. Bytes(SubSeq(s, 1, 0)) = <<>>
    BY <1>1, <2>1, Zenon
  <2>3. Len(<<>>) = 0
    OBVIOUS
  <2> QED BY <2>2, <2>3, Zenon DEF Off
<1>3. Off(s, Len(s)) = Len(Bytes(s))
  BY SubSeqFull DEF Off
<1>4. ASSUME NEW k \in 0..Len(s) PROVE Off(s, k) \in Nat /\ Off(s, k) <= Len(Bytes(s))
  <2>1. CASE k < Len(s)
    <3>1. /\ Off(s, k) \in Nat /\ Len(Encode(s[k + 1])) \in Nat
          /\ Off(s, k + 1) = Off(s, k) + Len(Encode(s[k + 1])) /\ Off(s, k + 1) <= Len(Bytes(s))
      BY <2>1, OffsetNext
    <3> QED BY <1>1, <3>1
  <2>2. CASE k = Len(s)
    BY <1>1, <1>3, <2>2
  <2> QED BY <1>0, <2>1, <2>2
<1>5. ASSUME NEW j \in 0..Len(s), NEW k \in 0..Len(s), j < k
      PROVE  Off(s, j) + 4 <= Off(s, k)
  <2> DEFINE G == {m \in Nat : m > j => Off(s, j) + 4 <= Off(s, m)}
  <2>1. j \in G
    OBVIOUS
  <2>2. ASSUME NEW m \in j..k, m < k, m \in G PROVE m + 1 \in G
    <3>1. m \in Nat /\ m < Len(s) /\ m \in 0..Len(s)
      BY <1>0, <2>2
    <3>2. /\ Off(s, m) \in Nat /\ Len(Encode(s[m + 1])) \in Nat /\ Len(Encode(s[m + 1])) >= 4
          /\ Off(s, m + 1) = Off(s, m) + Len(Encode(s[m + 1]))
      BY <3>1, OffsetNext
    <3>3. Off(s, j) \in Nat
      BY <1>4
    <3>4. CASE m = j
      BY <3>1, <3>2, <3>4
    <3>5. CASE m > j
      <4>1. Off(s, j) + 4 <= Off(s, m)
        BY <2>2, <3>5
      <4> QED BY <3>1, <3>2, <3>3, <4>1
    <3> QED BY <3>1, <3>4, <3>5
  <2>3. j \in Nat /\ k \in Nat /\ k \in j..k
    BY <1>5
  <2> HIDE DEF G
  <2>4. k \in G
    BY <2>1, <2>2, <2>3, Climb
  <2> QED BY <1>5, <2>4 DEF G
<1> QED BY <1>1, <1>2, <1>3, <1>4, <1>5

\* No frame that a parser accepts is longer than the largest one.
LEMMA SizeBound ==
  ASSUME toHost \in BOOLEAN, buf \in Seq(Nat), ~TooLong
  PROVE  Size \in Nat /\ Size <= LargestFrame
<1>1. /\ Size \in Nat /\ DataSize \in Nat /\ Mtu \in Nat /\ LargestFrame \in Nat
      /\ LargestFrame >= 5 + DataSize /\ LargestFrame >= 5 + Mtu /\ LargestFrame >= 6
  BY SizeIsNumber, ProtocolAssumption DEF LargestFrame
<1>2. CASE toHost
  BY <1>1, <1>2, Numbers DEF TooLong, Capacity, HostCapacity
<1>3. CASE ~toHost
  <2> DEFINE m == buf[3]
             r == ReadLe16(SubSeq(buf, 4, 5))
  <2>1. CASE Len(buf) < 3 \/ (m = XRCE /\ Len(buf) < 5)
    <3>1. Size = 0
      BY <2>1 DEF Size, FrameSize
    <3> QED BY <1>1, <3>1
  <2>2. CASE ~(Len(buf) < 3 \/ (m = XRCE /\ Len(buf) < 5))
    <3>1. CASE m = CONFIG
      BY <1>1, <1>3, <2>2, <3>1 DEF Size, FrameSize, CONFIG, DATA, READ_ACK, XRCE
    <3>2. CASE m = DATA
      BY <1>1, <2>2, <3>2 DEF Size, FrameSize, CONFIG, DATA, READ_ACK, XRCE
    <3>3. CASE m = READ_ACK
      BY <1>1, <2>2, <3>3 DEF Size, FrameSize, CONFIG, DATA, READ_ACK, XRCE
    <3>4. CASE m = XRCE /\ r <= Mtu
      <4>1. Size = 5 + r
        BY <2>2, <3>4 DEF Size, FrameSize, CONFIG, DATA, READ_ACK, XRCE
      <4>2. r \in Int
        <5>1. Len(buf) \in Nat /\ Len(buf) >= 5 /\ \A i \in 1..Len(buf) : buf[i] \in Nat
          BY <2>2, <3>4
        <5>2. \A i \in 4..5 : buf[i] \in Nat
          BY <5>1
        <5>3. \A i \in 1..(5 - 4 + 1) : SubSeq(buf, 4, 5)[i] = buf[4 + i - 1]
          BY <5>2, SubSeqProperties
        <5>4. SubSeq(buf, 4, 5)[1] = buf[4] /\ SubSeq(buf, 4, 5)[2] = buf[5]
          BY <5>3
        <5>5. buf[4] \in Nat /\ buf[5] \in Nat
          BY <5>2
        <5> QED BY SMTT(40), <5>4, <5>5, Numbers DEF ReadLe16
      <4> HIDE DEF r
      <4> QED BY <1>1, <3>4, <4>1, <4>2
    <3>5. CASE ~(m = CONFIG) /\ ~(m = DATA) /\ ~(m = READ_ACK) /\ ~(m = XRCE /\ r <= Mtu)
      <4>1. Size = 1
        BY <1>3, <2>2, <3>5 DEF Size, FrameSize, CONFIG, DATA, READ_ACK, XRCE
      <4> QED BY <1>1, <4>1
    <3> QED BY <3>1, <3>2, <3>3, <3>4, <3>5
  <2> QED BY <2>1, <2>2
<1> QED BY <1>2, <1>3

\* A parser that needs more bytes has room for one.
LEMMA IdleHasRoom ==
  ASSUME toHost \in BOOLEAN, buf \in Seq(Nat), Idle
  PROVE  Len(buf) < LargestFrame /\ Len(buf) < Capacity /\ LargestFrame <= Capacity
<1>1. /\ DataSize \in Nat /\ Mtu \in Nat /\ LargestFrame \in Nat /\ LargestFrame >= 6
      /\ LargestFrame <= Capacity /\ Len(buf) \in Nat /\ Capacity \in Nat
  BY ProtocolAssumption, LineAssumption DEF LargestFrame, Capacity, HostCapacity
<1>2. CASE Len(buf) < 5
  BY <1>1, <1>2
<1>3. CASE Len(buf) >= 5
  <2>1. ~TooLong /\ (Size = 0 \/ Len(buf) < Size)
    BY <1>1, <1>3 DEF Idle
  <2>2. Size # 0
    <3>1. DataSize \in Nat /\ ~(Len(buf) < 3) /\ ~(Len(buf) < 5)
      BY <1>1, <1>3
    <3> DEFINE r == ReadLe16(SubSeq(buf, 4, 5))
    <3>2. r \in Nat
      <4>1. Len(buf) \in Nat /\ Len(buf) >= 5 /\ \A i \in 1..Len(buf) : buf[i] \in Nat
        BY <1>1, <1>3
      <4>2. \A i \in 4..5 : buf[i] \in Nat
        BY <4>1
      <4>3. \A i \in 1..(5 - 4 + 1) : SubSeq(buf, 4, 5)[i] = buf[4 + i - 1]
        BY <4>2, SubSeqProperties
      <4>4. SubSeq(buf, 4, 5)[1] = buf[4] /\ SubSeq(buf, 4, 5)[2] = buf[5]
        BY <4>3
      <4>5. buf[4] \in Nat /\ buf[5] \in Nat
        BY <4>2
      <4>6. Base * buf[5] \in Nat
        BY <4>5, Numbers
      <4> QED BY <4>4, <4>5, <4>6 DEF ReadLe16
    <3> HIDE DEF r
    <3>3. \/ Size \in {1, 4, 5} \/ Size = 5 + DataSize \/ Size = 5 + r
      BY <3>1 DEF Size, FrameSize, r
    <3> QED BY <3>1, <3>2, <3>3
  <2>3. Size \in Nat /\ Size <= LargestFrame /\ Len(buf) < Size
    BY <2>1, <2>2, SizeBound
  <2> QED BY <1>1, <2>3
<1> QED BY <1>1, <1>2, <1>3

\* h is b, c and w one after the other, byte by byte.
Parts(h, b, c, w) ==
    /\ h \in Seq(Nat) /\ b \in Seq(Nat) /\ c \in Seq(Nat) /\ w \in Seq(Nat)
    /\ Len(h) = Len(b) + Len(c) + Len(w)
    /\ \A i \in 1..Len(b) : h[i] = b[i]
    /\ \A i \in 1..Len(c) : h[Len(b) + i] = c[i]
    /\ \A i \in 1..Len(w) : h[Len(b) + Len(c) + i] = w[i]

\* Their concatenation is.
LEMMA WholeParts ==
  ASSUME NEW b, NEW c, NEW w, AllBytes(<<>>, b, c, w)
  PROVE  Parts(Whole(<<>>, b, c, w), b, c, w)
<1> DEFINE v == c \o w
           u == b \o v
<1>0. b \in Seq(Nat) /\ c \in Seq(Nat) /\ w \in Seq(Nat)
  BY DEF AllBytes
<1>1. Len(b) \in Nat /\ Len(c) \in Nat /\ Len(w) \in Nat
  BY <1>0
<1>2. v \in Seq(Nat) /\ Len(v) = Len(c) + Len(w)
  BY <1>0, ConcatProperties
<1>3. \A i \in 1..(Len(c) + Len(w)) : v[i] = IF i <= Len(c) THEN c[i] ELSE w[i - Len(c)]
  BY <1>0, ConcatProperties
<1> HIDE DEF v
<1>4. u \in Seq(Nat) /\ Len(u) = Len(b) + Len(v)
  BY <1>0, <1>2, ConcatProperties
<1>5. \A i \in 1..(Len(b) + Len(v)) : u[i] = IF i <= Len(b) THEN b[i] ELSE v[i - Len(b)]
  BY <1>0, <1>2, ConcatProperties
<1>6. Whole(<<>>, b, c, w) = u
  BY <1>4, ConcatEmptySeq DEF Whole, v
<1> HIDE DEF u
<1>7. ASSUME NEW i \in 1..Len(b) PROVE u[i] = b[i]
  <2>1. i \in 1..(Len(b) + Len(v)) /\ i <= Len(b)
    BY <1>1, <1>2
  <2> QED BY <1>5, <2>1
<1>8. ASSUME NEW i \in 1..Len(c) PROVE u[Len(b) + i] = c[i]
  <2>1. /\ Len(b) + i \in 1..(Len(b) + Len(v)) /\ ~(Len(b) + i <= Len(b))
        /\ (Len(b) + i) - Len(b) = i /\ i \in 1..(Len(c) + Len(w)) /\ i <= Len(c)
    BY <1>1, <1>2
  <2>2. u[Len(b) + i] = v[i]
    BY <1>5, <2>1
  <2> QED BY <1>3, <2>1, <2>2
<1>9. ASSUME NEW i \in 1..Len(w) PROVE u[Len(b) + Len(c) + i] = w[i]
  <2> DEFINE j == Len(c) + i
  <2>1. /\ Len(b) + j \in 1..(Len(b) + Len(v)) /\ ~(Len(b) + j <= Len(b))
        /\ (Len(b) + j) - Len(b) = j /\ j \in 1..(Len(c) + Len(w)) /\ ~(j <= Len(c))
        /\ j - Len(c) = i /\ Len(b) + Len(c) + i = Len(b) + j
    BY <1>1, <1>2
  <2> HIDE DEF j
  <2>2. u[Len(b) + j] = v[j]
    BY <1>5, <2>1
  <2>3. v[j] = w[i]
    BY <1>3, <2>1
  <2> QED BY <2>1, <2>2, <2>3
<1>10. Len(u) = Len(b) + Len(c) + Len(w)
  BY <1>1, <1>2, <1>4
<1>11. Parts(u, b, c, w)
  BY <1>0, <1>4, <1>7, <1>8, <1>9, <1>10 DEF Parts
<1> QED BY <1>6, <1>11

\* The line before a step, as the lemmas below need it.
Behind ==
    /\ toHost \in BOOLEAN /\ sent \in Seq(Frames(toHost))
    /\ wire \in Seq(Nat) /\ chunk \in Seq(Nat) /\ buf \in Seq(Nat)
    /\ delivered \in Seq([mid : Nat, body : Seq(Nat)])
    /\ ContentInv /\ lossAt > 0 /\ ~refused

\* Numbers and bytes of that state.
LEMMA BehindFacts ==
  ASSUME Behind
  PROVE  /\ Held \in Seq(Nat) /\ Len(Held) \in Nat /\ Len(Held) = Len(buf) + Len(chunk) + Len(wire)
         /\ Len(buf) \in Nat /\ Len(chunk) \in Nat /\ Len(wire) \in Nat
         /\ \A i \in 1..Len(buf) : Held[i] = buf[i]
         /\ Bytes(sent) \in Seq(Nat) /\ Len(Bytes(sent)) \in Nat
         /\ Gone \in Nat /\ Gone + Len(Held) = Len(Bytes(sent))
         /\ lossAt \in 1..Len(Bytes(sent)) /\ Gone >= 1
         /\ LargestFrame \in Nat /\ LargestFrame >= 6
<1>1. /\ Held \in Seq(Nat) /\ Len(Held) = Len(buf) + Len(chunk) + Len(wire)
      /\ Len(buf) \in Nat /\ Len(chunk) \in Nat /\ Len(wire) \in Nat
      /\ \A i \in 1..Len(buf) : Held[i] = buf[i]
  <2>1. AllBytes(<<>>, buf, chunk, wire)
    BY DEF Behind, AllBytes
  <2>2. Parts(Held, buf, chunk, wire)
    BY <2>1, WholeParts DEF Held
  <2> QED BY <2>2 DEF Parts
<1>2. Bytes(sent) \in Seq(Nat)
  BY Offsets DEF Behind
<1>3. lossAt \in 1..Len(Bytes(sent)) /\ Gone >= 1
  BY DEF Behind, ContentInv, Content, Gone
<1>4. Len(Bytes(sent)) \in Nat
  BY <1>2
<1>5. Gone = Len(Bytes(sent)) - Len(Held)
  BY DEF Gone
<1>6. LargestFrame \in Nat /\ LargestFrame >= 6
  BY ProtocolAssumption DEF LargestFrame
<1> HIDE DEF Gone, Held
<1>7. Len(Held) \in Nat
  BY <1>1
<1> QED BY <1>1, <1>2, <1>3, <1>4, <1>5, <1>6, <1>7

\* Once the lost byte is behind, what is held is the end of what was sent, and
\* a sync pair in front of it begins a frame.
LEMMA InStep ==
  ASSUME Behind, Clean, Gone >= lossAt, Len(buf) >= 3, SyncAt(buf, 1)
  PROVE  \E k \in 0..(Len(sent) - 1) :
            /\ Gone = Off(sent, k) /\ sent[k + 1] \in Frames(toHost)
            /\ Len(buf) >= Len(Encode(sent[k + 1])) =>
                  Size = Len(Encode(sent[k + 1])) /\ Decode(buf, Size) = sent[k + 1]
            /\ Len(buf) < Len(Encode(sent[k + 1])) =>
                  Size = 0 \/ Size = Len(Encode(sent[k + 1]))
            /\ Len(Encode(sent[k + 1])) <= Capacity
<1> DEFINE B == Bytes(sent)
<1>1. /\ toHost \in BOOLEAN /\ sent \in Seq(Frames(toHost)) /\ buf \in Seq(Nat)
      /\ Len(sent) \in Nat
  BY DEF Behind
<1>2. /\ Len(Held) \in Nat /\ Len(Held) >= Len(buf) /\ Len(buf) \in Nat
      /\ \A i \in 1..Len(buf) : Held[i] = buf[i]
      /\ B \in Seq(Nat) /\ Len(B) \in Nat /\ Gone \in Nat /\ Gone + Len(Held) = Len(B)
      /\ lossAt \in 1..Len(B)
  <2>1. /\ Len(Held) \in Nat /\ Len(Held) = Len(buf) + Len(chunk) + Len(wire)
        /\ Len(buf) \in Nat /\ Len(chunk) \in Nat /\ Len(wire) \in Nat
    BY BehindFacts
  <2>2. /\ \A i \in 1..Len(buf) : Held[i] = buf[i]
        /\ B \in Seq(Nat) /\ Len(B) \in Nat /\ Gone \in Nat /\ Gone + Len(Held) = Len(B)
        /\ lossAt \in 1..Len(B)
    BY BehindFacts
  <2>3. Len(Held) >= Len(buf)
    BY <2>1
  <2> QED BY <2>1, <2>2, <2>3
<1>3. ASSUME NEW i \in 1..Len(buf) PROVE buf[i] = B[Gone + i]
  <2>1. i \in 1..Len(Held) /\ ~(Gone + i <= lossAt)
    BY <1>2
  <2>2. Held[i] = B[Place(Gone + i, lossAt)]
    BY <2>1 DEF Behind, ContentInv, Content, Gone
  <2> QED BY <1>2, <2>1, <2>2 DEF Place
<1>4. Gone + 1 \in 1..(Len(B) - 1) /\ SyncAt(B, Gone + 1)
  <2>1. Gone + 1 \in 1..(Len(B) - 1) /\ 1 \in 1..Len(buf) /\ 2 \in 1..Len(buf) /\ Gone + 1 + 1 = Gone + 2
    BY <1>2
  <2>2. buf[1] = B[Gone + 1] /\ buf[2] = B[Gone + 2]
    BY <1>3, <2>1
  <2>3. buf[1] = SyncFirst /\ buf[1 + 1] = SyncSecond
    BY DEF SyncAt
  <2>4. 1 + 1 = 2
    OBVIOUS
  <2> QED BY <2>1, <2>2, <2>3, <2>4 DEF SyncAt
<1>5. Gone + 1 \in Starts
  BY <1>4 DEF Clean
<1>6. PICK k \in 0..(Len(sent) - 1) : Gone + 1 = Len(Bytes(SubSeq(sent, 1, k))) + 1
  BY <1>5 DEF Starts
<1>7. k \in Nat /\ k < Len(sent)
  BY <1>1, <1>6
<1> DEFINE f == sent[k + 1]
           e == Encode(f)
<1>8. /\ Off(sent, k) \in Nat /\ f \in Frames(toHost) /\ e \in Seq(Nat) /\ Len(e) \in Nat
      /\ \A i \in 1..Len(e) : B[Off(sent, k) + i] = e[i]
  BY <1>1, <1>7, OffsetNext
<1>9. Gone = Off(sent, k)
  <2>1. Gone + 1 = Off(sent, k) + 1
    BY <1>6 DEF Off
  <2> QED BY SMTT(40), <1>2, <1>8, <2>1
<1>10. Len(e) <= Capacity
  BY <1>1, <1>8, FrameFits
<1> HIDE DEF f, e, B
<1>11. ASSUME Len(buf) >= Len(e)
       PROVE  Size = Len(e) /\ Decode(buf, Size) = f
  <2>1. ASSUME NEW i \in 1..Len(e) PROVE buf[i] = e[i]
    <3>1. i \in 1..Len(buf)
      BY <1>2, <1>8, <1>11
    <3> QED BY <1>3, <1>8, <1>9, <3>1
  <2>2. Agree(buf, Encode(f), Len(Encode(f)))
    BY <2>1 DEF Agree, e
  <2>3. FrameSize(buf, toHost) = Len(e) /\ Decode(buf, Len(e)) = f
    BY <1>1, <1>8, <1>11, <2>2, WholeParses DEF e
  <2> QED BY <2>3 DEF Size
<1>12. ASSUME Len(buf) < Len(e)
       PROVE  Size = 0 \/ Size = Len(e)
  <2>1. ASSUME NEW i \in 1..Len(buf) PROVE buf[i] = e[i]
    <3>1. i \in 1..Len(e)
      BY <1>2, <1>8, <1>12
    <3> QED BY <1>3, <1>8, <1>9, <3>1
  <2>2. Agree(buf, Encode(f), Len(buf)) /\ Len(buf) <= Len(Encode(f))
    BY <1>2, <1>8, <1>12, <2>1 DEF Agree, e
  <2>3. FrameSize(buf, toHost) \in {0, Len(e)}
    BY <1>1, <1>8, <2>2, PrefixParses DEF e
  <2> QED BY <2>3 DEF Size
<1> QED BY <1>8, <1>9, <1>10, <1>11, <1>12 DEF e, f

\* Near the lost byte nothing is spared yet.
LEMMA NothingSpared ==
  ASSUME toHost \in BOOLEAN, NEW s \in Seq(Frames(toHost)), NEW d, NEW g \in Nat, NEW p \in Nat,
         g <= p + LargestFrame
  PROVE  0 \in 0..Len(s) /\ Recovered(s, d, g, p, 0)
<1>1. /\ Len(s) \in Nat /\ Off(s, 0) = 0 /\ LargestFrame \in Nat
      /\ \A k \in 0..Len(s) : Off(s, k) \in Nat
  BY Offsets, ProtocolAssumption DEF LargestFrame
<1>2. ASSUME NEW k \in (0 + 1)..Len(s), Spared(s, p, k) PROVE g <= Off(s, k - 1)
  <2>1. k - 1 \in 0..Len(s)
    BY <1>1
  <2>2. Off(s, k - 1) \in Nat /\ Off(s, k - 1) >= p + LargestFrame
    BY <1>1, <1>2, <2>1 DEF Spared
  <2> QED BY <1>1, <2>2
<1>3. \A k \in 1..0 : FALSE
  OBVIOUS
<1> QED BY <1>1, <1>2, <1>3 DEF Recovered

\* Bytes among which no frame begins may go.
LEMMA JunkGoes ==
  ASSUME toHost \in BOOLEAN, NEW s \in Seq(Frames(toHost)), NEW d, NEW g \in Nat, NEW p,
         NEW m \in 0..Len(s), Recovered(s, d, g, p, m), NEW n \in Nat,
         \A k \in 0..(Len(s) - 1) : ~(g <= Off(s, k) /\ Off(s, k) < g + n)
  PROVE  Recovered(s, d, g + n, p, m)
<1>1. Len(s) \in Nat /\ \A k \in 0..Len(s) : Off(s, k) \in Nat
  BY Offsets
<1>2. Off(s, m) <= g + n
  BY <1>1 DEF Recovered
<1>3. ASSUME NEW k \in (m + 1)..Len(s), Spared(s, p, k) PROVE g + n <= Off(s, k - 1)
  <2>1. k - 1 \in 0..Len(s) /\ k - 1 \in 0..(Len(s) - 1)
    BY <1>1
  <2>2. g <= Off(s, k - 1) /\ Off(s, k - 1) \in Nat
    BY <1>1, <1>3, <2>1 DEF Recovered
  <2>3. ~(Off(s, k - 1) < g + n)
    BY <2>1, <2>2
  <2> QED BY <2>2, <2>3
<1> QED BY <1>2, <1>3 DEF Recovered

\* A frame handled in step is one more of those spared, or before them.
LEMMA FrameGoes ==
  ASSUME toHost \in BOOLEAN, NEW s \in Seq(Frames(toHost)), NEW S, NEW d \in Seq(S), NEW p \in Nat,
         NEW j \in 0..(Len(s) - 1), s[j + 1] \in S,
         NEW m \in 0..Len(s), Recovered(s, d, Off(s, j), p, m)
  PROVE  \E l \in 0..Len(s) : Recovered(s, Append(d, s[j + 1]), Off(s, j + 1), p, l)
<1> DEFINE a == Append(d, s[j + 1])
<1>1. /\ Len(s) \in Nat /\ \A k \in 0..Len(s) : Off(s, k) \in Nat
      /\ \A i, k \in 0..Len(s) : i < k => Off(s, i) + 4 <= Off(s, k)
      /\ LargestFrame \in Nat
  BY SMTT(40), Offsets, ProtocolAssumption DEF LargestFrame
<1>2. j \in 0..Len(s) /\ j + 1 \in 0..Len(s) /\ j \in Nat /\ m \in Nat
  BY <1>1
<1>3. /\ Len(d) \in Nat /\ Len(a) = Len(d) + 1 /\ a[Len(d) + 1] = s[j + 1]
      /\ \A i \in 1..Len(d) : a[i] = d[i]
  BY AppendProperties
<1>4. m <= j
  <2>1. Off(s, m) <= Off(s, j)
    BY DEF Recovered
  <2>2. Off(s, m) \in Nat /\ Off(s, j) \in Nat
    BY <1>1, <1>2
  <2>3. j < m => Off(s, j) + 4 <= Off(s, m)
    BY <1>1, <1>2
  <2> QED BY <1>2, <2>1, <2>2, <2>3
<1>5. ASSUME NEW i \in 1..Len(s), NEW k \in 1..Len(s), i <= k, Spared(s, p, i)
      PROVE  Spared(s, p, k)
  <2>1. i - 1 \in 0..Len(s) /\ k - 1 \in 0..Len(s) /\ (i = k \/ i - 1 < k - 1)
    BY SMTT(40), <1>1, <1>5
  <2>2. Off(s, i - 1) \in Nat /\ Off(s, k - 1) \in Nat /\ Off(s, i - 1) >= p + LargestFrame
    BY <1>1, <1>5, <2>1 DEF Spared
  <2>3. Off(s, i - 1) <= Off(s, k - 1)
    <3>1. CASE i = k
      BY <2>2, <3>1
    <3>2. CASE i - 1 < k - 1
      <4>1. Off(s, i - 1) + 4 <= Off(s, k - 1)
        BY <1>1, <2>1, <3>2
      <4> QED BY <2>2, <4>1
    <3> QED BY <2>1, <3>1, <3>2
  <2> QED BY <1>1, <2>2, <2>3 DEF Spared
<1>6. ASSUME NEW k \in 1..Len(s), k > j + 1 PROVE Off(s, j + 1) <= Off(s, k - 1)
  <2>1. k - 1 \in 0..Len(s) /\ (j + 1 = k - 1 \/ j + 1 < k - 1)
    BY SMTT(40), <1>1, <1>2, <1>6
  <2>2. Off(s, k - 1) \in Nat /\ Off(s, j + 1) \in Nat
    BY <1>1, <1>2, <2>1
  <2>3. CASE j + 1 = k - 1
    BY <2>2, <2>3
  <2>4. CASE j + 1 < k - 1
    <3>1. Off(s, j + 1) + 4 <= Off(s, k - 1)
      BY <1>1, <1>2, <2>1, <2>4
    <3> QED BY <2>2, <3>1
  <2> QED BY <2>1, <2>3, <2>4
<1>7. ASSUME NEW k \in (m + 1)..Len(s), Spared(s, p, k) PROVE k >= j + 1
  <2>0. Off(s, j) <= Off(s, k - 1)
    BY <1>7 DEF Recovered
  <2>1. k - 1 \in 0..Len(s) /\ Off(s, j) <= Off(s, k - 1) /\ k \in Nat
    BY <1>1, <1>2, <2>0
  <2>2. Off(s, k - 1) \in Nat /\ Off(s, j) \in Nat /\ (k - 1 < j => Off(s, k - 1) + 4 <= Off(s, j))
    BY <1>1, <1>2, <2>1
  <2> QED BY <1>2, <2>1, <2>2
<1> HIDE DEF a
<1>8. CASE Spared(s, p, j + 1)
  <2>1. ASSUME NEW k \in 1..(j + 1), Spared(s, p, k)
        PROVE  (j + 1) - k < Len(a) /\ a[Len(a) - ((j + 1) - k)] = s[k]
    <3>1. CASE k = j + 1
      <4>1. (j + 1) - k = 0 /\ Len(a) - 0 = Len(d) + 1 /\ 0 < Len(a)
        BY <1>2, <1>3, <3>1
      <4> QED BY <1>3, <3>1, <4>1
    <3>2. CASE k # j + 1
      <4>1. k \in 1..Len(s) /\ k <= j
        BY <1>1, <1>2, <3>2
      <4>2. k <= m
        <5>1. k \in (m + 1)..Len(s) => k >= j + 1
          BY <1>7, <2>1
        <5> QED BY <1>2, <4>1, <5>1
      <4>3. m = j
        <5>1. CASE m < j
          <6>1. m + 1 \in (m + 1)..Len(s) /\ m + 1 \in 1..Len(s) /\ k <= m + 1
            BY <1>1, <1>2, <4>2, <5>1
          <6>2. Spared(s, p, m + 1)
            BY <1>5, <2>1, <4>1, <6>1
          <6>3. m + 1 >= j + 1
            BY <1>7, <6>1, <6>2
          <6> QED BY <1>2, <5>1, <6>3
        <5> QED BY <1>2, <1>4, <5>1
      <4>4. m - k < Len(d) /\ d[Len(d) - (m - k)] = s[k]
        <5>1. k \in 1..m
          BY <4>1, <4>2
        <5> QED BY <2>1, <5>1 DEF Recovered
      <4> DEFINE i == Len(d) - (m - k)
      <4>5. i \in 1..Len(d) /\ Len(a) - ((j + 1) - k) = i /\ (j + 1) - k < Len(a)
        BY <1>2, <1>3, <4>1, <4>2, <4>3, <4>4
      <4>6. d[i] = s[k]
        BY <4>4
      <4> HIDE DEF i
      <4> QED BY <1>3, <4>5, <4>6
    <3> QED BY <3>1, <3>2
  <2>2. ASSUME NEW k \in ((j + 1) + 1)..Len(s) PROVE Off(s, j + 1) <= Off(s, k - 1)
    <3>1. k \in 1..Len(s) /\ k > j + 1
      BY <1>1, <1>2
    <3> QED BY <1>6, <3>1
  <2>3. Off(s, j + 1) <= Off(s, j + 1)
    BY <1>1, <1>2
  <2>4. Recovered(s, a, Off(s, j + 1), p, j + 1)
    BY <2>1, <2>2, <2>3 DEF Recovered
  <2> QED BY <1>2, <2>4 DEF a
<1>9. CASE ~Spared(s, p, j + 1)
  <2>1. ASSUME NEW k \in 1..m PROVE ~Spared(s, p, k)
    <3>1. k \in 1..Len(s) /\ j + 1 \in 1..Len(s) /\ k <= j + 1
      BY <1>1, <1>2, <1>4
    <3> QED BY <1>5, <1>9, <3>1
  <2>2. ASSUME NEW k \in (m + 1)..Len(s), Spared(s, p, k) PROVE Off(s, j + 1) <= Off(s, k - 1)
    <3>1. k >= j + 1 /\ k # j + 1
      BY <1>7, <1>9, <2>2
    <3>2. k \in 1..Len(s) /\ k > j + 1
      BY <1>1, <1>2, <3>1
    <3> QED BY <1>6, <3>2
  <2>3. Off(s, m) <= Off(s, j + 1)
    <3>1. Off(s, m) + 4 <= Off(s, j + 1) /\ Off(s, m) \in Nat /\ Off(s, j + 1) \in Nat
      BY <1>1, <1>2, <1>4
    <3> QED BY <3>1
  <2>4. Recovered(s, a, Off(s, j + 1), p, m)
    BY <2>1, <2>2, <2>3 DEF Recovered
  <2> QED BY <2>4 DEF a
<1> QED BY <1>8, <1>9

\* x is y without its first n bytes.
Cut(x, y, n) ==
    /\ x \in Seq(Nat) /\ y \in Seq(Nat) /\ n \in Nat /\ Len(x) = Len(y) - n
    /\ \A i \in 1..Len(x) : x[i] = y[n + i]

\* Cutting a sequence,
LEMMA CutShape ==
  ASSUME NEW b \in Seq(Nat), NEW n \in 0..Len(b)
  PROVE  Cut(SubSeq(b, n + 1, Len(b)), b, n)
<1> DEFINE t == SubSeq(b, n + 1, Len(b))
<1>1. Len(b) \in Nat /\ n \in Nat /\ n + 1 \in Nat
  OBVIOUS
<1>2. \A i \in (n + 1)..Len(b) : b[i] \in Nat
  BY <1>1
<1>3. t \in Seq(Nat) /\ Len(t) = IF n + 1 <= Len(b) THEN Len(b) - (n + 1) + 1 ELSE 0
  BY <1>1, <1>2, SubSeqProperties
<1>4. \A i \in 1..(Len(b) - (n + 1) + 1) : t[i] = b[(n + 1) + i - 1]
  BY <1>1, <1>2, SubSeqProperties
<1> HIDE DEF t
<1>5. Len(t) = Len(b) - n
  BY <1>1, <1>3
<1>6. ASSUME NEW i \in 1..Len(t) PROVE t[i] = b[n + i]
  <2>1. i \in 1..(Len(b) - (n + 1) + 1) /\ (n + 1) + i - 1 = n + i
    BY <1>1, <1>5
  <2> QED BY <1>4, <2>1
<1>7. Cut(t, b, n)
  BY <1>1, <1>3, <1>5, <1>6 DEF Cut
<1> QED BY <1>7 DEF t

\* and cutting the first of three.
LEMMA CutParts ==
  ASSUME NEW x, NEW y, NEW t, NEW b, NEW c, NEW w, NEW n,
         Parts(y, b, c, w), Cut(t, b, n), Parts(x, t, c, w)
  PROVE  Cut(x, y, n)
<1>1. /\ Len(b) \in Nat /\ Len(c) \in Nat /\ Len(w) \in Nat /\ Len(t) \in Nat /\ n \in Nat
      /\ Len(t) = Len(b) - n /\ Len(y) = Len(b) + Len(c) + Len(w)
      /\ Len(x) = Len(t) + Len(c) + Len(w) /\ x \in Seq(Nat) /\ y \in Seq(Nat)
  BY DEF Parts, Cut
<1>2. Len(x) = Len(y) - n
  BY <1>1
<1>3. ASSUME NEW i \in 1..Len(x) PROVE x[i] = y[n + i]
  <2>0. i \in Nat /\ i >= 1 /\ i <= Len(t) + Len(c) + Len(w)
    BY <1>1
  <2>1. CASE i <= Len(t)
    <3>1. i \in 1..Len(t) /\ n + i \in 1..Len(b)
      BY <1>1, <2>0, <2>1
    <3>2. x[i] = t[i] /\ t[i] = b[n + i] /\ y[n + i] = b[n + i]
      BY <3>1 DEF Parts, Cut
    <3> QED BY <3>2
  <2>2. CASE i > Len(t) /\ i <= Len(t) + Len(c)
    <3> DEFINE j == i - Len(t)
    <3>1. j \in 1..Len(c) /\ i = Len(t) + j /\ n + i = Len(b) + j
      BY <1>1, <2>0, <2>2
    <3> HIDE DEF j
    <3>2. x[Len(t) + j] = c[j] /\ y[Len(b) + j] = c[j]
      BY <3>1 DEF Parts
    <3> QED BY <3>1, <3>2
  <2>3. CASE i > Len(t) + Len(c)
    <3> DEFINE j == i - Len(t) - Len(c)
    <3>1. j \in 1..Len(w) /\ i = Len(t) + Len(c) + j /\ n + i = Len(b) + Len(c) + j
      BY <1>1, <2>0, <2>3
    <3> HIDE DEF j
    <3>2. x[Len(t) + Len(c) + j] = w[j] /\ y[Len(b) + Len(c) + j] = w[j]
      BY <3>1 DEF Parts
    <3> QED BY <3>1, <3>2
  <2>4. \/ i <= Len(t)
        \/ i > Len(t) /\ i <= Len(t) + Len(c)
        \/ i > Len(t) + Len(c)
    BY <1>1, <2>0
  <2> QED BY <2>1, <2>2, <2>3, <2>4
<1> QED BY <1>1, <1>2, <1>3 DEF Cut

\* What is left of the end of the bytes is the end of them.
LEMMA ContentCut ==
  ASSUME NEW y, NEW bytes \in Seq(Nat), NEW p, Content(y, bytes, p), NEW x, NEW n, Cut(x, y, n)
  PROVE  Content(x, bytes, p)
<1> DEFINE g == Len(bytes) - Len(y)
           q == Len(bytes) - Len(x)
<1>1. Len(x) \in Nat /\ Len(y) \in Nat /\ Len(bytes) \in Nat /\ n \in Nat /\ Len(x) = Len(y) - n
  BY DEF Cut
<1>2. p \in 1..Len(bytes) /\ g >= 1
  BY DEF Content
<1>3. \A i \in 1..Len(y) : y[i] = bytes[Place(g + i, p)]
  BY DEF Content
<1>4. g \in Int /\ q \in Int /\ q = g + n /\ q >= 1
  BY <1>1, <1>2
<1> HIDE DEF g, q
<1>5. ASSUME NEW i \in 1..Len(x)
      PROVE  x[i] = bytes[Place(q + i, p)]
  <2> DEFINE k == n + i
             a == q + i
  <2>1. k \in 1..Len(y) /\ g + k = a
    BY <1>1, <1>4
  <2>2. x[i] = y[k]
    BY DEF Cut
  <2> HIDE DEF k, a
  <2>3. y[k] = bytes[Place(g + k, p)]
    BY <1>3, <2>1
  <2>4. y[k] = bytes[Place(a, p)]
    BY <2>1, <2>3
  <2> QED BY <2>2, <2>4 DEF a
<1> QED BY <1>2, <1>4, <1>5 DEF Content, q

\* The same of the state.
LEMMA CutHeld ==
  ASSUME Behind, NEW n \in 1..Len(buf), buf' = SubSeq(buf, n + 1, Len(buf)),
         UNCHANGED <<chunk, wire, sent, lossAt>>
  PROVE  ContentInv' /\ Gone' = Gone + n
<1>1. wire \in Seq(Nat) /\ chunk \in Seq(Nat) /\ buf \in Seq(Nat)
  BY DEF Behind
<1>2. /\ Held \in Seq(Nat) /\ Len(Held) \in Nat
      /\ Bytes(sent) \in Seq(Nat) /\ Len(Bytes(sent)) \in Nat
  BY BehindFacts
<1>3. Content(Held, Bytes(sent), lossAt)
  BY DEF Behind, ContentInv
<1> DEFINE t == SubSeq(buf, n + 1, Len(buf))
           x == Whole(<<>>, t, chunk, wire)
<1>4. Cut(x, Held, n)
  <2>1. Cut(t, buf, n)
    BY <1>1, CutShape
  <2>2. AllBytes(<<>>, buf, chunk, wire) /\ AllBytes(<<>>, t, chunk, wire)
    BY <1>1, <2>1 DEF AllBytes, Cut
  <2> HIDE DEF t
  <2>3. Parts(Held, buf, chunk, wire) /\ Parts(x, t, chunk, wire)
    BY <2>2, WholeParts DEF Held
  <2> HIDE DEF x
  <2> QED BY <2>1, <2>3, CutParts
<1>5. Held' = x /\ Bytes(sent)' = Bytes(sent)
  BY DEF Held
<1>6. n \in Nat
  BY <1>1
<1> HIDE DEF x, t
<1>7. Content(x, Bytes(sent), lossAt)
  BY <1>2, <1>3, <1>4, ContentCut
<1>8. ContentInv'
  BY <1>5, <1>7 DEF ContentInv
<1>9. Gone' = Len(Bytes(sent)) - Len(x) /\ Gone = Len(Bytes(sent)) - Len(Held)
  BY <1>5 DEF Gone
<1>10. Gone' = Gone + n
  <2>1. Len(x) = Len(Held) - n
    BY <1>4 DEF Cut
  <2> QED BY <1>2, <1>6, <1>9, <2>1
<1> QED BY <1>8, <1>10

\* A parser that drops nothing in front of three bytes or more has a sync pair
\* there; what it drops holds none.
LEMMA SyncFront ==
  ASSUME toHost \in BOOLEAN, buf \in Seq(Nat)
  PROVE  /\ Misplaced = 0 /\ Len(buf) >= 3 => SyncAt(buf, 1)
         /\ Misplaced \in Nat
         /\ Misplaced > 0 => Misplaced < Len(buf)
         /\ \A i \in 1..Misplaced : ~SyncAt(buf, i)
         /\ ~toHost => Misplaced <= 1
<1>1. Len(buf) \in Nat
  OBVIOUS
<1>2. CASE toHost
  <2> DEFINE pairs == {i \in 1..(Len(buf) - 1) : SyncAt(buf, i)}
             c == CHOOSE i \in pairs : \A j \in pairs : i <= j
  <2>1. Misplaced = IF Len(buf) < 2 THEN 0 ELSE IF pairs = {} THEN Len(buf) - 1 ELSE c - 1
    BY <1>2 DEF Misplaced, FindSync
  <2>2. CASE Len(buf) < 2
    BY <1>1, <1>2, <2>1, <2>2
  <2>3. CASE Len(buf) >= 2 /\ pairs = {}
    <3>1. Misplaced = Len(buf) - 1
      BY <1>1, <2>1, <2>3
    <3>2. ASSUME NEW i \in 1..Misplaced PROVE ~SyncAt(buf, i)
      BY <2>3, <3>1
    <3>3. Misplaced # 0 /\ Misplaced \in Nat /\ Misplaced < Len(buf)
      BY <1>1, <2>3, <3>1
    <3> QED BY <1>2, <3>2, <3>3
  <2>4. CASE Len(buf) >= 2 /\ pairs # {}
    <3>1. pairs \subseteq Nat /\ \A i \in pairs : i >= 1 /\ i <= Len(buf) - 1 /\ SyncAt(buf, i)
      BY <1>1
    <3>2. \E i \in pairs : \A j \in pairs : i <= j
      <4> HIDE DEF pairs
      <4> QED BY <2>4, <3>1, LeastNatural
    <3>3. c \in pairs /\ \A j \in pairs : c <= j
      <4> HIDE DEF pairs
      <4> QED BY <3>2, Zenon
    <3>4. Misplaced = c - 1
      BY <1>1, <2>1, <2>4
    <3> HIDE DEF c
    <3>5. c \in Nat /\ c >= 1 /\ c <= Len(buf) - 1 /\ SyncAt(buf, c)
      <4> HIDE DEF pairs
      <4> QED BY <3>1, <3>3
    <3>6. ASSUME NEW i \in 1..Misplaced PROVE ~SyncAt(buf, i)
      <4>1. i \in 1..(Len(buf) - 1) /\ ~(c <= i)
        BY <1>1, <3>4, <3>5
      <4>2. ~(i \in pairs)
        <5> HIDE DEF pairs
        <5> QED BY <3>3, <4>1
      <4> QED BY <4>1, <4>2
    <3>7. Misplaced = 0 => SyncAt(buf, 1)
      <4>1. Misplaced = 0 => c = 1
        BY <3>4, <3>5
      <4> QED BY <3>5, <4>1
    <3>8. Misplaced \in Nat /\ Misplaced < Len(buf)
      BY <1>1, <3>4, <3>5
    <3> QED BY <1>2, <3>6, <3>7, <3>8
  <2> QED BY <1>1, <2>2, <2>3, <2>4
<1>3. CASE ~toHost
  <2>1. CASE Len(buf) >= 3 /\ ~SyncAt(buf, 1)
    <3>1. Misplaced = 1
      BY <1>3, <2>1 DEF Misplaced
    <3>2. \A i \in 1..1 : i = 1
      OBVIOUS
    <3> QED BY <1>1, <2>1, <3>1, <3>2
  <2>2. CASE ~(Len(buf) >= 3 /\ ~SyncAt(buf, 1))
    <3>1. Misplaced = 0
      BY <1>3, <2>2 DEF Misplaced
    <3> QED BY <2>2, <3>1
  <2> QED BY <2>1, <2>2
<1> QED BY <1>2, <1>3

\* What the steps below start from.
Damaged == LineInv /\ BytesInv /\ DamageInv

\* Types of such a state, and what a loss makes of it.
LEMMA DamagedFacts ==
  ASSUME Damaged
  PROVE  /\ toHost \in BOOLEAN /\ sent \in Seq(Frames(toHost)) /\ Len(sent) \in Nat
         /\ wire \in Seq(Nat) /\ chunk \in Seq(Nat) /\ buf \in Seq(Nat) /\ Len(buf) \in Nat
         /\ delivered \in Seq([mid : Nat, body : Seq(Nat)])
         /\ LargestFrame \in Nat /\ LargestFrame >= 6 /\ Capacity \in Nat
         /\ LargestFrame <= Capacity
         /\ toHost => Capacity = LargestFrame
         /\ lossAt > 0 /\ ~refused => Behind
         /\ IdleInv /\ ContentInv /\ SparedInv
<1>1. /\ toHost \in BOOLEAN /\ sent \in Seq(Frames(toHost)) /\ Len(sent) \in Nat
      /\ wire \in Seq(Nat) /\ chunk \in Seq(Nat) /\ buf \in Seq(Nat) /\ Len(buf) \in Nat
      /\ delivered \in Seq([mid : Nat, body : Seq(Nat)])
      /\ IdleInv /\ ContentInv /\ SparedInv
  BY DEF Damaged, LineInv, SourceInv, BytesInv, DamageInv
<1>2. /\ LargestFrame \in Nat /\ LargestFrame >= 6 /\ Capacity \in Nat /\ LargestFrame <= Capacity
      /\ toHost => Capacity = LargestFrame
  BY ProtocolAssumption, LineAssumption DEF LargestFrame, Capacity, HostCapacity
<1>3. lossAt > 0 /\ ~refused => Behind
  BY <1>1 DEF Behind
<1> QED BY <1>1, <1>2, <1>3

\* No frame begins among bytes without a sync pair.
LEMMA NoStart ==
  ASSUME Behind, Gone >= lossAt, NEW n \in Nat, n < Len(buf),
         \A i \in 1..n : ~SyncAt(buf, i), NEW k \in 0..(Len(sent) - 1)
  PROVE  ~(Gone <= Off(sent, k) /\ Off(sent, k) < Gone + n)
<1> SUFFICES ASSUME Gone <= Off(sent, k), Off(sent, k) < Gone + n PROVE FALSE
  OBVIOUS
<1>1. toHost \in BOOLEAN /\ sent \in Seq(Frames(toHost)) /\ Len(sent) \in Nat
  BY DEF Behind
<1>2. k \in Nat /\ k < Len(sent)
  BY <1>1
<1> DEFINE e == Encode(sent[k + 1])
           B == Bytes(sent)
<1>3. /\ Off(sent, k) \in Nat /\ sent[k + 1] \in Frames(toHost) /\ Len(e) \in Nat /\ Len(e) >= 4
      /\ \A i \in 1..Len(e) : B[Off(sent, k) + i] = e[i]
  BY <1>1, <1>2, OffsetNext
<1>4. e[1] = SyncFirst /\ e[2] = SyncSecond
  BY <1>3, EncodeShape
<1> DEFINE i == Off(sent, k) - Gone + 1
<1>5. /\ Len(Held) \in Nat /\ Len(Held) = Len(buf) + Len(chunk) + Len(wire)
      /\ Len(buf) \in Nat /\ Len(chunk) \in Nat /\ Len(wire) \in Nat
      /\ Gone \in Nat /\ lossAt \in 1..Len(B)
  BY BehindFacts
<1>6. \A l \in 1..Len(buf) : Held[l] = buf[l]
  BY BehindFacts
<1>7. /\ i \in 1..n /\ i \in 1..Len(buf) /\ i + 1 \in 1..Len(buf)
      /\ Gone + i = Off(sent, k) + 1 /\ Gone + (i + 1) = Off(sent, k) + 2
  <2> DEFINE o == Off(sent, k)
             g == Gone
             l == Len(buf)
  <2>1. o \in Nat /\ g \in Nat /\ l \in Nat /\ g <= o /\ o < g + n /\ n < l
    BY <1>3, <1>5
  <2> HIDE DEF o, g, l
  <2>2. /\ o - g + 1 \in 1..n /\ o - g + 1 \in 1..l /\ (o - g + 1) + 1 \in 1..l
        /\ g + (o - g + 1) = o + 1 /\ g + ((o - g + 1) + 1) = o + 2
    BY <2>1
  <2> QED BY <2>2 DEF o, g, l
<1> HIDE DEF i, e
<1>8. ASSUME NEW l \in 1..Len(buf) PROVE buf[l] = B[Gone + l]
  <2>1. l \in 1..Len(Held) /\ ~(Gone + l <= lossAt)
    BY <1>5
  <2>2. Held[l] = B[Place(Gone + l, lossAt)]
    BY <2>1 DEF Behind, ContentInv, Content, Gone
  <2> QED BY <1>6, <2>1, <2>2 DEF Place
<1>9. B[Off(sent, k) + 1] = e[1] /\ B[Off(sent, k) + 2] = e[2]
  <2>1. 1 \in 1..Len(e) /\ 2 \in 1..Len(e)
    BY <1>3
  <2> QED BY <1>3, <2>1
<1> HIDE DEF B
<1>10. buf[i] = SyncFirst /\ buf[i + 1] = SyncSecond
  BY <1>4, <1>7, <1>8, <1>9
<1>11. SyncAt(buf, i)
  BY <1>10 DEF SyncAt
<1> QED BY <1>7, <1>11

\* What a parser drops.
LEMMA DiscardDamage ==
  ASSUME Damaged, Resync \/ Reject
  PROVE  DamageInv'
<1>1. /\ toHost \in BOOLEAN /\ sent \in Seq(Frames(toHost)) /\ Len(sent) \in Nat
      /\ buf \in Seq(Nat) /\ Len(buf) \in Nat
      /\ LargestFrame \in Nat /\ LargestFrame >= 6 /\ Capacity \in Nat /\ LargestFrame <= Capacity
      /\ toHost => Capacity = LargestFrame
      /\ lossAt > 0 /\ ~refused => Behind
      /\ IdleInv /\ ContentInv /\ SparedInv
  BY DamagedFacts
<1>2. /\ Misplaced = 0 /\ Len(buf) >= 3 => SyncAt(buf, 1)
      /\ Misplaced \in Nat
      /\ Misplaced > 0 => Misplaced < Len(buf)
      /\ \A i \in 1..Misplaced : ~SyncAt(buf, i)
      /\ ~toHost => Misplaced <= 1
  BY <1>1, SyncFront
<1>3. PICK n \in {Misplaced, 1} :
         /\ Discard(n) /\ scanning
         /\ \/ n = Misplaced
            \/ n = 1 /\ Misplaced = 0 /\ Len(buf) >= 3 /\ (Size = 1 \/ TooLong)
  BY DEF Resync, Reject, Synced
<1>4. /\ n > 0 /\ buf' = SubSeq(buf, n + 1, Len(buf))
      /\ UNCHANGED <<toHost, wire, chunk, scanning, sent, delivered, lossAt, refused>>
  BY <1>3 DEF Discard, history
<1>5. n \in 1..Len(buf)
  BY <1>1, <1>2, <1>3, <1>4
<1>6. IdleInv'
  <2>1. Len(buf') = Len(buf) - n
    BY <1>1, <1>4, <1>5, CutShape DEF Cut
  <2>2. ~refused => Len(buf) <= Capacity
    BY <1>1 DEF IdleInv
  <2>3. Capacity' = Capacity
    BY <1>4 DEF Capacity
  <2>4. ~refused => Len(buf') <= Capacity
    BY <1>1, <1>5, <2>1, <2>2
  <2> QED BY <1>3, <1>4, <2>3, <2>4 DEF IdleInv
<1>7. CASE ~(lossAt > 0 /\ ~refused)
  BY <1>4, <1>6, <1>7 DEF DamageInv, ContentInv, SparedInv
<1>8. CASE lossAt > 0 /\ ~refused
  <2>1. Behind
    BY <1>1, <1>8
  <2>2. ContentInv' /\ Gone' = Gone + n
    BY <1>4, <1>5, <2>1, CutHeld
  <2>3. Gone \in Nat /\ lossAt \in Nat
    BY <2>1, BehindFacts
  <2>4. ASSUME Clean PROVE \E m \in 0..Len(sent) : Recovered(sent, delivered, Gone + n, lossAt, m)
    <3>1. CASE Gone < lossAt
      <4>1. n <= LargestFrame
        <5>1. Len(buf) <= Capacity
          BY <1>1, <1>8 DEF IdleInv
        <5> QED BY <1>1, <1>2, <1>3, <1>5, <5>1
      <4>2. Gone + n \in Nat /\ Gone + n <= lossAt + LargestFrame
        BY <1>1, <1>5, <2>3, <3>1, <4>1
      <4> DEFINE g == Gone + n
      <4>3. g \in Nat /\ g <= lossAt + LargestFrame
        BY <4>2
      <4> HIDE DEF g
      <4>4. 0 \in 0..Len(sent) /\ Recovered(sent, delivered, g, lossAt, 0)
        BY <1>1, <2>3, <4>3, NothingSpared
      <4> QED BY <4>4 DEF g
    <3>2. CASE Gone >= lossAt
      <4>1. n = Misplaced
        <5> SUFFICES ASSUME n = 1, Misplaced = 0, Len(buf) >= 3, Size = 1 \/ TooLong PROVE FALSE
          BY <1>3
        <5>1. SyncAt(buf, 1)
          BY <1>2
        <5>2. PICK k \in 0..(Len(sent) - 1) :
                 /\ sent[k + 1] \in Frames(toHost)
                 /\ Len(buf) >= Len(Encode(sent[k + 1])) => Size = Len(Encode(sent[k + 1]))
                 /\ Len(buf) < Len(Encode(sent[k + 1])) =>
                       Size = 0 \/ Size = Len(Encode(sent[k + 1]))
                 /\ Len(Encode(sent[k + 1])) <= Capacity
          BY <2>1, <2>4, <3>2, <5>1, InStep
        <5> DEFINE l == Len(Encode(sent[k + 1]))
        <5>3. l \in Nat /\ l >= 4 /\ l <= Capacity
          BY <1>1, <5>2, FrameFits
        <5>4. (Len(buf) >= l => Size = l) /\ (Len(buf) < l => Size = 0 \/ Size = l)
          BY <5>2
        <5> HIDE DEF l
        <5>5. Size = 0 \/ Size = l
          BY <1>1, <5>3, <5>4
        <5> QED BY <1>1, <5>3, <5>5 DEF TooLong
      <4>2. n \in Nat /\ n < Len(buf) /\ \A i \in 1..n : ~SyncAt(buf, i)
        BY <1>2, <1>4, <4>1
      <4>3. \A k \in 0..(Len(sent) - 1) : ~(Gone <= Off(sent, k) /\ Off(sent, k) < Gone + n)
        BY <2>1, <3>2, <4>2, NoStart
      <4>4. PICK m \in 0..Len(sent) : Recovered(sent, delivered, Gone, lossAt, m)
        BY <1>1, <1>8, <2>4 DEF SparedInv
      <4>5. Recovered(sent, delivered, Gone + n, lossAt, m)
        BY <1>1, <2>3, <4>2, <4>3, <4>4, JunkGoes
      <4> QED BY <4>5
    <3> QED BY <2>3, <3>1, <3>2
  <2>5. Clean' = Clean
    BY <1>4 DEF Clean, Starts
  <2>6. SparedInv'
    BY <1>4, <2>2, <2>4, <2>5 DEF SparedInv
  <2> QED BY <1>6, <2>2, <2>6 DEF DamageInv
<1> QED BY <1>7, <1>8

\* A frame that is handled.
LEMMA ConsumeDamage ==
  ASSUME Damaged, Complete, Consume, UNCHANGED <<lossAt, refused>>
  PROVE  DamageInv'
<1> DEFINE S == [mid : Nat, body : Seq(Nat)]
<1>1. /\ toHost \in BOOLEAN /\ sent \in Seq(Frames(toHost)) /\ Len(sent) \in Nat
      /\ buf \in Seq(Nat) /\ Len(buf) \in Nat /\ delivered \in Seq(S)
      /\ LargestFrame \in Nat /\ Capacity \in Nat
      /\ lossAt > 0 /\ ~refused => Behind
      /\ IdleInv /\ ContentInv /\ SparedInv
  BY DamagedFacts
<1>2. /\ scanning /\ Misplaced = 0 /\ Len(buf) >= 3 /\ Size > 1 /\ ~TooLong /\ Len(buf) >= Size
      /\ Size \in Nat /\ Size <= LargestFrame
  BY <1>1, SizeBound DEF Complete, Synced
<1>3. Current \in S
  BY <1>1, HandledShape
<1> HIDE DEF S
<1>4. /\ buf' = SubSeq(buf, Size + 1, Len(buf)) /\ delivered' = Append(delivered, Current)
      /\ UNCHANGED <<toHost, wire, chunk, scanning, sent, lossAt, refused>>
  BY DEF Consume
<1>5. Size \in 1..Len(buf)
  BY <1>1, <1>2
<1> DEFINE n == Size
<1>6. n \in Nat /\ n \in 1..Len(buf) /\ n <= LargestFrame /\ buf' = SubSeq(buf, n + 1, Len(buf))
  BY <1>2, <1>4, <1>5
<1>7. SyncAt(buf, 1)
  BY <1>1, <1>2, SyncFront
<1>8. IdleInv'
  <2> HIDE DEF n
  <2>1. Len(buf') = Len(buf) - n
    BY <1>1, <1>6, CutShape DEF Cut
  <2>2. ~refused => Len(buf) <= Capacity
    BY <1>1 DEF IdleInv
  <2>3. Capacity' = Capacity
    BY <1>4 DEF Capacity
  <2>4. ~refused => Len(buf') <= Capacity
    BY <1>1, <1>6, <2>1, <2>2
  <2> QED BY <1>2, <1>4, <2>3, <2>4 DEF IdleInv
<1>9. CASE ~(lossAt > 0 /\ ~refused)
  BY <1>4, <1>8, <1>9 DEF DamageInv, ContentInv, SparedInv
<1>10. CASE lossAt > 0 /\ ~refused
  <2>1. Behind
    BY <1>1, <1>10
  <2>2. ContentInv' /\ Gone' = Gone + n
    <3> HIDE DEF n
    <3> QED BY <1>4, <1>6, <2>1, CutHeld
  <2>3. Gone \in Nat /\ lossAt \in Nat
    BY <2>1, BehindFacts
  <2>4. ASSUME Clean PROVE \E m \in 0..Len(sent) : Recovered(sent, delivered', Gone + n, lossAt, m)
    <3>1. CASE Gone < lossAt
      <4> DEFINE g == Gone + n
      <4>1. g \in Nat /\ g <= lossAt + LargestFrame
        <5> HIDE DEF n
        <5> QED BY <1>1, <1>6, <2>3, <3>1
      <4> HIDE DEF g
      <4>2. 0 \in 0..Len(sent) /\ Recovered(sent, delivered', g, lossAt, 0)
        BY <1>1, <2>3, <4>1, NothingSpared
      <4> QED BY <4>2 DEF g
    <3>2. CASE Gone >= lossAt
      <4>1. PICK k \in 0..(Len(sent) - 1) :
               /\ Gone = Off(sent, k) /\ sent[k + 1] \in Frames(toHost)
               /\ Len(buf) >= Len(Encode(sent[k + 1])) =>
                     Size = Len(Encode(sent[k + 1])) /\ Decode(buf, Size) = sent[k + 1]
               /\ Len(buf) < Len(Encode(sent[k + 1])) =>
                     Size = 0 \/ Size = Len(Encode(sent[k + 1]))
        BY <1>2, <1>7, <2>1, <2>4, <3>2, InStep
      <4>2. k \in Nat /\ k < Len(sent)
        BY <1>1
      <4>3. /\ Len(Encode(sent[k + 1])) \in Nat
            /\ Off(sent, k + 1) = Off(sent, k) + Len(Encode(sent[k + 1]))
        BY <1>1, <4>2, OffsetNext
      <4>4. Size = Len(Encode(sent[k + 1])) /\ Current = sent[k + 1]
        <5> DEFINE l == Len(Encode(sent[k + 1]))
        <5>1. l \in Nat /\ (Len(buf) >= l => Size = l) /\ (Len(buf) < l => Size = 0 \/ Size = l)
          BY <4>1, <4>3
        <5> HIDE DEF l
        <5>2. Len(buf) >= l
          BY <1>1, <1>2, <5>1
        <5> QED BY <4>1, <5>2 DEF l, Current
      <4>5. Gone + n = Off(sent, k + 1)
        BY <4>1, <4>3, <4>4
      <4>6. PICK m \in 0..Len(sent) : Recovered(sent, delivered, Off(sent, k), lossAt, m)
        BY <1>1, <1>10, <2>4, <4>1 DEF SparedInv
      <4>7. \E j \in 0..Len(sent) :
               Recovered(sent, Append(delivered, sent[k + 1]), Off(sent, k + 1), lossAt, j)
        BY <1>1, <1>3, <2>3, <4>4, <4>6, FrameGoes
      <4> QED BY <1>4, <4>4, <4>5, <4>7
    <3> QED BY <2>3, <3>1, <3>2
  <2>5. Clean' = Clean
    BY <1>4 DEF Clean, Starts
  <2> HIDE DEF n
  <2>6. SparedInv'
    BY <1>4, <2>2, <2>4, <2>5 DEF SparedInv
  <2> QED BY <1>8, <2>2, <2>6 DEF DamageInv
<1> QED BY <1>9, <1>10

\* Steps that only move bytes between the line and the parser.
LEMMA MoveDamage ==
  ASSUME Damaged, UNCHANGED <<sent, delivered, lossAt, refused>>, Held' = Held, IdleInv'
  PROVE  DamageInv'
<1>1. ContentInv /\ SparedInv
  BY DamagedFacts
<1>2. Gone' = Gone
  BY DEF Gone
<1>3. Clean' = Clean
  BY DEF Clean, Starts
<1>4. ContentInv'
  BY <1>1 DEF ContentInv
<1>5. SparedInv'
  BY <1>1, <1>2, <1>3 DEF SparedInv
<1> QED BY <1>4, <1>5 DEF DamageInv

\* The parser takes the next byte.
LEMMA FeedDamage ==
  ASSUME Damaged, FeedByte
  PROVE  DamageInv'
<1>1. /\ toHost \in BOOLEAN /\ wire \in Seq(Nat) /\ chunk \in Seq(Nat) /\ buf \in Seq(Nat)
      /\ Len(buf) \in Nat /\ Capacity \in Nat /\ IdleInv
  BY DamagedFacts
<1>2. /\ chunk # <<>> /\ ~scanning /\ chunk' = Tail(chunk) /\ scanning' = TRUE
      /\ buf' = Append(IF Len(buf) = Capacity THEN Tail(buf) ELSE buf, Head(chunk))
      /\ UNCHANGED <<toHost, wire, sent, delivered, lossAt, refused>>
  BY DEF FeedByte, history
<1>3. CASE refused
  BY <1>2, <1>3 DEF DamageInv, IdleInv, ContentInv, SparedInv
<1>4. CASE ~refused
  <2>1. Idle
    BY <1>1, <1>2, <1>4 DEF IdleInv
  <2>2. Len(buf) < Capacity
    BY <1>1, <2>1, IdleHasRoom
  <2>3. buf' = Append(buf, Head(chunk))
    BY <1>1, <1>2, <2>2
  <2>4. AllBytes(<<>>, buf, chunk, wire)
    BY <1>1 DEF AllBytes
  <2>5. /\ Len(Append(buf, Head(chunk))) = Len(buf) + 1
        /\ Whole(<<>>, Append(buf, Head(chunk)), Tail(chunk), wire) = Whole(<<>>, buf, chunk, wire)
    BY <1>2, <2>4, MoveByte
  <2>6. Held' = Held
    BY <1>2, <2>3, <2>5 DEF Held
  <2>7. Capacity' = Capacity
    BY <1>2 DEF Capacity
  <2>8. Len(buf') <= Capacity
    BY <1>1, <2>2, <2>3, <2>5
  <2>9. IdleInv'
    BY <1>2, <2>7, <2>8 DEF IdleInv
  <2> QED BY <1>2, <2>6, <2>9, MoveDamage
<1> QED BY <1>3, <1>4

\* A read.
LEMMA ReadDamage ==
  ASSUME Damaged, Read
  PROVE  DamageInv'
<1>1. wire \in Seq(Nat) /\ chunk \in Seq(Nat) /\ buf \in Seq(Nat) /\ IdleInv
  BY DamagedFacts
<1>2. /\ chunk = <<>> /\ wire # <<>>
      /\ UNCHANGED <<toHost, buf, scanning, sent, delivered, lossAt, refused>>
  BY DEF Read, history
<1>3. PICK n \in IF toHost THEN {1} ELSE 1..Len(wire) :
         chunk' = SubSeq(wire, 1, n) /\ wire' = SubSeq(wire, n + 1, Len(wire))
  BY DEF Read
<1>4. n \in 1..Len(wire)
  <2>1. Len(wire) \in Nat /\ Len(wire) # 0
    BY <1>1, <1>2, EmptySeq
  <2> QED BY <1>3, <2>1
<1>5. chunk' \o wire' = wire
  BY <1>1, <1>3, <1>4, DivideLine
<1>6. chunk \o wire = wire
  BY <1>1, <1>2, ConcatEmptySeq
<1>7. Held' = Held
  BY <1>2, <1>5, <1>6, Zenon DEF Held, Whole
<1>8. IdleInv'
  BY <1>1, <1>2 DEF IdleInv, Idle, Misplaced, Size, TooLong, Capacity
<1> QED BY <1>2, <1>7, <1>8, MoveDamage

\* The parser leaves its loop, or gives up a read.
LEMMA LeaveDamage ==
  ASSUME Damaged, NeedMore \/ RefuseXrce
  PROVE  DamageInv'
<1>1. CASE RefuseXrce
  <2>1. refused' = TRUE
    BY <1>1 DEF RefuseXrce
  <2> QED BY <2>1 DEF DamageInv, IdleInv, ContentInv, SparedInv
<1>2. CASE NeedMore
  <2>1. UNCHANGED <<toHost, wire, chunk, buf, sent, delivered, lossAt, refused>>
    BY <1>2 DEF NeedMore, history
  <2>2. Idle
    BY <1>2 DEF NeedMore, Idle
  <2>3. IdleInv
    BY DamagedFacts
  <2>4. IdleInv'
    BY <2>1, <2>2, <2>3 DEF IdleInv, Idle, Misplaced, Size, TooLong, Capacity
  <2>5. Held' = Held
    BY <2>1 DEF Held
  <2> QED BY <2>1, <2>4, <2>5, MoveDamage
<1> QED BY <1>1, <1>2

\* Two sequences one after the other, byte by byte.
LEMMA Joint ==
  ASSUME NEW s \in Seq(Nat), NEW t \in Seq(Nat)
  PROVE  /\ s \o t \in Seq(Nat) /\ Len(s \o t) = Len(s) + Len(t)
         /\ Len(s) \in Nat /\ Len(t) \in Nat
         /\ \A i \in 1..Len(s) : (s \o t)[i] = s[i]
         /\ \A i \in 1..Len(t) : (s \o t)[Len(s) + i] = t[i]
<1> DEFINE u == s \o t
<1>1. Len(s) \in Nat /\ Len(t) \in Nat
  OBVIOUS
<1>2. u \in Seq(Nat) /\ Len(u) = Len(s) + Len(t)
  BY ConcatProperties
<1>3. \A i \in 1..(Len(s) + Len(t)) : u[i] = IF i <= Len(s) THEN s[i] ELSE t[i - Len(s)]
  BY ConcatProperties
<1> HIDE DEF u
<1>4. ASSUME NEW i \in 1..Len(s) PROVE u[i] = s[i]
  <2>1. i \in 1..(Len(s) + Len(t)) /\ i <= Len(s)
    BY <1>1
  <2> QED BY <1>3, <2>1
<1>5. ASSUME NEW i \in 1..Len(t) PROVE u[Len(s) + i] = t[i]
  <2>1. /\ Len(s) + i \in 1..(Len(s) + Len(t)) /\ ~(Len(s) + i <= Len(s))
        /\ (Len(s) + i) - Len(s) = i
    BY <1>1
  <2> QED BY <1>3, <2>1
<1> QED BY <1>1, <1>2, <1>4, <1>5 DEF u

\* What is added at the end of the bytes is added at the end of what is held.
LEMMA ContentGrows ==
  ASSUME NEW h \in Seq(Nat), NEW bytes \in Seq(Nat), NEW p, Content(h, bytes, p), NEW e \in Seq(Nat)
  PROVE  Content(h \o e, bytes \o e, p) /\ Len(bytes \o e) - Len(h \o e) = Len(bytes) - Len(h)
<1> DEFINE u == h \o e
           v == bytes \o e
           g == Len(bytes) - Len(h)
<1>1. /\ Len(h) \in Nat /\ Len(bytes) \in Nat /\ Len(e) \in Nat
      /\ Len(u) = Len(h) + Len(e) /\ Len(v) = Len(bytes) + Len(e)
  BY Joint
<1>2. /\ \A i \in 1..Len(h) : u[i] = h[i]
      /\ \A i \in 1..Len(e) : u[Len(h) + i] = e[i]
  BY Joint
<1>3. /\ \A i \in 1..Len(bytes) : v[i] = bytes[i]
      /\ \A i \in 1..Len(e) : v[Len(bytes) + i] = e[i]
  BY Joint
<1>4. p \in 1..Len(bytes) /\ g >= 1
  BY DEF Content
<1>5. \A i \in 1..Len(h) : h[i] = bytes[Place(g + i, p)]
  BY DEF Content
<1>6. Len(v) - Len(u) = g /\ g \in Int /\ Len(bytes) = g + Len(h) /\ p \in 1..Len(v)
  BY <1>1, <1>4
<1> HIDE DEF u, v, g
<1>7. ASSUME NEW i \in 1..Len(u) PROVE u[i] = v[Place(g + i, p)]
  <2>1. CASE i <= Len(h)
    <3>1. i \in 1..Len(h)
      BY <1>1, <2>1
    <3>2. Place(g + i, p) \in 1..Len(bytes)
      BY SMTT(40), <1>1, <1>4, <1>6, <3>1 DEF Place
    <3> DEFINE a == Place(g + i, p)
    <3>3. h[i] = bytes[a] /\ a \in 1..Len(bytes)
      BY <1>5, <3>1, <3>2
    <3> HIDE DEF a
    <3>4. u[i] = v[a]
      BY <1>2, <1>3, <3>1, <3>3
    <3> QED BY <3>4 DEF a
  <2>2. CASE i > Len(h)
    <3> DEFINE j == i - Len(h)
    <3>1. j \in 1..Len(e) /\ i = Len(h) + j /\ g + i = Len(bytes) + j /\ ~(g + i <= p)
      BY <1>1, <1>4, <1>6, <2>2
    <3>2. Place(g + i, p) = g + i
      BY <3>1 DEF Place
    <3> HIDE DEF j
    <3>3. u[Len(h) + j] = e[j] /\ v[Len(bytes) + j] = e[j]
      BY <1>2, <1>3, <3>1
    <3> QED BY <3>1, <3>2, <3>3
  <2> QED BY <1>1, <2>1, <2>2
<1>8. Content(u, v, p)
  BY <1>4, <1>6, <1>7 DEF Content
<1>9. Len(v) - Len(u) = Len(bytes) - Len(h)
  BY <1>6 DEF g
<1> QED BY <1>8, <1>9 DEF u, v

\* A frame more leaves the others where they are,
LEMMA OffsetsStay ==
  ASSUME toHost \in BOOLEAN, NEW s \in Seq(Frames(toHost)), NEW f \in Frames(toHost),
         NEW k \in 0..Len(s)
  PROVE  Off(Append(s, f), k) = Off(s, k)
<1> DEFINE F == Frames(toHost)
           t == Append(s, f)
<1>1. /\ t \in Seq(F) /\ Len(t) = Len(s) + 1 /\ Len(s) \in Nat /\ k \in Nat
      /\ \A i \in 1..Len(s) : t[i] = s[i]
  <2> HIDE DEF F
  <2> QED BY AppendProperties DEF F
<1>2. SubSeq(t, 1, k) = SubSeq(s, 1, k)
  <2> HIDE DEF t, F
  <2>1. \A i \in 1..k : s[i] \in F /\ t[i] = s[i] /\ t[i] \in F
    BY <1>1 DEF F
  <2> DEFINE u == SubSeq(t, 1, k)
             v == SubSeq(s, 1, k)
  <2>2. /\ u \in Seq(F) /\ Len(u) = (IF 1 <= k THEN k - 1 + 1 ELSE 0)
        /\ \A i \in 1..(k - 1 + 1) : u[i] = t[1 + i - 1]
    BY <1>1, <2>1, SubSeqProperties
  <2>3. /\ v \in Seq(F) /\ Len(v) = (IF 1 <= k THEN k - 1 + 1 ELSE 0)
        /\ \A i \in 1..(k - 1 + 1) : v[i] = s[1 + i - 1]
    BY <1>1, <2>1, SubSeqProperties
  <2> HIDE DEF u, v
  <2>4. ASSUME NEW i \in 1..Len(u) PROVE u[i] = v[i]
    <3>1. i \in 1..(k - 1 + 1) /\ i \in 1..k /\ 1 + i - 1 = i
      BY <1>1, <2>2
    <3> QED BY <2>1, <2>2, <2>3, <3>1
  <2>5. Len(u) = Len(v)
    BY <2>2, <2>3
  <2>6. u = v
    BY <2>2, <2>3, <2>4, <2>5, SeqEqual
  <2> QED BY <2>6 DEF u, v
<1> HIDE DEF t
<1>3. Off(t, k) = Off(s, k)
  BY <1>2, Zenon DEF Off
<1> QED BY <1>3 DEF t

\* and is not damaged.
LEMMA FrameAdded ==
  ASSUME toHost \in BOOLEAN, NEW s \in Seq(Frames(toHost)), NEW f \in Frames(toHost), NEW d,
         NEW g \in Nat, g <= Len(Bytes(s)), NEW p, NEW m \in 0..Len(s), Recovered(s, d, g, p, m)
  PROVE  m \in 0..Len(Append(s, f)) /\ Recovered(Append(s, f), d, g, p, m)
<1> DEFINE t == Append(s, f)
<1>1. Len(t) = Len(s) + 1 /\ Len(s) \in Nat /\ \A i \in 1..Len(s) : t[i] = s[i]
  <2> DEFINE F == Frames(toHost)
  <2> HIDE DEF F
  <2> QED BY AppendProperties DEF F
<1>2. \A k \in 0..Len(s) : Off(t, k) = Off(s, k)
  BY OffsetsStay
<1>3. Off(s, Len(s)) = Len(Bytes(s))
  BY Offsets
<1> HIDE DEF t
<1>4. Off(t, m) <= g
  BY <1>2 DEF Recovered
<1>5. ASSUME NEW k \in 1..m, Spared(t, p, k) PROVE m - k < Len(d) /\ d[Len(d) - (m - k)] = t[k]
  <2>1. k \in 1..Len(s) /\ k - 1 \in 0..Len(s)
    BY <1>1
  <2>2. Off(t, k - 1) = Off(s, k - 1) /\ t[k] = s[k]
    BY <1>1, <1>2, <2>1
  <2>3. Spared(s, p, k)
    BY <1>5, <2>2 DEF Spared
  <2> QED BY <2>2, <2>3 DEF Recovered
<1>6. ASSUME NEW k \in (m + 1)..Len(t), Spared(t, p, k) PROVE g <= Off(t, k - 1)
  <2>1. CASE k <= Len(s)
    <3>1. k \in (m + 1)..Len(s) /\ k - 1 \in 0..Len(s)
      BY <1>1, <2>1
    <3>2. Off(t, k - 1) = Off(s, k - 1)
      BY <1>2, <3>1
    <3>3. Spared(s, p, k)
      BY <1>6, <3>2 DEF Spared
    <3>4. g <= Off(s, k - 1)
      BY <3>1, <3>3 DEF Recovered
    <3> QED BY <3>2, <3>4
  <2>2. CASE k = Len(s) + 1
    <3>1. k - 1 = Len(s) /\ Len(s) \in 0..Len(s)
      BY <1>1, <2>2
    <3>2. Off(t, Len(s)) = Len(Bytes(s))
      BY <1>2, <1>3, <3>1
    <3> QED BY <3>1, <3>2
  <2> QED BY <1>1, <2>1, <2>2
<1>7. m \in 0..Len(t)
  BY <1>1
<1>8. Recovered(t, d, g, p, m)
  BY <1>4, <1>5, <1>6 DEF Recovered
<1> QED BY <1>7, <1>8 DEF t

\* A frame put on the line.
LEMMA PutDamage ==
  ASSUME Damaged, NEW f \in Frames(toHost), Put(f), UNCHANGED <<lossAt, refused>>
  PROVE  DamageInv'
<1>1. /\ toHost \in BOOLEAN /\ sent \in Seq(Frames(toHost)) /\ Len(sent) \in Nat
      /\ wire \in Seq(Nat) /\ chunk \in Seq(Nat) /\ buf \in Seq(Nat)
      /\ lossAt > 0 /\ ~refused => Behind
      /\ IdleInv /\ ContentInv /\ SparedInv
  BY DamagedFacts
<1> DEFINE e == Encode(f)
           t == Append(sent, f)
<1>2. /\ sent' = t /\ wire' = wire \o e
      /\ UNCHANGED <<toHost, chunk, buf, scanning, delivered>>
  BY DEF Put
<1>3. IdleInv'
  BY <1>1, <1>2 DEF IdleInv, Idle, Misplaced, Size, TooLong, Capacity
<1>4. CASE ~(lossAt > 0 /\ ~refused)
  BY <1>3, <1>4 DEF DamageInv, ContentInv, SparedInv
<1>5. CASE lossAt > 0 /\ ~refused
  <2> DEFINE B == Bytes(sent)
  <2>1. Behind
    BY <1>1, <1>5
  <2>2. e \in Seq(Nat) /\ B \in Seq(Nat) /\ t \in Seq(Frames(toHost)) /\ Bytes(t) = B \o e
    BY <1>1, BytesAppend
  <2>3. /\ Held \in Seq(Nat) /\ Len(Held) \in Nat /\ Gone \in Nat /\ Gone + Len(Held) = Len(B)
        /\ Len(B) \in Nat /\ lossAt \in Nat
    BY <2>1, BehindFacts
  <2>4. Held' = Held \o e
    <3>1. AllBytes(<<>>, buf, chunk, wire)
      BY <1>1 DEF AllBytes
    <3> HIDE DEF e
    <3>2. Whole(<<>>, buf, chunk, wire) \o e = Whole(<<>>, buf, chunk, wire \o e)
      BY <2>2, <3>1, AddAtEnd
    <3> QED BY <1>2, <3>2 DEF Held
  <2> HIDE DEF e, B
  <2>5. Content(Held, B, lossAt)
    BY <1>1, <1>5 DEF ContentInv, B
  <2>6. Content(Held \o e, B \o e, lossAt) /\ Len(B \o e) - Len(Held \o e) = Len(B) - Len(Held)
    BY <2>2, <2>3, <2>5, ContentGrows
  <2>7. Bytes(sent)' = B \o e
    BY <1>2, <2>2
  <2>8. ContentInv'
    BY <2>4, <2>6, <2>7 DEF ContentInv
  <2>9. Gone' = Gone
    BY <2>4, <2>6, <2>7 DEF Gone, B
  <2>10. ASSUME Clean' PROVE Clean
    <3>1. ASSUME NEW i \in 1..(Len(B) - 1), SyncAt(B, i) PROVE i \in Starts
      <4>1. /\ Len(B \o e) = Len(B) + Len(e) /\ Len(e) \in Nat
            /\ \A j \in 1..Len(B) : (B \o e)[j] = B[j]
        BY <2>2, Joint
      <4>2. i \in 1..Len(B) /\ i + 1 \in 1..Len(B) /\ i \in 1..(Len(B \o e) - 1)
        BY <2>3, <4>1
      <4>3. SyncAt(B \o e, i)
        BY <3>1, <4>1, <4>2 DEF SyncAt
      <4>4. i \in Starts'
        BY <2>7, <2>10, <4>2, <4>3 DEF Clean
      <4>5. PICK k \in 0..(Len(t) - 1) : i = Off(t, k) + 1
        BY <1>2, <4>4 DEF Starts, Off
      <4>6. Len(t) = Len(sent) + 1
        <5> DEFINE F == Frames(toHost)
        <5>1. sent \in Seq(F) /\ f \in F
          BY <1>1
        <5> HIDE DEF F
        <5> QED BY <5>1, AppendProperties
      <4>7. k \in 0..Len(sent)
        BY <1>1, <4>6
      <4>8. Off(t, k) = Off(sent, k)
        BY <1>1, <4>7, OffsetsStay
      <4>9. k # Len(sent)
        <5>1. Off(sent, Len(sent)) = Len(B)
          BY <1>1, Offsets DEF B
        <5>2. Off(sent, k) # Len(B)
          BY <2>3, <4>2, <4>5, <4>8
        <5> QED BY <5>1, <5>2
      <4>10. k \in 0..(Len(sent) - 1) /\ i = Off(sent, k) + 1
        BY <1>1, <4>5, <4>7, <4>8, <4>9
      <4> QED BY <4>10 DEF Starts, Off
    <3> QED BY <3>1 DEF Clean, B
  <2>11. ASSUME Clean' PROVE (\E m \in 0..Len(sent) : Recovered(sent, delivered, Gone, lossAt, m))'
    <3>1. PICK m \in 0..Len(sent) : Recovered(sent, delivered, Gone, lossAt, m)
      BY <1>1, <1>5, <2>10, <2>11 DEF SparedInv
    <3>2. Gone <= Len(Bytes(sent))
      BY <2>3 DEF B
    <3>3. m \in 0..Len(t) /\ Recovered(t, delivered, Gone, lossAt, m)
      BY <1>1, <2>3, <3>1, <3>2, FrameAdded
    <3> HIDE DEF t
    <3> QED BY <1>2, <2>9, <3>3
  <2>12. SparedInv'
    BY <2>11 DEF SparedInv
  <2> QED BY <1>3, <2>8, <2>12 DEF DamageInv
<1> QED BY <1>4, <1>5

\* The lost byte.
LEMMA LoseDamage ==
  ASSUME Damaged, LoseByte
  PROVE  DamageInv'
<1>1. /\ toHost \in BOOLEAN /\ sent \in Seq(Frames(toHost)) /\ Len(sent) \in Nat
      /\ wire \in Seq(Nat) /\ chunk \in Seq(Nat) /\ buf \in Seq(Nat)
      /\ LargestFrame \in Nat /\ IdleInv
  BY DamagedFacts
<1> DEFINE B == Bytes(sent)
           r == Tail(wire)
           p == Len(B) - Len(wire) + 1
<1>2. /\ lossAt = 0 /\ wire # <<>> /\ wire' = r /\ lossAt' = p
      /\ UNCHANGED <<toHost, chunk, buf, scanning, sent, delivered, refused>>
  BY DEF LoseByte
<1>3. IdleInv'
  BY <1>1, <1>2 DEF IdleInv, Idle, Misplaced, Size, TooLong, Capacity
<1>4. CASE refused
  BY <1>2, <1>3, <1>4 DEF DamageInv, ContentInv, SparedInv
<1>5. CASE ~refused
  <2> DEFINE D == Bytes(delivered)
             H == Held
             h == Whole(<<>>, buf, chunk, r)
  <2>1. /\ Len(delivered) <= Len(sent) /\ delivered = SubSeq(sent, 1, Len(delivered))
        /\ B = D \o (buf \o (chunk \o wire))
    BY <1>2, <1>5 DEF Damaged, LineInv, ParseInv, Aligned
  <2>2. AllBytes(<<>>, buf, chunk, wire)
    BY <1>1 DEF AllBytes
  <2>3. Parts(H, buf, chunk, wire)
    BY <2>2, WholeParts DEF Held
  <2>4. buf \o (chunk \o wire) = H
    <3>1. buf \o (chunk \o wire) \in Seq(Nat)
      BY <1>1, ConcatProperties
    <3> QED BY <3>1, ConcatEmptySeq DEF Held, Whole
  <2>5. B \in Seq(Nat) /\ D \in Seq(Nat) /\ Len(delivered) \in Nat
    <3>1. delivered \in Seq([mid : Nat, body : Seq(Nat)])
      BY DamagedFacts
    <3>2. Len(delivered) \in Nat
      BY <3>1
    <3>3. Len(delivered) \in 0..Len(sent)
      BY <1>1, <2>1, <3>2
    <3> DEFINE F == Frames(toHost)
    <3>4. \A i \in 1..Len(delivered) : sent[i] \in F
      BY <1>1, <3>3
    <3>5. SubSeq(sent, 1, Len(delivered)) \in Seq(F)
      <4> HIDE DEF F
      <4> QED BY <3>2, <3>4, SubSeqProperties
    <3>6. delivered \in Seq(Frames(toHost))
      BY <2>1, <3>5
    <3> QED BY <1>1, <3>2, <3>6, Offsets
  <2>6. B = D \o H
    BY <2>1, <2>4
  <2>7. /\ r \in Seq(Nat) /\ Len(wire) \in Nat /\ Len(wire) >= 1 /\ Len(r) = Len(wire) - 1
        /\ \A i \in 1..Len(r) : r[i] = wire[i + 1]
    <3>1. Len(wire) \in Nat /\ Len(wire) # 0
      BY <1>1, <1>2, EmptySeq
    <3> QED BY <1>1, <1>2, <3>1, HeadTailProperties
  <2> HIDE DEF r, B, D, H
  <2>8. Parts(h, buf, chunk, r)
    <3>1. AllBytes(<<>>, buf, chunk, r)
      BY <1>1, <2>7 DEF AllBytes
    <3> QED BY <3>1, WholeParts
  <2> HIDE DEF h
  <2> DEFINE a == Len(buf)
             c == Len(chunk)
             w == Len(wire)
             d == Len(D)
  <2>9. /\ a \in Nat /\ c \in Nat /\ w \in Nat /\ w >= 1 /\ d \in Nat
        /\ Len(H) = a + c + w /\ Len(h) = a + c + (w - 1)
    BY SMTT(40), <1>1, <2>3, <2>5, <2>7, <2>8 DEF Parts
  <2>10. /\ Len(B) = d + Len(H)
         /\ \A i \in 1..Len(H) : B[d + i] = H[i]
    <3>1. H \in Seq(Nat)
      BY <2>3 DEF Parts
    <3>2. Len(D \o H) = Len(D) + Len(H) /\ \A i \in 1..Len(H) : (D \o H)[Len(D) + i] = H[i]
      BY <2>5, <3>1, Joint
    <3> QED BY <2>6, <3>2
  <2> DEFINE g == Len(B) - Len(h)
  <2>11. g = d + 1 /\ p = d + a + c + 1 /\ p \in 1..Len(B) /\ g \in Nat /\ g <= p
    BY <2>9, <2>10
  <2> HIDE DEF p, g
  <2>12. ASSUME NEW i \in 1..Len(h) PROVE h[i] = B[Place(g + i, p)]
    <3>0. i \in Nat /\ i >= 1 /\ i <= a + c + (w - 1)
      BY <2>9
    <3>1. CASE i <= a + c
      <4>1. i \in 1..Len(H) /\ Place(g + i, p) = d + i
        BY SMTT(40), <2>9, <2>11, <3>0, <3>1 DEF Place
      <4>2. h[i] = H[i]
        <5>1. CASE i <= a
          <6>1. i \in 1..Len(buf)
            BY <2>9, <3>0, <5>1
          <6> QED BY <2>3, <2>8, <6>1 DEF Parts
        <5>2. CASE i > a
          <6> DEFINE j == i - a
          <6>1. j \in 1..Len(chunk) /\ i = Len(buf) + j
            BY <2>9, <3>0, <3>1, <5>2
          <6> HIDE DEF j
          <6>2. h[Len(buf) + j] = chunk[j] /\ H[Len(buf) + j] = chunk[j]
            BY <2>3, <2>8, <6>1 DEF Parts
          <6> QED BY <6>1, <6>2
        <5> QED BY <2>9, <3>0, <5>1, <5>2
      <4>3. B[d + i] = H[i]
        BY <2>10, <4>1
      <4> QED BY <4>1, <4>2, <4>3
    <3>2. CASE i > a + c
      <4> DEFINE j == i - a - c
      <4>1. /\ j \in 1..Len(r) /\ j + 1 \in 1..Len(wire) /\ i + 1 \in 1..Len(H)
            /\ i = Len(buf) + Len(chunk) + j /\ i + 1 = Len(buf) + Len(chunk) + (j + 1)
        BY <2>7, <2>9, <3>0, <3>2
      <4>2. Place(g + i, p) = d + (i + 1)
        BY <2>9, <2>11, <3>0, <3>2 DEF Place
      <4> HIDE DEF j
      <4>3. h[Len(buf) + Len(chunk) + j] = r[j]
        BY <2>8, <4>1 DEF Parts
      <4>4. H[Len(buf) + Len(chunk) + (j + 1)] = wire[j + 1]
        BY <2>3, <4>1 DEF Parts
      <4>5. r[j] = wire[j + 1]
        BY <2>7, <4>1
      <4>6. B[d + (i + 1)] = H[i + 1]
        BY <2>10, <4>1
      <4>7. h[i] = H[i + 1]
        BY <4>1, <4>3, <4>4, <4>5
      <4> QED BY <4>2, <4>6, <4>7
    <3> QED BY <2>9, <3>0, <3>1, <3>2
  <2>13. Content(h, B, p)
    <3>1. g >= 1
      BY <2>9, <2>11
    <3> QED BY <2>11, <2>12, <3>1 DEF Content, g
  <2>14. Held' = h /\ Bytes(sent)' = B
    BY <1>2 DEF Held, h, B
  <2>15. ContentInv'
    BY <1>2, <2>13, <2>14 DEF ContentInv, p
  <2>16. Gone' = g
    BY <2>14 DEF Gone, g
  <2>17. 0 \in 0..Len(sent) /\ Recovered(sent, delivered, g, p, 0)
    <3>1. g <= p + LargestFrame /\ p \in Nat
      BY <1>1, <2>11
    <3> QED BY <1>1, <2>11, <3>1, NothingSpared
  <2>18. lossAt' = p
    BY <1>2 DEF p, B
  <2>19. SparedInv'
    BY <1>2, <2>16, <2>17, <2>18 DEF SparedInv
  <2> QED BY <1>3, <2>15, <2>19 DEF DamageInv
<1> QED BY <1>4, <1>5

\* Every step.
LEMMA DamageStep ==
  ASSUME Damaged, [LineNext]_lineVars
  PROVE  DamageInv'
<1>10. ASSUME UNCHANGED <<toHost, wire, chunk, buf, scanning, sent, delivered, lossAt, refused>>
       PROVE  DamageInv'
  <2>2. IdleInv
    BY DamagedFacts
  <2>3. IdleInv'
    BY <1>10, <2>2 DEF IdleInv, Idle, Misplaced, Size, TooLong, Capacity
  <2>4. Held' = Held
    BY <1>10 DEF Held
  <2> QED BY <1>10, <2>3, <2>4, MoveDamage
<1>1. CASE SendFromBoard
  <2>1. UNCHANGED <<lossAt, refused>>
    BY <1>1 DEF SendFromBoard, history
  <2>2. CASE UNCHANGED <<toHost, parser, sent, delivered>>
    BY <2>1, <2>2, <1>10 DEF parser
  <2> QED BY <1>1, <2>1, <2>2, PutDamage, SendersPut DEF Damaged
<1>2. CASE TakeTransmit
  <2>1. UNCHANGED <<lossAt, refused>>
    BY <1>2 DEF TakeTransmit, history
  <2> QED BY <1>2, <2>1, PutDamage, SendersPut DEF Damaged
<1>3. CASE ReceiveFromAgent \/ TransportRead \/ UNCHANGED lineVars
  BY <1>3, <1>10 DEF ReceiveFromAgent, TransportRead, lineVars, parser, history
<1>4. CASE LoseByte
  BY <1>4, LoseDamage
<1>5. CASE Read
  BY <1>5, ReadDamage
<1>6. CASE FeedByte
  BY <1>6, FeedDamage
<1>7. CASE Resync \/ Reject
  BY <1>7, DiscardDamage
<1>8. CASE NeedMore \/ RefuseXrce
  BY <1>8, LeaveDamage
<1>9. CASE HostHandles \/ BoardHandles \/ AcceptXrce
  <2>1. Complete /\ Consume /\ UNCHANGED <<lossAt, refused>>
    BY <1>9 DEF HostHandles, BoardHandles, AcceptXrce, history
  <2> QED BY <2>1, ConsumeDamage
<1> QED BY <1>1, <1>2, <1>3, <1>4, <1>5, <1>6, <1>7, <1>8, <1>9 DEF LineNext, Parse

\* And before the first one.
LEMMA DamageInit ==
  ASSUME LineInit
  PROVE  BytesInv /\ DamageInv
<1>1. BytesInv
  BY LineAssumption DEF LineInit, BytesInv
<1>2. buf = <<>> /\ Len(buf) = 0 /\ lossAt = 0 /\ toHost \in BOOLEAN /\ buf \in Seq(Nat)
  BY DEF LineInit
<1>3. Misplaced = 0
  BY <1>2 DEF Misplaced, FindSync
<1>4. Idle
  BY <1>2, <1>3 DEF Idle
<1>5. Capacity \in Nat
  BY ProtocolAssumption, LineAssumption DEF LargestFrame, Capacity, HostCapacity
<1>6. IdleInv
  BY <1>2, <1>4, <1>5 DEF IdleInv
<1>7. ContentInv /\ SparedInv
  BY <1>2 DEF ContentInv, SparedInv
<1> QED BY <1>1, <1>6, <1>7 DEF DamageInv

\* A sequence whose elements are the last ones of d, place by place, is a suffix
\* of it.
LEMMA SuffixByPlace ==
  ASSUME NEW S, NEW s \in Seq(S), NEW d \in Seq(S), Len(s) <= Len(d),
         \A i \in 1..Len(s) : d[Len(d) - Len(s) + i] = s[i]
  PROVE  IsSuffix(s, d)
<1> DEFINE rs == Reverse(s)
           rd == Reverse(d)
           n == Len(s)
<1>1. n \in Nat /\ Len(d) \in Nat
  OBVIOUS
<1>2. rs \in Seq(S) /\ Len(rs) = n /\ \A i \in 1..n : rs[i] = s[n - i + 1]
  <2>1. \A i \in 1..n : n - i + 1 \in 1..n
    BY <1>1
  <2> QED BY <2>1 DEF Reverse
<1>3. rd \in Seq(S) /\ Len(rd) = Len(d) /\ \A i \in 1..Len(d) : rd[i] = d[Len(d) - i + 1]
  <2>1. \A i \in 1..Len(d) : Len(d) - i + 1 \in 1..Len(d)
    BY <1>1
  <2> QED BY <2>1 DEF Reverse
<1>4. ASSUME NEW i \in 1..n PROVE rs[i] = rd[i]
  <2>1. /\ n - i + 1 \in 1..n /\ i \in 1..Len(d)
        /\ Len(d) - n + (n - i + 1) = Len(d) - i + 1
    BY <1>1
  <2>2. d[Len(d) - n + (n - i + 1)] = s[n - i + 1]
    BY <2>1
  <2>3. rs[i] = s[n - i + 1] /\ rd[i] = d[Len(d) - i + 1]
    BY <1>2, <1>3, <2>1
  <2> QED BY <2>1, <2>2, <2>3
<1> HIDE DEF rs, rd
<1>5. SubSeq(rs, 1, n) = SubSeq(rd, 1, n)
  <2>1. \A i \in 1..n : rs[i] \in S /\ rd[i] \in S
    BY <1>1, <1>2, <1>3
  <2> DEFINE u == SubSeq(rs, 1, n)
             v == SubSeq(rd, 1, n)
  <2>2. u \in Seq(S) /\ Len(u) = n /\ \A i \in 1..n : u[i] = rs[i]
    <3>1. u \in Seq(S) /\ Len(u) = IF 1 <= n THEN n - 1 + 1 ELSE 0
      BY <1>1, <2>1, SubSeqProperties
    <3>2. \A i \in 1..(n - 1 + 1) : u[i] = rs[1 + i - 1]
      BY <1>1, <2>1, SubSeqProperties
    <3> HIDE DEF u
    <3> QED BY <1>1, <3>1, <3>2
  <2>3. v \in Seq(S) /\ Len(v) = n /\ \A i \in 1..n : v[i] = rd[i]
    <3>1. v \in Seq(S) /\ Len(v) = IF 1 <= n THEN n - 1 + 1 ELSE 0
      BY <1>1, <2>1, SubSeqProperties
    <3>2. \A i \in 1..(n - 1 + 1) : v[i] = rd[1 + i - 1]
      BY <1>1, <2>1, SubSeqProperties
    <3> HIDE DEF v
    <3> QED BY <1>1, <3>1, <3>2
  <2>4. \A i \in 1..Len(u) : u[i] = v[i]
    BY <1>4, <2>2, <2>3
  <2> HIDE DEF u, v
  <2>5. u = v
    BY <2>2, <2>3, <2>4, SeqEqual
  <2> QED BY <2>5 DEF u, v
<1>6. IsPrefix(rs, rd)
  BY <1>1, <1>2, <1>3, <1>5 DEF IsPrefix
<1> QED BY <1>6 DEF IsSuffix, rs, rd

\* A parser that needs more bytes, with none on the way, has passed the byte
\* lost and stopped short of the end of no frame that the loss spares.
LEMMA DrainedPast ==
  ASSUME Behind, Clean, Idle, wire = <<>>, chunk = <<>>, Len(sent) >= 1,
         Spared(sent, lossAt, Len(sent)), Gone <= Off(sent, Len(sent) - 1)
  PROVE  FALSE
<1> DEFINE n == Len(sent)
           e == Encode(sent[n])
<1>1. toHost \in BOOLEAN /\ sent \in Seq(Frames(toHost)) /\ n \in Nat /\ n >= 1 /\ buf \in Seq(Nat)
  BY DEF Behind
<1>2. Len(wire) = 0 /\ Len(chunk) = 0
  OBVIOUS
<1>3. /\ Len(Held) = Len(buf) /\ Len(buf) \in Nat /\ Gone \in Nat
      /\ Gone + Len(buf) = Len(Bytes(sent)) /\ Len(Bytes(sent)) \in Nat
      /\ lossAt \in Nat /\ LargestFrame \in Nat
  <2>1. /\ Len(Held) = Len(buf) + Len(chunk) + Len(wire) /\ Len(buf) \in Nat
        /\ Gone \in Nat /\ Gone + Len(Held) = Len(Bytes(sent)) /\ Len(Bytes(sent)) \in Nat
        /\ lossAt \in 1..Len(Bytes(sent)) /\ LargestFrame \in Nat
    BY BehindFacts
  <2> QED BY <1>2, <2>1
<1>4. /\ Off(sent, n - 1) \in Nat /\ Len(e) \in Nat /\ Len(e) >= 4
      /\ Off(sent, n - 1) + Len(e) <= Len(Bytes(sent))
  <2>1. n - 1 \in Nat /\ n - 1 < Len(sent) /\ (n - 1) + 1 = n
    BY <1>1
  <2>2. /\ Off(sent, n - 1) \in Nat
        /\ Len(Encode(sent[(n - 1) + 1])) \in Nat /\ Len(Encode(sent[(n - 1) + 1])) >= 4
        /\ Off(sent, (n - 1) + 1) = Off(sent, n - 1) + Len(Encode(sent[(n - 1) + 1]))
        /\ Off(sent, (n - 1) + 1) <= Len(Bytes(sent))
    BY <1>1, <2>1, OffsetNext
  <2> QED BY <2>1, <2>2
<1>5. Len(buf) < LargestFrame
  BY <1>1, IdleHasRoom
<1>6. Off(sent, n - 1) >= lossAt + LargestFrame
  BY DEF Spared
<1> HIDE DEF n, e
<1>7. Gone >= lossAt /\ Len(buf) >= 4
  BY <1>3, <1>4, <1>5, <1>6 DEF n
<1>8. SyncAt(buf, 1)
  <2>1. Misplaced = 0 /\ Len(buf) >= 3
    BY <1>3, <1>7 DEF Idle
  <2> QED BY <1>1, <2>1, SyncFront
<1>9. PICK k \in 0..(Len(sent) - 1) :
            /\ Gone = Off(sent, k)
            /\ Len(buf) >= Len(Encode(sent[k + 1])) =>
                  Size = Len(Encode(sent[k + 1])) /\ Decode(buf, Size) = sent[k + 1]
  <2>1. Len(buf) >= 3
    BY <1>3, <1>7
  <2> QED BY <1>7, <1>8, <2>1, InStep
<1> DEFINE a == Encode(sent[k + 1])
<1>10. /\ Len(a) \in Nat /\ Len(a) >= 4 /\ Gone + Len(a) <= Len(Bytes(sent))
  <2>1. k \in Nat /\ k < Len(sent)
    BY <1>1 DEF n
  <2>2. /\ Len(a) \in Nat /\ Len(a) >= 4
        /\ Off(sent, k + 1) = Off(sent, k) + Len(a)
        /\ Off(sent, k + 1) <= Len(Bytes(sent))
    BY <1>1, <2>1, OffsetNext
  <2> QED BY <1>9, <2>2
<1>11. Size = Len(a)
  BY SMTT(40), <1>3, <1>9, <1>10
<1> HIDE DEF a
<1>12. Size \in Nat /\ Size >= 4 /\ Size <= Len(buf)
  BY <1>3, <1>10, <1>11
<1>13. Len(buf) < 3 \/ Size = 0 \/ Len(buf) < Size
  BY DEF Idle
<1> QED BY <1>3, <1>7, <1>12, <1>13

\* The invariant says what is promised of a lost byte.
LEMMA DamageFollows ==
  ASSUME Damaged
  PROVE  DamageIsLocal
<1> SUFFICES ASSUME Behind, Clean, Idle, wire = <<>>, chunk = <<>>, SparedInv,
                    lossAt > 0, ~refused
             PROVE  LET spared == {k \in 1..Len(sent) :
                                    Len(Bytes(SubSeq(sent, 1, k - 1))) >= lossAt + LargestFrame}
                        n == Len(sent) - (IF spared = {} THEN Len(sent)
                                          ELSE (CHOOSE k \in spared : \A j \in spared : k <= j) - 1)
                    IN  IsSuffix(SubSeq(sent, Len(sent) - n + 1, Len(sent)), delivered)
  <2>1. lossAt > 0 /\ ~refused => Behind
    BY DamagedFacts
  <2>2. IdleInv /\ SparedInv
    BY DamagedFacts
  <2> QED BY <2>1, <2>2 DEF DamageIsLocal, IdleInv
<1> DEFINE N == Len(sent)
           spared == {k \in 1..N : Len(Bytes(SubSeq(sent, 1, k - 1))) >= lossAt + LargestFrame}
           c == CHOOSE k \in spared : \A j \in spared : k <= j
           n == N - (IF spared = {} THEN N ELSE c - 1)
           t == SubSeq(sent, N - n + 1, N)
           S == [mid : Nat, body : Seq(Nat)] \cup Frames(toHost)
<1> SUFFICES IsSuffix(t, delivered)
  OBVIOUS
<1>1. /\ toHost \in BOOLEAN /\ sent \in Seq(Frames(toHost)) /\ N \in Nat
      /\ delivered \in Seq([mid : Nat, body : Seq(Nat)]) /\ Len(delivered) \in Nat
  BY DEF Behind
<1>2. sent \in Seq(S) /\ delivered \in Seq(S)
  <2> DEFINE F == Frames(toHost)
             R == [mid : Nat, body : Seq(Nat)]
  <2>1. F \subseteq S /\ R \subseteq S
    OBVIOUS
  <2>2. sent \in Seq(F) /\ delivered \in Seq(R)
    BY <1>1
  <2> HIDE DEF F, R, S
  <2> QED BY <2>1, <2>2
<1>3. \A k \in 1..N : k \in spared <=> Spared(sent, lossAt, k)
  BY DEF Spared, Off
<1>4. spared \subseteq Nat /\ \A k \in spared : k \in 1..N
  BY <1>1
<1> HIDE DEF S, spared
<1>5. CASE spared = {}
  <2>1. n = 0 /\ N - n + 1 = N + 1
    BY <1>1, <1>5
  <2>2. t = <<>>
    <3>1. t = SubSeq(sent, N + 1, N)
      BY <2>1
    <3>2. N + 1 \in Int /\ N \in Int /\ N < N + 1
      BY <1>1
    <3>3. SubSeq(sent, N + 1, N) = <<>>
      <4> HIDE DEF N
      <4> QED BY <3>2, SubSeqEmpty
    <3> QED BY <3>1, <3>3
  <2> HIDE DEF t
  <2>3. t \in Seq(S) /\ Len(t) = 0
    BY <2>2
  <2>4. Len(t) <= Len(delivered) /\ \A i \in 1..Len(t) : delivered[Len(delivered) - Len(t) + i] = t[i]
    BY <1>1, <2>3
  <2> QED BY <1>2, <2>3, <2>4, SuffixByPlace
<1>6. CASE spared # {}
  <2>1. \E k \in spared : \A j \in spared : k <= j
    BY <1>4, <1>6, LeastNatural
  <2>2. c \in spared /\ \A j \in spared : c <= j
    BY <2>1, Zenon
  <2>3. n = N - (c - 1)
    BY <1>6
  <2> HIDE DEF c, n
  <2>4. c \in 1..N
    BY <1>4, <2>2
  <2>5. N - n + 1 = c /\ n = N - c + 1
    BY <1>1, <2>3, <2>4
  <2>6. ASSUME NEW k \in c..N PROVE Spared(sent, lossAt, k)
    <3>1. Spared(sent, lossAt, c)
      BY <1>3, <2>2, <2>4
    <3>2. Off(sent, c - 1) >= lossAt + LargestFrame
      BY <3>1 DEF Spared
    <3>3. c - 1 \in 0..N /\ k - 1 \in 0..N /\ (c - 1 = k - 1 \/ c - 1 < k - 1)
      BY <1>1, <2>4
    <3>4. /\ \A j \in 0..N : Off(sent, j) \in Nat
          /\ \A i, j \in 0..N : i < j => Off(sent, i) + 4 <= Off(sent, j)
      BY <1>1, Offsets
    <3>5. Off(sent, c - 1) \in Nat /\ Off(sent, k - 1) \in Nat
      BY <3>3, <3>4
    <3>6. c - 1 < k - 1 => Off(sent, c - 1) + 4 <= Off(sent, k - 1)
      BY <3>3, <3>4
    <3>7. lossAt \in Nat /\ LargestFrame \in Nat
      <4>1. lossAt \in 1..Len(Bytes(sent)) /\ LargestFrame \in Nat /\ Len(Bytes(sent)) \in Nat
        BY BehindFacts
      <4> QED BY <4>1
    <3>8. c - 1 = k - 1 => Off(sent, c - 1) = Off(sent, k - 1)
      OBVIOUS
    <3>9. Off(sent, k - 1) >= lossAt + LargestFrame
      BY <3>2, <3>3, <3>5, <3>6, <3>7, <3>8
    <3> QED BY <3>9 DEF Spared
  <2>7. PICK m \in 0..N : Recovered(sent, delivered, Gone, lossAt, m)
    BY DEF SparedInv
  <2>8. m = N
    <3> SUFFICES ASSUME m # N PROVE FALSE
      OBVIOUS
    <3>1. N \in (m + 1)..N /\ N \in c..N /\ N >= 1
      BY <1>1, <2>4
    <3>2. Spared(sent, lossAt, N)
      BY <2>6, <3>1
    <3>3. Gone <= Off(sent, N - 1)
      BY <2>7, <3>1, <3>2 DEF Recovered
    <3> QED BY <3>1, <3>2, <3>3, DrainedPast
  <2>9. ASSUME NEW k \in c..N PROVE N - k < Len(delivered) /\ delivered[Len(delivered) - (N - k)] = sent[k]
    <3>1. k \in 1..m /\ Spared(sent, lossAt, k)
      BY <1>1, <2>4, <2>6, <2>8
    <3> QED BY <2>7, <2>8, <3>1 DEF Recovered
  <2>10. n <= Len(delivered) /\ n \in Nat
    <3>1. c \in c..N
      BY <1>1, <2>4
    <3>2. N - c < Len(delivered)
      BY <2>9, <3>1
    <3> QED BY <1>1, <2>4, <2>5, <3>2
  <2>11. \A i \in c..N : sent[i] \in S
    BY <1>2, <2>4
  <2>12. t = SubSeq(sent, c, N)
    BY <2>5
  <2>13. t \in Seq(S) /\ Len(t) = n
    <3>1. t \in Seq(S) /\ Len(t) = IF c <= N THEN N - c + 1 ELSE 0
      <4> HIDE DEF t
      <4> QED BY <1>1, <2>4, <2>11, <2>12, SubSeqProperties
    <3> HIDE DEF t
    <3> QED BY <1>1, <2>4, <2>5, <3>1
  <2>14. \A i \in 1..(N - c + 1) : t[i] = sent[c + i - 1]
    <3> HIDE DEF t
    <3> QED BY <1>1, <2>4, <2>11, <2>12, SubSeqProperties
  <2> HIDE DEF t
  <2>15. ASSUME NEW i \in 1..Len(t)
         PROVE  delivered[Len(delivered) - Len(t) + i] = t[i]
    <3>1. c + i - 1 \in c..N /\ i \in 1..(N - c + 1)
      BY <1>1, <2>4, <2>5, <2>13
    <3>2. Len(delivered) - (N - (c + i - 1)) = Len(delivered) - Len(t) + i
      BY <1>1, <2>4, <2>5, <2>13
    <3>3. delivered[Len(delivered) - (N - (c + i - 1))] = sent[c + i - 1]
      BY <2>9, <3>1
    <3>4. t[i] = sent[c + i - 1]
      BY <2>14, <3>1
    <3> QED BY <3>2, <3>3, <3>4
  <2>16. Len(t) <= Len(delivered)
    BY <2>10, <2>13
  <2> QED BY <1>2, <2>13, <2>15, <2>16, SuffixByPlace
<1> QED BY <1>5, <1>6

\* A lost byte does bounded harm in either parser (daq_protocol.c,
\* daqc_protocol.c): one that has lost its place finds the next sync pair, and
\* every frame that begins more than one largest frame behind the byte lost is
\* handled unchanged, for all frames whose bytes hold no other sync pair.
THEOREM LineDamageIsLocal == LineSpec => []DamageIsLocal
<1>1. LineInit => BytesInv /\ DamageInv
  BY DamageInit
<1>2. LineInv /\ BytesInv /\ [LineNext]_lineVars => BytesInv'
  BY BytesStep
<1>3. LineInv /\ BytesInv /\ DamageInv /\ [LineNext]_lineVars => DamageInv'
  BY DamageStep DEF Damaged
<1>4. LineInv /\ BytesInv /\ DamageInv => DamageIsLocal
  BY DamageFollows DEF Damaged
<1> QED BY <1>1, <1>2, <1>3, <1>4, LineInvariant, PTL DEF LineSpec
==============================================================================
