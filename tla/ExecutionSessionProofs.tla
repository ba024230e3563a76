----------------------- MODULE ExecutionSessionProofs -----------------------
(***************************************************************************)
(* Proofs about ExecutionSession.  The three invariants of the run follow  *)
(* from one inductive invariant, SessionInv, which says for every place of *)
(* the HiL worker and of the GUI thread who holds the session: which flags *)
(* may be set, which threads may exist, whether the simulation thread has  *)
(* its model, and which run the result is of.  The operator may import an  *)
(* FMU at any time; torn marks the runs whose start an import fell into.   *)
(***************************************************************************)
EXTENDS ExecutionSession, TLAPS

\* Nothing of a run is left in the session, but for what an import that fell
\* into its start leaves behind.
Quiet ==
    /\ ~threadStarted /\ ~prepared /\ logger = "off" /\ runtime = "off"
    /\ ~torn => simPc = "none" /\ ~runStarted

\* The simulation thread exists exactly while run_started is set, except
\* between its creation and HilStarted, which sets the flag, and after an
\* import in between.
ThreadInv ==
    /\ threadStarted => simPc # "none" /\ ~torn
    /\ runStarted => threadStarted \/ torn
    /\ simPc = "crashed" => torn
    /\ torn /\ simPc \notin {"none", "crashed"} => verdict = "Finished"
    /\ simPc \notin {"none", "crashed"} =>
         runStarted \/ hilPc = "started" \/ (torn /\ guiPc = "closed")
    /\ hilPc = "started" => (threadStarted \/ torn) /\ ~runStarted
    /\ hilPc = "join" => runStarted
    /\ hilPc \in {"preflight", "prepare", "publish", "daqc", "play", "daqcFailed",
                  "abort", "logging", "start"} => ~runStarted
    /\ hilPc \in {"begin", "stopDaqc", "finish"} => ~runStarted \/ torn

\* What the flags of GuiController say of the two kinds of run.
ScreenInv ==
    /\ screen = "Running" <=> guiRunStarted
    /\ hilRunStarted => guiRunStarted
    /\ ~HilIdle => hilRunStarted
    /\ guiRunStarted /\ ~hilRunStarted /\ guiPc # "closed"
         => runStarted /\ threadStarted /\ ~torn
    /\ guiPc = "join" => guiRunStarted /\ ~hilRunStarted
    /\ guiPc \in {"closeAbort", "closeJoin", "closed"} => HilIdle
    /\ guiPc = "closeJoin" => runStarted

\* The DAQC workers, the logger and the preparation exist only at the places
\* of the HiL worker, or of a debug run, that own them.
ResourceInv ==
    /\ runtime = "on" => hilPc \in {"play", "daqcFailed", "logging", "start",
                                    "started", "join", "stopDaqc"}
    /\ logger = "running" => prepared
    /\ logger = "running" /\ ~HilIdle => hilPc \in {"start", "started", "join"}
    /\ hilPc \in {"begin", "preflight", "prepare", "publish", "stopDaqc", "finish"}
         => ~prepared
    /\ torn /\ hilPc \in {"started", "join"} => ~prepared
    /\ HilIdle /\ (hilRunStarted \/ ~guiRunStarted) => Quiet

\* Only between Play and the worker's first step may a result be older than
\* the last Play that was accepted; the window's copy follows the session's.
ResultInv ==
    /\ result # "none" => resultOf = lastStarted \/ hilPc = "begin"
    /\ screen = "Running" => plays = lastStarted /\ runResult = 0
    /\ screen # "Running" => /\ runResult \in {0, lastStarted}
                             /\ result # "none" => runResult = resultOf

\* The inputs are there only with the instance; a thread that is not torn from
\* them has both, and one that is does not get them back.
ModelInv ==
    /\ inputReady => fmu = "instantiated"
    /\ simPc \in {"configure", "loop", "left", "release"} /\ ~torn => inputReady
    /\ torn /\ simPc \notin {"none", "crashed"} => ~inputReady

SessionInv ==
    TypeOK /\ ThreadInv /\ ScreenInv /\ ResourceInv /\ ResultInv /\ ModelInv

-----------------------------------------------------------------------------
\* The conjuncts of TypeOK one by one, as the provers read them.
FlagTypes ==
    /\ stopRequested \in BOOLEAN /\ producerDone \in BOOLEAN
    /\ hilActive \in BOOLEAN /\ prepared \in BOOLEAN /\ runStarted \in BOOLEAN
    /\ inputReady \in BOOLEAN /\ threadStarted \in BOOLEAN
    /\ guiRunStarted \in BOOLEAN /\ hilRunStarted \in BOOLEAN
    /\ stopAsked \in BOOLEAN /\ torn \in BOOLEAN

CountTypes ==
    /\ steps \in 0..MaxSteps /\ plays \in 0..MaxPlays
    /\ resultOf \in 0..plays /\ runResult \in 0..plays /\ lastStarted \in 0..plays

PlaceTypes ==
    /\ result \in Verdicts \cup {"none"}
    /\ verdict \in Verdicts
    /\ fmu \in {"none", "loaded", "instantiated"}
    /\ logger \in {"off", "running"}
    /\ runtime \in {"off", "on"}
    /\ simPc \in {"none", "configure", "loop", "left", "release", "logDone",
                  "publishDone", "exited", "crashed"}
    /\ hilPc \in {"none", "begin", "preflight", "prepare", "daqc", "play",
                  "publish", "daqcFailed", "abort", "logging", "start", "started", "join",
                  "stopDaqc", "finish", "done"}
    /\ guiPc \in {"idle", "join", "closeWait", "closeAbort", "closeJoin", "closed"}
    /\ screen \in Verdicts \cup {"Idle", "Running"}

\* The type invariant, variable by variable.
LEMMA TypeForms == TypeOK <=> FlagTypes /\ CountTypes /\ PlaceTypes
  BY DEF TypeOK, FlagTypes, CountTypes, PlaceTypes

\* Every step keeps the flags Boolean.
LEMMA FlagStep ==
    ASSUME SessionInv, [Next]_vars
    PROVE  FlagTypes'
PROOF
  <1> USE TypeForms DEF SessionInv, FlagTypes
  <1>1. CASE LoadFmu
    BY <1>1 DEF LoadFmu, Import, ClearRunState, gui, GuiAt, Alive
  <1>2. CASE StartRefused
    BY <1>2 DEF StartRefused, ClearRunState, Play, flags, GuiAt, Alive
  <1>3. CASE StartHilRefused
    BY <1>3 DEF StartHilRefused, Play, flags, outcome, context, gui, GuiAt,
        Alive
  <1>4. CASE StartSimulation
    BY <1>4 DEF StartSimulation, Play, Accepted, GuiAt, Alive
  <1>5. CASE StartHilSimulation
    BY <1>5 DEF StartHilSimulation, Play, flags, outcome, context, Accepted,
        GuiAt, Alive
  <1>6. CASE StopSimulation
    BY <1>6 DEF StopSimulation, StopGui, outcome, context, gui, GuiAt, Alive
  <1>7. CASE CloseWindow
    BY <1>7 DEF CloseWindow, StopGui, outcome, context, GuiAt, Alive
  <1>8. CASE PollHilFinished
    BY <1>8 DEF PollHilFinished, flags, outcome, context, history, ShowResult,
        GuiAt, Alive
  <1>9. CASE PollNotRunning
    BY <1>9 DEF PollNotRunning, flags, outcome, context, history, GuiAt, Alive
  <1>10. CASE PollJoined
    BY <1>10 DEF PollJoined, Join, history, ShowResult, outcome, GuiAt, Alive
  <1>11. CASE CloseWorkerDone
    BY <1>11 DEF CloseWorkerDone, HilIdle, flags, outcome, context, history,
        GuiAt, Alive
  <1>12. CASE CloseAbort
    BY <1>12 DEF CloseAbort, ClearRunState, outcome, history, GuiAt, Alive
  <1>13. CASE CloseJoined
    BY <1>13 DEF CloseJoined, ClearRunState, history, GuiAt, Alive
  <1>14. CASE HilBegin
    BY ZenonT(60), <1>14 DEF HilBegin, HilSteps, context, gui, history, Alive
  <1>15. CASE HilPreflight
    BY ZenonT(60), <1>15 DEF HilPreflight, HilSteps, outcome, context, gui, history, Alive
  <1>16. CASE HilPrepare
    BY ZenonT(60), <1>16 DEF HilPrepare, Prepare, HilSteps, flags, outcome, gui, history,
        Alive
  <1>17. CASE HilPrepared
    BY ZenonT(60), <1>17 DEF HilPrepared, HilSteps, outcome, gui, history, Alive
  <1>18. CASE HilDaqcStart
    BY <1>18 DEF HilDaqcStart, HilSteps, flags, outcome, context, gui,
        history, Alive
  <1>19. CASE HilDaqcAnswer
    BY <1>19 DEF HilDaqcAnswer, HilSteps, flags, outcome, context, gui,
        history, Alive
  <1>20. CASE HilDaqcFailed
    BY <1>20 DEF HilDaqcFailed, HilSteps, flags, outcome, context, gui,
        history, Alive
  <1>21. CASE HilAbort
    BY <1>21 DEF HilAbort, AbortPrepared, HilSteps, ClearRunState, gui,
        history, Alive
  <1>22. CASE HilStartLogging
    BY <1>22 DEF HilStartLogging, AbortPrepared, ClearRunState, flags,
        outcome, gui, history, Alive
  <1>23. CASE HilStart
    BY <1>23 DEF HilStart, AbortPrepared, HilSteps, ClearRunState, flags,
        outcome, gui, history, Alive
  <1>24. CASE HilStarted
    BY <1>24 DEF HilStarted, HilSteps, outcome, context, gui, history, Alive
  <1>25. CASE HilJoin
    BY <1>25 DEF HilJoin, Join, HilSteps, gui, history, outcome, Alive
  <1>26. CASE HilStopDaqc
    BY <1>26 DEF HilStopDaqc, HilSteps, flags, outcome, context, gui, history,
        Alive
  <1>27. CASE HilFinish
    BY <1>27 DEF HilFinish, HilSteps, outcome, context, gui, history, Alive
  <1>28. CASE SimConfigure
    BY <1>28 DEF SimConfigure, SimSteps, SimOnly, flags, outcome, gui, history
  <1>29. CASE SimStep
    BY <1>29 DEF SimStep, SimOnly, flags, outcome, gui, history
  <1>30. CASE SimLeaveLoop
    BY <1>30 DEF SimLeaveLoop, SimSteps, SimOnly, flags, outcome, gui, history
  <1>31. CASE SimVerdict
    BY <1>31 DEF SimVerdict, SimSteps, SimOnly, flags, outcome, gui, history
  <1>32. CASE ReleasePreparedSimulation
    BY <1>32 DEF ReleasePreparedSimulation, SimSteps, flags, outcome, gui,
        history
  <1>33. CASE SimLogDone
    BY <1>33 DEF SimLogDone, SimSteps, SimOnly, flags, outcome, gui, history
  <1>34. CASE SimPublishDone
    BY <1>34 DEF SimPublishDone, SimSteps, outcome, gui, history
  <1>35. CASE SimTorn
    BY <1>35 DEF SimTorn, SimOnly, flags, outcome, gui, history
  <1>36. CASE UNCHANGED vars
    BY <1>36 DEF vars, flags, outcome, context, gui, history
  <1> QED
    BY <1>1, <1>2, <1>3, <1>4, <1>5, <1>6, <1>7, <1>8, <1>9, <1>10, <1>11,
       <1>12, <1>13, <1>14, <1>15, <1>16, <1>17, <1>18, <1>19, <1>20, <1>21,
       <1>22, <1>23, <1>24, <1>25, <1>26, <1>27, <1>28, <1>29, <1>30, <1>31,
       <1>32, <1>33, <1>34, <1>35, <1>36
       DEF Next, Poll, Close, Hil, Sim

\* Every step keeps the counters in range: no result is of a Play that has not
\* happened.
LEMMA CountStep ==
    ASSUME SessionInv, [Next]_vars
    PROVE  CountTypes'
PROOF
  <1> USE SessionAssumption, TypeForms DEF SessionInv, CountTypes
  <1>1. CASE LoadFmu
    BY <1>1 DEF LoadFmu, Import, ClearRunState, gui, GuiAt, Alive
  <1>2. CASE StartRefused
    BY <1>2 DEF StartRefused, ClearRunState, Play, flags, GuiAt, Alive
  <1>3. CASE StartHilRefused
    BY <1>3 DEF StartHilRefused, Play, flags, outcome, context, gui, GuiAt,
        Alive
  <1>4. CASE StartSimulation
    BY <1>4 DEF StartSimulation, Play, Accepted, GuiAt, Alive
  <1>5. CASE StartHilSimulation
    BY <1>5 DEF StartHilSimulation, Play, flags, outcome, context, Accepted,
        GuiAt, Alive
  <1>6. CASE StopSimulation
    BY <1>6 DEF StopSimulation, StopGui, outcome, context, gui, GuiAt, Alive
  <1>7. CASE CloseWindow
    BY <1>7 DEF CloseWindow, StopGui, outcome, context, GuiAt, Alive
  <1>8. CASE PollHilFinished
    BY <1>8 DEF PollHilFinished, flags, outcome, context, history, ShowResult,
        GuiAt, Alive
  <1>9. CASE PollNotRunning
    BY <1>9 DEF PollNotRunning, flags, outcome, context, history, GuiAt, Alive
  <1>10. CASE PollJoined
    BY <1>10 DEF PollJoined, Join, history, ShowResult, outcome, GuiAt, Alive
  <1>11. CASE CloseWorkerDone
    BY <1>11 DEF CloseWorkerDone, HilIdle, flags, outcome, context, history,
        GuiAt, Alive
  <1>12. CASE CloseAbort
    BY <1>12 DEF CloseAbort, ClearRunState, outcome, history, GuiAt, Alive
  <1>13. CASE CloseJoined
    BY <1>13 DEF CloseJoined, ClearRunState, history, GuiAt, Alive
  <1>14. CASE HilBegin
    BY <1>14 DEF HilBegin, HilSteps, context, gui, history, Alive
  <1>15. CASE HilPreflight
    BY <1>15 DEF HilPreflight, HilSteps, outcome, context, gui, history, Alive
  <1>16. CASE HilPrepare
    BY <1>16 DEF HilPrepare, Prepare, HilSteps, flags, outcome, gui, history,
        Alive
  <1>17. CASE HilPrepared
    BY <1>17 DEF HilPrepared, HilSteps, outcome, gui, history, Alive
  <1>18. CASE HilDaqcStart
    BY <1>18 DEF HilDaqcStart, HilSteps, flags, outcome, context, gui,
        history, Alive
  <1>19. CASE HilDaqcAnswer
    BY <1>19 DEF HilDaqcAnswer, HilSteps, flags, outcome, context, gui,
        history, Alive
  <1>20. CASE HilDaqcFailed
    BY <1>20 DEF HilDaqcFailed, HilSteps, flags, outcome, context, gui,
        history, Alive
  <1>21. CASE HilAbort
    BY <1>21 DEF HilAbort, AbortPrepared, HilSteps, ClearRunState, gui,
        history, Alive
  <1>22. CASE HilStartLogging
    BY <1>22 DEF HilStartLogging, AbortPrepared, ClearRunState, flags,
        outcome, gui, history, Alive
  <1>23. CASE HilStart
    BY <1>23 DEF HilStart, AbortPrepared, HilSteps, ClearRunState, flags,
        outcome, gui, history, Alive
  <1>24. CASE HilStarted
    BY <1>24 DEF HilStarted, HilSteps, outcome, context, gui, history, Alive
  <1>25. CASE HilJoin
    BY <1>25 DEF HilJoin, Join, HilSteps, gui, history, outcome, Alive
  <1>26. CASE HilStopDaqc
    BY <1>26 DEF HilStopDaqc, HilSteps, flags, outcome, context, gui, history,
        Alive
  <1>27. CASE HilFinish
    BY <1>27 DEF HilFinish, HilSteps, outcome, context, gui, history, Alive
  <1>28. CASE SimConfigure
    BY <1>28 DEF SimConfigure, SimSteps, SimOnly, flags, outcome, gui, history
  <1>29. CASE SimStep
    BY <1>29 DEF SimStep, SimOnly, flags, outcome, gui, history
  <1>30. CASE SimLeaveLoop
    BY <1>30 DEF SimLeaveLoop, SimSteps, SimOnly, flags, outcome, gui, history
  <1>31. CASE SimVerdict
    BY <1>31 DEF SimVerdict, SimSteps, SimOnly, flags, outcome, gui, history
  <1>32. CASE ReleasePreparedSimulation
    BY <1>32 DEF ReleasePreparedSimulation, SimSteps, flags, outcome, gui,
        history
  <1>33. CASE SimLogDone
    BY <1>33 DEF SimLogDone, SimSteps, SimOnly, flags, outcome, gui, history
  <1>34. CASE SimPublishDone
    BY <1>34 DEF SimPublishDone, SimSteps, outcome, gui, history
  <1>35. CASE SimTorn
    BY <1>35 DEF SimTorn, SimOnly, flags, outcome, gui, history
  <1>36. CASE UNCHANGED vars
    BY <1>36 DEF vars, flags, outcome, context, gui, history
  <1> QED
    BY <1>1, <1>2, <1>3, <1>4, <1>5, <1>6, <1>7, <1>8, <1>9, <1>10, <1>11,
       <1>12, <1>13, <1>14, <1>15, <1>16, <1>17, <1>18, <1>19, <1>20, <1>21,
       <1>22, <1>23, <1>24, <1>25, <1>26, <1>27, <1>28, <1>29, <1>30, <1>31,
       <1>32, <1>33, <1>34, <1>35, <1>36
       DEF Next, Poll, Close, Hil, Sim

\* Every step keeps the places and verdicts: a result is never "Running".
LEMMA PlaceStep ==
    ASSUME SessionInv, [Next]_vars
    PROVE  PlaceTypes'
PROOF
  <1> USE TypeForms DEF SessionInv, PlaceTypes, Verdicts
  <1>1. CASE LoadFmu
    BY <1>1 DEF LoadFmu, Import, ClearRunState, gui, GuiAt, Alive
  <1>2. CASE StartRefused
    BY <1>2 DEF StartRefused, ClearRunState, Play, flags, GuiAt, Alive
  <1>3. CASE StartHilRefused
    BY <1>3 DEF StartHilRefused, Play, flags, outcome, context, gui, GuiAt,
        Alive
  <1>4. CASE StartSimulation
    BY <1>4 DEF StartSimulation, Play, Accepted, GuiAt, Alive
  <1>5. CASE StartHilSimulation
    BY <1>5 DEF StartHilSimulation, Play, flags, outcome, context, Accepted,
        GuiAt, Alive
  <1>6. CASE StopSimulation
    BY <1>6 DEF StopSimulation, StopGui, outcome, context, gui, GuiAt, Alive
  <1>7. CASE CloseWindow
    BY <1>7 DEF CloseWindow, StopGui, outcome, context, GuiAt, Alive
  <1>8. CASE PollHilFinished
    BY <1>8 DEF PollHilFinished, flags, outcome, context, history, ShowResult,
        GuiAt, Alive
  <1>9. CASE PollNotRunning
    BY <1>9 DEF PollNotRunning, flags, outcome, context, history, GuiAt, Alive
  <1>10. CASE PollJoined
    BY <1>10 DEF PollJoined, Join, history, ShowResult, outcome, GuiAt, Alive
  <1>11. CASE CloseWorkerDone
    BY <1>11 DEF CloseWorkerDone, HilIdle, flags, outcome, context, history,
        GuiAt, Alive
  <1>12. CASE CloseAbort
    BY <1>12 DEF CloseAbort, ClearRunState, outcome, history, GuiAt, Alive
  <1>13. CASE CloseJoined
    BY <1>13 DEF CloseJoined, ClearRunState, history, GuiAt, Alive
  <1>14. CASE HilBegin
    BY <1>14 DEF HilBegin, HilSteps, context, gui, history, Alive
  <1>15. CASE HilPreflight
    BY <1>15 DEF HilPreflight, HilSteps, outcome, context, gui, history, Alive
  <1>16. CASE HilPrepare
    BY <1>16 DEF HilPrepare, Prepare, HilSteps, flags, outcome, gui, history,
        Alive
  <1>17. CASE HilPrepared
    BY <1>17 DEF HilPrepared, HilSteps, outcome, gui, history, Alive
  <1>18. CASE HilDaqcStart
    BY <1>18 DEF HilDaqcStart, HilSteps, flags, outcome, context, gui,
        history, Alive
  <1>19. CASE HilDaqcAnswer
    BY <1>19 DEF HilDaqcAnswer, HilSteps, flags, outcome, context, gui,
        history, Alive
  <1>20. CASE HilDaqcFailed
    BY <1>20 DEF HilDaqcFailed, HilSteps, flags, outcome, context, gui,
        history, Alive
  <1>21. CASE HilAbort
    BY <1>21 DEF HilAbort, AbortPrepared, HilSteps, ClearRunState, gui,
        history, Alive
  <1>22. CASE HilStartLogging
    BY <1>22 DEF HilStartLogging, AbortPrepared, ClearRunState, flags,
        outcome, gui, history, Alive
  <1>23. CASE HilStart
    BY <1>23 DEF HilStart, AbortPrepared, HilSteps, ClearRunState, flags,
        outcome, gui, history, Alive
  <1>24. CASE HilStarted
    BY <1>24 DEF HilStarted, HilSteps, outcome, context, gui, history, Alive
  <1>25. CASE HilJoin
    BY <1>25 DEF HilJoin, Join, HilSteps, gui, history, outcome, Alive
  <1>26. CASE HilStopDaqc
    BY <1>26 DEF HilStopDaqc, HilSteps, flags, outcome, context, gui, history,
        Alive
  <1>27. CASE HilFinish
    BY <1>27 DEF HilFinish, HilSteps, outcome, context, gui, history, Alive
  <1>28. CASE SimConfigure
    BY <1>28 DEF SimConfigure, SimSteps, SimOnly, flags, outcome, gui, history
  <1>29. CASE SimStep
    BY <1>29 DEF SimStep, SimOnly, flags, outcome, gui, history
  <1>30. CASE SimLeaveLoop
    BY <1>30 DEF SimLeaveLoop, SimSteps, SimOnly, flags, outcome, gui, history
  <1>31. CASE SimVerdict
    BY <1>31 DEF SimVerdict, SimSteps, SimOnly, flags, outcome, gui, history
  <1>32. CASE ReleasePreparedSimulation
    BY <1>32 DEF ReleasePreparedSimulation, SimSteps, flags, outcome, gui,
        history
  <1>33. CASE SimLogDone
    BY <1>33 DEF SimLogDone, SimSteps, SimOnly, flags, outcome, gui, history
  <1>34. CASE SimPublishDone
    BY <1>34 DEF SimPublishDone, SimSteps, outcome, gui, history
  <1>35. CASE SimTorn
    BY <1>35 DEF SimTorn, SimOnly, flags, outcome, gui, history
  <1>36. CASE UNCHANGED vars
    BY SMTT(40), <1>36 DEF vars, flags, outcome, context, gui, history
  <1> QED
    BY <1>1, <1>2, <1>3, <1>4, <1>5, <1>6, <1>7, <1>8, <1>9, <1>10, <1>11,
       <1>12, <1>13, <1>14, <1>15, <1>16, <1>17, <1>18, <1>19, <1>20, <1>21,
       <1>22, <1>23, <1>24, <1>25, <1>26, <1>27, <1>28, <1>29, <1>30, <1>31,
       <1>32, <1>33, <1>34, <1>35, <1>36
       DEF Next, Poll, Close, Hil, Sim

\* Every step keeps the threads where the flags of the session and of the window
\* say they are.
LEMMA ThreadStep ==
    ASSUME SessionInv, [Next]_vars
    PROVE  (ThreadInv /\ ScreenInv)'
PROOF
  <1> USE DEF SessionInv, TypeOK, Verdicts, ThreadInv, ScreenInv, ResourceInv,
          Quiet, HilIdle
  <1>1. CASE LoadFmu
    BY <1>1 DEF LoadFmu, Import, ClearRunState, gui, GuiAt, Alive
  <1>2. CASE StartRefused
    BY <1>2 DEF StartRefused, ClearRunState, Play, flags, GuiAt, Alive
  <1>3. CASE StartHilRefused
    BY <1>3 DEF StartHilRefused, Play, flags, outcome, context, gui, GuiAt,
        Alive
  <1>4. CASE StartSimulation
    BY <1>4 DEF StartSimulation, Play, Accepted, GuiAt, Alive
  <1>5. CASE StartHilSimulation
    BY <1>5 DEF StartHilSimulation, Play, flags, outcome, context, Accepted,
        GuiAt, Alive
  <1>6. CASE StopSimulation
    BY <1>6 DEF StopSimulation, StopGui, outcome, context, gui, GuiAt, Alive
  <1>7. CASE CloseWindow
    BY <1>7 DEF CloseWindow, StopGui, outcome, context, GuiAt, Alive
  <1>8. CASE PollHilFinished
    BY <1>8 DEF PollHilFinished, flags, outcome, context, history, ShowResult,
        GuiAt, Alive
  <1>9. CASE PollNotRunning
    BY <1>9 DEF PollNotRunning, flags, outcome, context, history, GuiAt, Alive
  <1>10. CASE PollJoined
    BY <1>10 DEF PollJoined, Join, history, ShowResult, outcome, GuiAt, Alive
  <1>11. CASE CloseWorkerDone
    BY <1>11 DEF CloseWorkerDone, HilIdle, flags, outcome, context, history,
        GuiAt, Alive
  <1>12. CASE CloseAbort
    BY <1>12 DEF CloseAbort, ClearRunState, outcome, history, GuiAt, Alive
  <1>13. CASE CloseJoined
    BY <1>13 DEF CloseJoined, ClearRunState, history, GuiAt, Alive
  <1>14. CASE HilBegin
    BY <1>14 DEF HilBegin, HilSteps, context, gui, history, Alive
  <1>15. CASE HilPreflight
    BY <1>15 DEF HilPreflight, HilSteps, outcome, context, gui, history, Alive
  <1>16. CASE HilPrepare
    BY <1>16 DEF HilPrepare, Prepare, HilSteps, flags, outcome, gui, history,
        Alive
  <1>17. CASE HilPrepared
    BY <1>17 DEF HilPrepared, HilSteps, outcome, gui, history, Alive
  <1>18. CASE HilDaqcStart
    BY <1>18 DEF HilDaqcStart, HilSteps, flags, outcome, context, gui,
        history, Alive
  <1>19. CASE HilDaqcAnswer
    BY <1>19 DEF HilDaqcAnswer, HilSteps, flags, outcome, context, gui,
        history, Alive
  <1>20. CASE HilDaqcFailed
    BY <1>20 DEF HilDaqcFailed, HilSteps, flags, outcome, context, gui,
        history, Alive
  <1>21. CASE HilAbort
    BY <1>21 DEF HilAbort, AbortPrepared, HilSteps, ClearRunState, gui,
        history, Alive
  <1>22. CASE HilStartLogging
    BY <1>22 DEF HilStartLogging, AbortPrepared, ClearRunState, flags,
        outcome, gui, history, Alive
  <1>23. CASE HilStart
    BY <1>23 DEF HilStart, AbortPrepared, HilSteps, ClearRunState, flags,
        outcome, gui, history, Alive
  <1>24. CASE HilStarted
    BY <1>24 DEF HilStarted, HilSteps, outcome, context, gui, history, Alive
  <1>25. CASE HilJoin
    BY <1>25 DEF HilJoin, Join, HilSteps, gui, history, outcome, Alive
  <1>26. CASE HilStopDaqc
    BY <1>26 DEF HilStopDaqc, HilSteps, flags, outcome, context, gui, history,
        Alive
  <1>27. CASE HilFinish
    BY <1>27 DEF HilFinish, HilSteps, outcome, context, gui, history, Alive
  <1>28. CASE SimConfigure
    BY <1>28 DEF SimConfigure, SimSteps, SimOnly, flags, outcome, gui, history
  <1>29. CASE SimStep
    BY <1>29 DEF SimStep, SimOnly, flags, outcome, gui, history
  <1>30. CASE SimLeaveLoop
    BY <1>30 DEF SimLeaveLoop, SimSteps, SimOnly, flags, outcome, gui, history
  <1>31. CASE SimVerdict
    BY <1>31 DEF SimVerdict, SimSteps, SimOnly, flags, outcome, gui, history
  <1>32. CASE ReleasePreparedSimulation
    BY <1>32 DEF ReleasePreparedSimulation, SimSteps, flags, outcome, gui,
        history
  <1>33. CASE SimLogDone
    BY <1>33 DEF SimLogDone, SimSteps, SimOnly, flags, outcome, gui, history
  <1>34. CASE SimPublishDone
    BY <1>34 DEF SimPublishDone, SimSteps, outcome, gui, history
  <1>35. CASE SimTorn
    BY <1>35 DEF SimTorn, SimOnly, flags, outcome, gui, history
  <1>36. CASE UNCHANGED vars
    BY <1>36 DEF vars, flags, outcome, context, gui, history
  <1> QED
    BY <1>1, <1>2, <1>3, <1>4, <1>5, <1>6, <1>7, <1>8, <1>9, <1>10, <1>11,
       <1>12, <1>13, <1>14, <1>15, <1>16, <1>17, <1>18, <1>19, <1>20, <1>21,
       <1>22, <1>23, <1>24, <1>25, <1>26, <1>27, <1>28, <1>29, <1>30, <1>31,
       <1>32, <1>33, <1>34, <1>35, <1>36
       DEF Next, Poll, Close, Hil, Sim

\* Every step keeps who holds what a run takes.
LEMMA ResourceStep ==
    ASSUME SessionInv, [Next]_vars
    PROVE  ResourceInv'
PROOF
  <1> USE DEF SessionInv, TypeOK, Verdicts, ThreadInv, ScreenInv, ResourceInv,
          Quiet, HilIdle
  <1>1. CASE LoadFmu
    BY <1>1 DEF LoadFmu, Import, ClearRunState, gui, GuiAt, Alive
  <1>2. CASE StartRefused
    BY <1>2 DEF StartRefused, ClearRunState, Play, flags, GuiAt, Alive
  <1>3. CASE StartHilRefused
    BY <1>3 DEF StartHilRefused, Play, flags, outcome, context, gui, GuiAt,
        Alive
  <1>4. CASE StartSimulation
    BY <1>4 DEF StartSimulation, Play, Accepted, GuiAt, Alive
  <1>5. CASE StartHilSimulation
    BY <1>5 DEF StartHilSimulation, Play, flags, outcome, context, Accepted,
        GuiAt, Alive
  <1>6. CASE StopSimulation
    BY <1>6 DEF StopSimulation, StopGui, outcome, context, gui, GuiAt, Alive
  <1>7. CASE CloseWindow
    BY <1>7 DEF CloseWindow, StopGui, outcome, context, GuiAt, Alive
  <1>8. CASE PollHilFinished
    BY <1>8 DEF PollHilFinished, flags, outcome, context, history, ShowResult,
        GuiAt, Alive
  <1>9. CASE PollNotRunning
    BY <1>9 DEF PollNotRunning, flags, outcome, context, history, GuiAt, Alive
  <1>10. CASE PollJoined
    BY <1>10 DEF PollJoined, Join, history, ShowResult, outcome, GuiAt, Alive
  <1>11. CASE CloseWorkerDone
    BY <1>11 DEF CloseWorkerDone, HilIdle, flags, outcome, context, history,
        GuiAt, Alive
  <1>12. CASE CloseAbort
    BY <1>12 DEF CloseAbort, ClearRunState, outcome, history, GuiAt, Alive
  <1>13. CASE CloseJoined
    BY <1>13 DEF CloseJoined, ClearRunState, history, GuiAt, Alive
  <1>14. CASE HilBegin
    BY <1>14 DEF HilBegin, HilSteps, context, gui, history, Alive
  <1>15. CASE HilPreflight
    BY <1>15 DEF HilPreflight, HilSteps, outcome, context, gui, history, Alive
  <1>16. CASE HilPrepare
    BY <1>16 DEF HilPrepare, Prepare, HilSteps, flags, outcome, gui, history,
        Alive
  <1>17. CASE HilPrepared
    BY <1>17 DEF HilPrepared, HilSteps, outcome, gui, history, Alive
  <1>18. CASE HilDaqcStart
    BY <1>18 DEF HilDaqcStart, HilSteps, flags, outcome, context, gui,
        history, Alive
  <1>19. CASE HilDaqcAnswer
    BY <1>19 DEF HilDaqcAnswer, HilSteps, flags, outcome, context, gui,
        history, Alive
  <1>20. CASE HilDaqcFailed
    BY <1>20 DEF HilDaqcFailed, HilSteps, flags, outcome, context, gui,
        history, Alive
  <1>21. CASE HilAbort
    BY <1>21 DEF HilAbort, AbortPrepared, HilSteps, ClearRunState, gui,
        history, Alive
  <1>22. CASE HilStartLogging
    BY <1>22 DEF HilStartLogging, AbortPrepared, ClearRunState, flags,
        outcome, gui, history, Alive
  <1>23. CASE HilStart
    BY <1>23 DEF HilStart, AbortPrepared, HilSteps, ClearRunState, flags,
        outcome, gui, history, Alive
  <1>24. CASE HilStarted
    BY <1>24 DEF HilStarted, HilSteps, outcome, context, gui, history, Alive
  <1>25. CASE HilJoin
    BY <1>25 DEF HilJoin, Join, HilSteps, gui, history, outcome, Alive
  <1>26. CASE HilStopDaqc
    BY <1>26 DEF HilStopDaqc, HilSteps, flags, outcome, context, gui, history,
        Alive
  <1>27. CASE HilFinish
    BY <1>27 DEF HilFinish, HilSteps, outcome, context, gui, history, Alive
  <1>28. CASE SimConfigure
    BY <1>28 DEF SimConfigure, SimSteps, SimOnly, flags, outcome, gui, history
  <1>29. CASE SimStep
    BY <1>29 DEF SimStep, SimOnly, flags, outcome, gui, history
  <1>30. CASE SimLeaveLoop
    BY <1>30 DEF SimLeaveLoop, SimSteps, SimOnly, flags, outcome, gui, history
  <1>31. CASE SimVerdict
    BY <1>31 DEF SimVerdict, SimSteps, SimOnly, flags, outcome, gui, history
  <1>32. CASE ReleasePreparedSimulation
    BY <1>32 DEF ReleasePreparedSimulation, SimSteps, flags, outcome, gui,
        history
  <1>33. CASE SimLogDone
    BY <1>33 DEF SimLogDone, SimSteps, SimOnly, flags, outcome, gui, history
  <1>34. CASE SimPublishDone
    BY <1>34 DEF SimPublishDone, SimSteps, outcome, gui, history
  <1>35. CASE SimTorn
    BY <1>35 DEF SimTorn, SimOnly, flags, outcome, gui, history
  <1>36. CASE UNCHANGED vars
    BY <1>36 DEF vars, flags, outcome, context, gui, history
  <1> QED
    BY <1>1, <1>2, <1>3, <1>4, <1>5, <1>6, <1>7, <1>8, <1>9, <1>10, <1>11,
       <1>12, <1>13, <1>14, <1>15, <1>16, <1>17, <1>18, <1>19, <1>20, <1>21,
       <1>22, <1>23, <1>24, <1>25, <1>26, <1>27, <1>28, <1>29, <1>30, <1>31,
       <1>32, <1>33, <1>34, <1>35, <1>36
       DEF Next, Poll, Close, Hil, Sim

\* Every step keeps the result and the window's copy with the last run.
LEMMA ResultStep ==
    ASSUME SessionInv, [Next]_vars
    PROVE  ResultInv'
PROOF
  <1> USE DEF SessionInv, TypeOK, Verdicts, ScreenInv, ResultInv, HilIdle
  <1>1. CASE LoadFmu
    BY <1>1 DEF LoadFmu, Import, ClearRunState, gui, GuiAt, Alive
  <1>2. CASE StartRefused
    BY <1>2 DEF StartRefused, ClearRunState, Play, flags, GuiAt, Alive
  <1>3. CASE StartHilRefused
    BY <1>3 DEF StartHilRefused, Play, flags, outcome, context, gui, GuiAt,
        Alive
  <1>4. CASE StartSimulation
    BY <1>4 DEF StartSimulation, Play, Accepted, GuiAt, Alive
  <1>5. CASE StartHilSimulation
    BY <1>5 DEF StartHilSimulation, Play, flags, outcome, context, Accepted,
        GuiAt, Alive
  <1>6. CASE StopSimulation
    BY <1>6 DEF StopSimulation, StopGui, outcome, context, gui, GuiAt, Alive
  <1>7. CASE CloseWindow
    BY <1>7 DEF CloseWindow, StopGui, outcome, context, GuiAt, Alive
  <1>8. CASE PollHilFinished
    BY <1>8 DEF PollHilFinished, flags, outcome, context, history, ShowResult,
        GuiAt, Alive
  <1>9. CASE PollNotRunning
    BY <1>9 DEF PollNotRunning, flags, outcome, context, history, GuiAt, Alive
  <1>10. CASE PollJoined
    BY <1>10 DEF PollJoined, Join, history, ShowResult, outcome, GuiAt, Alive
  <1>11. CASE CloseWorkerDone
    BY <1>11 DEF CloseWorkerDone, HilIdle, flags, outcome, context, history,
        GuiAt, Alive
  <1>12. CASE CloseAbort
    BY <1>12 DEF CloseAbort, ClearRunState, outcome, history, GuiAt, Alive
  <1>13. CASE CloseJoined
    BY <1>13 DEF CloseJoined, ClearRunState, history, GuiAt, Alive
  <1>14. CASE HilBegin
    BY <1>14 DEF HilBegin, HilSteps, context, gui, history, Alive
  <1>15. CASE HilPreflight
    BY <1>15 DEF HilPreflight, HilSteps, outcome, context, gui, history, Alive
  <1>16. CASE HilPrepare
    BY <1>16 DEF HilPrepare, Prepare, HilSteps, flags, outcome, gui, history,
        Alive
  <1>17. CASE HilPrepared
    BY <1>17 DEF HilPrepared, HilSteps, outcome, gui, history, Alive
  <1>18. CASE HilDaqcStart
    BY <1>18 DEF HilDaqcStart, HilSteps, flags, outcome, context, gui,
        history, Alive
  <1>19. CASE HilDaqcAnswer
    BY <1>19 DEF HilDaqcAnswer, HilSteps, flags, outcome, context, gui,
        history, Alive
  <1>20. CASE HilDaqcFailed
    BY <1>20 DEF HilDaqcFailed, HilSteps, flags, outcome, context, gui,
        history, Alive
  <1>21. CASE HilAbort
    BY <1>21 DEF HilAbort, AbortPrepared, HilSteps, ClearRunState, gui,
        history, Alive
  <1>22. CASE HilStartLogging
    BY <1>22 DEF HilStartLogging, AbortPrepared, ClearRunState, flags,
        outcome, gui, history, Alive
  <1>23. CASE HilStart
    BY <1>23 DEF HilStart, AbortPrepared, HilSteps, ClearRunState, flags,
        outcome, gui, history, Alive
  <1>24. CASE HilStarted
    BY <1>24 DEF HilStarted, HilSteps, outcome, context, gui, history, Alive
  <1>25. CASE HilJoin
    BY <1>25 DEF HilJoin, Join, HilSteps, gui, history, outcome, Alive
  <1>26. CASE HilStopDaqc
    BY <1>26 DEF HilStopDaqc, HilSteps, flags, outcome, context, gui, history,
        Alive
  <1>27. CASE HilFinish
    BY <1>27 DEF HilFinish, HilSteps, outcome, context, gui, history, Alive
  <1>28. CASE SimConfigure
    BY <1>28 DEF SimConfigure, SimSteps, SimOnly, flags, outcome, gui, history
  <1>29. CASE SimStep
    BY <1>29 DEF SimStep, SimOnly, flags, outcome, gui, history
  <1>30. CASE SimLeaveLoop
    BY <1>30 DEF SimLeaveLoop, SimSteps, SimOnly, flags, outcome, gui, history
  <1>31. CASE SimVerdict
    BY <1>31 DEF SimVerdict, SimSteps, SimOnly, flags, outcome, gui, history
  <1>32. CASE ReleasePreparedSimulation
    BY <1>32 DEF ReleasePreparedSimulation, SimSteps, flags, outcome, gui,
        history
  <1>33. CASE SimLogDone
    BY <1>33 DEF SimLogDone, SimSteps, SimOnly, flags, outcome, gui, history
  <1>34. CASE SimPublishDone
    BY <1>34 DEF SimPublishDone, SimSteps, outcome, gui, history
  <1>35. CASE SimTorn
    BY <1>35 DEF SimTorn, SimOnly, flags, outcome, gui, history
  <1>36. CASE UNCHANGED vars
    BY <1>36 DEF vars, flags, outcome, context, gui, history
  <1> QED
    BY <1>1, <1>2, <1>3, <1>4, <1>5, <1>6, <1>7, <1>8, <1>9, <1>10, <1>11,
       <1>12, <1>13, <1>14, <1>15, <1>16, <1>17, <1>18, <1>19, <1>20, <1>21,
       <1>22, <1>23, <1>24, <1>25, <1>26, <1>27, <1>28, <1>29, <1>30, <1>31,
       <1>32, <1>33, <1>34, <1>35, <1>36
       DEF Next, Poll, Close, Hil, Sim

\* Every step leaves the model with its owner.
LEMMA ModelStep ==
    ASSUME SessionInv, [Next]_vars
    PROVE  ModelInv'
PROOF
  <1> USE DEF SessionInv, TypeOK, ThreadInv, ScreenInv, ModelInv, HilIdle
  <1>1. CASE LoadFmu
    BY <1>1 DEF LoadFmu, Import, ClearRunState, gui, GuiAt, Alive
  <1>2. CASE StartRefused
    BY <1>2 DEF StartRefused, ClearRunState, Play, flags, GuiAt, Alive
  <1>3. CASE StartHilRefused
    BY <1>3 DEF StartHilRefused, Play, flags, outcome, context, gui, GuiAt,
        Alive
  <1>4. CASE StartSimulation
    BY <1>4 DEF StartSimulation, Play, Accepted, GuiAt, Alive
  <1>5. CASE StartHilSimulation
    BY <1>5 DEF StartHilSimulation, Play, flags, outcome, context, Accepted,
        GuiAt, Alive
  <1>6. CASE StopSimulation
    BY <1>6 DEF StopSimulation, StopGui, outcome, context, gui, GuiAt, Alive
  <1>7. CASE CloseWindow
    BY <1>7 DEF CloseWindow, StopGui, outcome, context, GuiAt, Alive
  <1>8. CASE PollHilFinished
    BY <1>8 DEF PollHilFinished, flags, outcome, context, history, ShowResult,
        GuiAt, Alive
  <1>9. CASE PollNotRunning
    BY <1>9 DEF PollNotRunning, flags, outcome, context, history, GuiAt, Alive
  <1>10. CASE PollJoined
    BY <1>10 DEF PollJoined, Join, history, ShowResult, outcome, GuiAt, Alive
  <1>11. CASE CloseWorkerDone
    BY <1>11 DEF CloseWorkerDone, HilIdle, flags, outcome, context, history,
        GuiAt, Alive
  <1>12. CASE CloseAbort
    BY <1>12 DEF CloseAbort, ClearRunState, outcome, history, GuiAt, Alive
  <1>13. CASE CloseJoined
    BY <1>13 DEF CloseJoined, ClearRunState, history, GuiAt, Alive
  <1>14. CASE HilBegin
    BY <1>14 DEF HilBegin, HilSteps, context, gui, history, Alive
  <1>15. CASE HilPreflight
    BY <1>15 DEF HilPreflight, HilSteps, outcome, context, gui, history, Alive
  <1>16. CASE HilPrepare
    BY <1>16 DEF HilPrepare, Prepare, HilSteps, flags, outcome, gui, history,
        Alive
  <1>17. CASE HilPrepared
    BY <1>17 DEF HilPrepared, HilSteps, outcome, gui, history, Alive
  <1>18. CASE HilDaqcStart
    BY <1>18 DEF HilDaqcStart, HilSteps, flags, outcome, context, gui,
        history, Alive
  <1>19. CASE HilDaqcAnswer
    BY <1>19 DEF HilDaqcAnswer, HilSteps, flags, outcome, context, gui,
        history, Alive
  <1>20. CASE HilDaqcFailed
    BY <1>20 DEF HilDaqcFailed, HilSteps, flags, outcome, context, gui,
        history, Alive
  <1>21. CASE HilAbort
    BY <1>21 DEF HilAbort, AbortPrepared, HilSteps, ClearRunState, gui,
        history, Alive
  <1>22. CASE HilStartLogging
    BY <1>22 DEF HilStartLogging, AbortPrepared, ClearRunState, flags,
        outcome, gui, history, Alive
  <1>23. CASE HilStart
    BY <1>23 DEF HilStart, AbortPrepared, HilSteps, ClearRunState, flags,
        outcome, gui, history, Alive
  <1>24. CASE HilStarted
    BY <1>24 DEF HilStarted, HilSteps, outcome, context, gui, history, Alive
  <1>25. CASE HilJoin
    BY <1>25 DEF HilJoin, Join, HilSteps, gui, history, outcome, Alive
  <1>26. CASE HilStopDaqc
    BY <1>26 DEF HilStopDaqc, HilSteps, flags, outcome, context, gui, history,
        Alive
  <1>27. CASE HilFinish
    BY <1>27 DEF HilFinish, HilSteps, outcome, context, gui, history, Alive
  <1>28. CASE SimConfigure
    BY <1>28 DEF SimConfigure, SimSteps, SimOnly, flags, outcome, gui, history
  <1>29. CASE SimStep
    BY <1>29 DEF SimStep, SimOnly, flags, outcome, gui, history
  <1>30. CASE SimLeaveLoop
    BY <1>30 DEF SimLeaveLoop, SimSteps, SimOnly, flags, outcome, gui, history
  <1>31. CASE SimVerdict
    BY <1>31 DEF SimVerdict, SimSteps, SimOnly, flags, outcome, gui, history
  <1>32. CASE ReleasePreparedSimulation
    BY <1>32 DEF ReleasePreparedSimulation, SimSteps, flags, outcome, gui,
        history
  <1>33. CASE SimLogDone
    BY <1>33 DEF SimLogDone, SimSteps, SimOnly, flags, outcome, gui, history
  <1>34. CASE SimPublishDone
    BY <1>34 DEF SimPublishDone, SimSteps, outcome, gui, history
  <1>35. CASE SimTorn
    BY <1>35 DEF SimTorn, SimOnly, flags, outcome, gui, history
  <1>36. CASE UNCHANGED vars
    BY <1>36 DEF vars, flags, outcome, context, gui, history
  <1> QED
    BY <1>1, <1>2, <1>3, <1>4, <1>5, <1>6, <1>7, <1>8, <1>9, <1>10, <1>11,
       <1>12, <1>13, <1>14, <1>15, <1>16, <1>17, <1>18, <1>19, <1>20, <1>21,
       <1>22, <1>23, <1>24, <1>25, <1>26, <1>27, <1>28, <1>29, <1>30, <1>31,
       <1>32, <1>33, <1>34, <1>35, <1>36
       DEF Next, Poll, Close, Hil, Sim

-----------------------------------------------------------------------------
\* The invariant of the session, whenever the operator imports, plays, stops or
\* closes the window, for every number of Plays and steps.
THEOREM SessionInvariant == Spec => []SessionInv
PROOF
  <1>1. Init => SessionInv
    <2> SUFFICES ASSUME Init PROVE SessionInv
      OBVIOUS
    <2>1. FlagTypes
      BY DEF Init, FlagTypes
    <2>2. CountTypes
      BY SessionAssumption DEF Init, CountTypes
    <2>3. PlaceTypes
      BY DEF Init, PlaceTypes, Verdicts
    <2>4. ThreadInv /\ ScreenInv /\ ResourceInv /\ ResultInv /\ ModelInv
      BY DEF Init, ThreadInv, ScreenInv, ResourceInv, ResultInv, ModelInv, Quiet,
             HilIdle
    <2> QED
      BY <2>1, <2>2, <2>3, <2>4, TypeForms DEF SessionInv
  <1>2. SessionInv /\ [Next]_vars => SessionInv'
    <2> SUFFICES ASSUME SessionInv, [Next]_vars PROVE SessionInv'
      OBVIOUS
    <2>1. TypeOK'
      BY FlagStep, CountStep, PlaceStep
      DEF TypeOK, FlagTypes, CountTypes, PlaceTypes
    <2> QED
      BY <2>1, ThreadStep, ResourceStep, ResultStep, ModelStep DEF SessionInv
  <1> QED
    BY <1>1, <1>2, PTL DEF Spec

\* The variables of the session, of its threads and of the window keep their types.
THEOREM SessionTyping == Spec => []TypeOK
PROOF
  <1>1. SessionInv => TypeOK
    BY DEF SessionInv
  <1> QED
    BY <1>1, SessionInvariant, PTL

\* When the window shows no running run, the logger is joined and the DAQC workers
\* stopped, on every path ExecutionSessionRunGuiHil and the debug run can end on,
\* and the simulation thread is joined unless an import fell into its start.
THEOREM SessionEndedMeansQuiet == Spec => []EndedMeansQuiet
PROOF
  <1>1. SessionInv => EndedMeansQuiet
    BY DEF SessionInv, ScreenInv, ResourceInv, Quiet, HilIdle, EndedMeansQuiet
  <1> QED
    BY <1>1, SessionInvariant, PTL

\* The copy of the result that Main.qml shows is none or that of the last run it
\* started, and what ExecutionSessionGetResult and the export still have is that
\* same run's, however many Plays were refused and FMUs imported since.
THEOREM SessionResultIsFresh == Spec => []ResultIsFresh
PROOF
  <1>1. SessionInv => ResultIsFresh
    BY DEF SessionInv, ScreenInv, ResultInv, HilIdle, ResultIsFresh
  <1> QED
    BY <1>1, SessionInvariant, PTL

\* SimulationThread has the FMU instance and the InputState from its creation to
\* ReleasePreparedSimulation, unless ExecutionSessionLoadFmu runs between its
\* creation and run_started, whenever else the operator imports an FMU.
THEOREM SessionSimOwnsModel == Spec => []SimOwnsModel
PROOF
  <1>1. SessionInv => SimOwnsModel
    <2> SUFFICES ASSUME SessionInv, simPc \in {"configure", "loop", "left", "release"}
                 PROVE  fmu = "instantiated" /\ inputReady <=> ~torn
      BY DEF SimOwnsModel
    <2>1. CASE torn
      BY <2>1 DEF SessionInv, ModelInv
    <2>2. CASE ~torn
      BY <2>2 DEF SessionInv, ModelInv
    <2> QED
      BY <2>1, <2>2
  <1> QED
    BY <1>1, SessionInvariant, PTL
=============================================================================
