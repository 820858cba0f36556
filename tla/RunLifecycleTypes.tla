------------------------- MODULE RunLifecycleTypes --------------------------
(***************************************************************************)
(* TypeOK is an invariant of RunLifecycle, for every value of the          *)
(* constants.  The Boolean variables (FlagTypeOK) and the others           *)
(* (DataTypeOK) are proved apart: the first are Zenon's, the second need   *)
(* arithmetic.  Actions that a single leaf does not settle have lemmas.    *)
(***************************************************************************)
EXTENDS RunLifecycle, TLAPS

OpType == [pc : OpPcs, att : 0..MaxAttempts, how : Hows, ver : Nat]

LEMMA OpTypes ==
  ASSUME DataTypeOK
  PROVE  /\ Idle \in OpType
         /\ \A pc \in OpPcs : [op EXCEPT !.pc = pc] \in OpType
BY BoundsAssumption DEF DataTypeOK, OpType, Idle, Op, OpPcs, Hows

LEMMA StartReserveType == ASSUME DataTypeOK, StartReserve PROVE DataTypeOK'
<1> USE BoundsAssumption DEF DataTypeOK
<1>1. att' \in [Attempts -> AttemptStates \cup {"none"}]
  BY DEF StartReserve, AttemptStates
<1>2. sess' \in [Attempts -> SessionStates]
  BY DEF StartReserve, SessionStates
<1>3. /\ retry' \in [used : Nat, prepared : 0..MaxAttempts,
                    blocked : 0..MaxAttempts]
      /\ op' \in [pc : OpPcs, att : 0..MaxAttempts, how : Hows, ver : Nat]
  BY DEF StartReserve, Op, OpPcs, Hows
<1> QED
  BY <1>1, <1>2, <1>3 DEF StartReserve, SaveRun, RunStates, procVars

LEMMA LaunchUncertainType ==
  ASSUME DataTypeOK, LaunchUncertain PROVE DataTypeOK'
<1> USE DEF LaunchUncertain, DataTypeOK
<1>1. proc' \in [Attempts -> {"none", "alive", "dead"}]
  <2>1. PICK p \in {"alive", "dead"} : proc' = [proc EXCEPT ![op.att] = p]
    OBVIOUS
  <2> QED
    BY <2>1
<1>2. op' \in [pc : OpPcs, att : 0..MaxAttempts, how : Hows, ver : Nat]
  BY DEF OpPcs, Hows
<1>3. faults' \in Nat
  BY DEF Fault
<1> QED
  BY <1>1, <1>2, <1>3 DEF storeVars

LEMMA StartRecordType == ASSUME DataTypeOK, StartRecord PROVE DataTypeOK'
<1> USE DEF DataTypeOK
<1>1. /\ runState' \in RunStates /\ version' \in Nat
      /\ op' \in [pc : OpPcs, att : 0..MaxAttempts, how : Hows, ver : Nat]
  BY OpTypes DEF StartRecord, SaveRun, RunStates, OpType
<1>2. /\ att' \in [Attempts -> AttemptStates \cup {"none"}]
      /\ sess' \in [Attempts -> SessionStates]
      /\ mon' \in [Attempts -> MonitorPhases]
  <2>1. CASE op.how = "started"
    BY <2>1 DEF StartRecord, AttemptStates, SessionStates, MonitorPhases
  <2>2. CASE op.how = "no_child"
    BY <2>2 DEF StartRecord, AttemptStates, SessionStates
  <2>3. CASE op.how = "uncertain"
    BY <2>3 DEF StartRecord, SessionStates
  <2> QED
    BY <2>1, <2>2, <2>3 DEF StartRecord
<1> QED
  BY <1>1, <1>2 DEF StartRecord, procVars

LEMMA ExitCommitType == ASSUME DataTypeOK, ExitCommit PROVE DataTypeOK'
<1> USE DEF DataTypeOK
<1>1. op' \in [pc : OpPcs, att : 0..MaxAttempts, how : Hows, ver : Nat]
  BY OpTypes DEF ExitCommit, OpType
<1>2. /\ runState' \in RunStates /\ version' \in Nat
      /\ att' \in [Attempts -> AttemptStates \cup {"none"}]
      /\ failure' \in [Attempts -> {"none", "retryable", "other"}]
      /\ sess' \in [Attempts -> SessionStates]
  <2>1. CASE ExitApplies(op.att)
    <3>1. PICK result \in ExitResults : Submit(op.att, result)
      BY <2>1 DEF ExitCommit
    <3>2. runState' \in RunStates /\ version' \in Nat
      BY <3>1 DEF Submit, SaveRun, RunStates, ExitResults
    <3>3. att' \in [Attempts -> AttemptStates \cup {"none"}]
      BY <3>1 DEF Submit, AttemptStates
    <3>4. failure' \in [Attempts -> {"none", "retryable", "other"}]
      BY <3>1 DEF Submit, ExitResults
    <3>5. sess' \in [Attempts -> SessionStates]
      BY <3>1 DEF Submit, FinalizeSession, SessionStates
    <3> QED
      BY <3>2, <3>3, <3>4, <3>5
  <2>2. CASE ~ExitApplies(op.att)
    BY <2>2 DEF ExitCommit
  <2> QED
    BY <2>1, <2>2
<1> QED
  BY <1>1, <1>2 DEF ExitCommit, procVars

(* What the first transaction of a stop changes.                           *)
LEMMA EnterStopType ==
  ASSUME DataTypeOK, NEW how \in {"cancel", "police", "revision"},
         EnterStop(how)
  PROVE  /\ runState' \in RunStates /\ version' \in Nat
         /\ sess' \in [Attempts -> SessionStates]
         /\ intent' \in [Attempts -> Intents]
         /\ authority' \in [Attempts -> {"none", "allowed", "denied"}]
         /\ op' \in OpType
         /\ UNCHANGED <<provider, cur, att, failure, origin, retry>>
<1> USE DEF EnterStop, DataTypeOK
<1>1. runState' \in RunStates /\ version' \in Nat
  BY DEF SaveRun, RunStates
<1>2. sess' \in [Attempts -> SessionStates]
  BY DEF SessionStates
<1>3. intent' \in [Attempts -> Intents]
  BY DEF IntentOf, Intents
<1>4. authority' \in [Attempts -> {"none", "allowed", "denied"}]
  OBVIOUS
<1>5. op' \in OpType
  BY DEF Op, OpType, OpPcs, Hows
<1> QED
  BY <1>1, <1>2, <1>3, <1>4, <1>5

LEMMA CancelsAgainType ==
  ASSUME DataTypeOK, NEW how \in {"cancel", "police", "revision"},
         CancelsAgain(how)
  PROVE  op' \in OpType /\ UNCHANGED storeVars
BY DEF CancelsAgain, DataTypeOK, Op, OpType, OpPcs, Hows

LEMMA MonitorStopsType ==
  ASSUME DataTypeOK, NEW a \in Attempts, NEW phase,
         NEW how \in {"cancel", "police", "revision"},
         MonitorStops(a, phase, how)
  PROVE  DataTypeOK'
<1>1. /\ mon' \in [Attempts -> MonitorPhases] /\ monVer' \in [Attempts -> Nat]
      /\ UNCHANGED <<proc, server, crashes, faults>>
  BY DEF MonitorStops, MonitorOff, DataTypeOK, MonitorPhases, procVars
<1>2. CASE EnterStop(how)
  BY <1>1, <1>2, EnterStopType DEF DataTypeOK, OpType
<1>3. CASE CancelsAgain(how)
  BY <1>1, <1>3, CancelsAgainType DEF DataTypeOK, OpType, storeVars
<1>4. CASE UNCHANGED <<storeVars, op>>
  BY <1>1, <1>4 DEF DataTypeOK, storeVars
<1> QED
  BY <1>2, <1>3, <1>4 DEF MonitorStops

LEMMA StopUncertainType == ASSUME DataTypeOK, StopUncertain PROVE DataTypeOK'
<1> USE DEF StopUncertain, DataTypeOK
<1>1. /\ runState' \in RunStates /\ version' \in Nat
      /\ sess' \in [Attempts -> SessionStates]
  BY DEF SaveRun, RunStates, SessionStates
<1> QED
  BY <1>1, OpTypes DEF OpType, procVars

LEMMA CancelInactiveType == ASSUME DataTypeOK, CancelInactive PROVE DataTypeOK'
<1> USE DEF DataTypeOK
<1>1. authority' \in [Attempts -> {"none", "allowed", "denied"}]
  BY DEF CancelInactive
<1>2. runState' \in RunStates /\ version' \in Nat
  BY DEF CancelInactive, SaveRun, RunStates
<1> QED
  BY <1>1, <1>2 DEF CancelInactive, procVars, serverVars

LEMMA ExitEnterType ==
  ASSUME DataTypeOK, NEW a \in Attempts, ExitEnter(a)
  PROVE  DataTypeOK'
<1>1. mon' \in [Attempts -> MonitorPhases] /\ monVer' \in [Attempts -> Nat]
  BY DEF ExitEnter, MonitorOff, DataTypeOK, MonitorPhases
<1>2. op' \in OpType
  <2>1. Op("exitFinalize", a, "none", monVer[a]) \in OpType
    BY DEF DataTypeOK, Attempts, Op, OpType, OpPcs, Hows
  <2> QED
    BY <2>1 DEF ExitEnter, DataTypeOK, OpType
<1> QED
  BY <1>1, <1>2 DEF ExitEnter, DataTypeOK, OpType, procVars

LEMMA RejectType ==
  ASSUME DataTypeOK, NEW class \in RejectionClasses, Reject(class)
  PROVE  DataTypeOK'
<1> USE DEF Reject, DataTypeOK
<1>1. authority' \in [Attempts -> {"none", "allowed", "denied"}]
  OBVIOUS
<1>2. runState' \in RunStates /\ version' \in Nat
  BY DEF SaveRun, RunStates
<1> QED
  BY <1>1, <1>2 DEF procVars, serverVars

LEMMA BootInterruptType == ASSUME DataTypeOK, BootInterrupt PROVE DataTypeOK'
<1> USE DEF BootInterrupt, DataTypeOK
<1>1. /\ att' \in [Attempts -> AttemptStates \cup {"none"}]
      /\ sess' \in [Attempts -> SessionStates]
  BY DEF AttemptStates, SessionStates
<1>2. failure' \in [Attempts -> {"none", "retryable", "other"}]
  BY DEF BootFailures
<1>3. server' \in BootPhases \cup {"up", "down", "refused"}
  BY DEF Boot, BootPhases
<1> QED
  BY <1>1, <1>2, <1>3 DEF Boot, procVars

LEMMA DataTypes == DataTypeOK /\ [Next]_vars => DataTypeOK'
<1> SUFFICES ASSUME DataTypeOK, [Next]_vars PROVE DataTypeOK'
  OBVIOUS
<1> USE BoundsAssumption
<1>1. CASE PrepareRun
  BY <1>1 DEF DataTypeOK, PrepareRun, InsertAttempt, SaveRun, procVars,
              RunStates, AttemptStates, Attempts
<1>2. CASE HumanRetry
  BY <1>2 DEF DataTypeOK, HumanRetry, InsertAttempt, SaveRun, procVars,
              RunStates, AttemptStates, Attempts
<1>3. CASE AutoRetry
  BY <1>3 DEF DataTypeOK, AutoRetry, InsertAttempt, SaveRun, procVars,
              RunStates, AttemptStates, Attempts
<1>4. CASE BlockAutomaticRetry
  BY <1>4 DEF DataTypeOK, BlockAutomaticRetry, procVars, serverVars
<1>5. CASE StartReserve
  BY <1>5, StartReserveType
<1>6. CASE LaunchNoChild
  BY <1>6 DEF DataTypeOK, LaunchNoChild, storeVars, procVars, OpPcs, Hows
<1>7. CASE LaunchStarted
  BY <1>7 DEF DataTypeOK, LaunchStarted, storeVars, OpPcs, Hows
<1>8. CASE LaunchUncertain
  BY <1>8, LaunchUncertainType
<1>9. CASE StartRecord
  BY <1>9, StartRecordType
<1>10. CASE ExitFinalize
  BY <1>10 DEF DataTypeOK, ExitFinalize, SupervisorFinalize, storeVars, OpPcs,
               Hows
<1>11. CASE ExitCommit
  BY <1>11, ExitCommitType
<1>12. CASE StopSignal
  BY <1>12, OpTypes DEF DataTypeOK, StopSignal, GoTo, AfterStop, Fault, OpPcs,
                        Hows, OpType
<1>13. CASE StopFinalize
  BY <1>13 DEF DataTypeOK, StopFinalize, SupervisorFinalize, GoTo, procVars,
               storeVars, Fault, OpPcs, Hows
<1>14. CASE StopMark
  BY <1>14 DEF DataTypeOK, StopMark, FinalizeSession, GoTo, procVars,
               SessionStates, OpPcs, Hows
<1>15. CASE StopConfirm
  BY <1>15, OpTypes DEF DataTypeOK, StopConfirm, SaveRun, procVars, RunStates,
                        AttemptStates, StoppedAttempt, OpType
<1>16. CASE StopUncertain
  BY <1>16, StopUncertainType
<1>17. CASE HumanCancel
  BY <1>17, EnterStopType
  DEF HumanCancel, DataTypeOK, OpType, procVars
<1>18. CASE HumanCancelsAgain
  BY <1>18, CancelsAgainType
  DEF HumanCancelsAgain, DataTypeOK, OpType, storeVars, procVars
<1>19. CASE CancelInactive
  BY <1>19, CancelInactiveType
<1>20. CASE Accept
  BY <1>20 DEF DataTypeOK, Accept, SaveRun, procVars, serverVars, RunStates
<1>21. CASE OperationFails
  BY <1>21, OpTypes DEF DataTypeOK, OperationFails, procVars, Fault, OpType
<1>22. CASE HandlerFails
  BY <1>22 DEF DataTypeOK, HandlerFails, storeVars, procVars, Fault
<1>23. CASE Crash
  BY <1>23, OpTypes DEF DataTypeOK, Crash, BootPhases, ServerLost,
                        MonitorPhases, OpType
<1>24. CASE BootFails
  BY <1>24, OpTypes DEF DataTypeOK, BootFails, BootPhases, ServerLost,
                        MonitorPhases, Fault, OpType
<1>25. CASE BootRoutesDocker
  BY <1>25 DEF DataTypeOK, BootRoutesDocker, Boot, storeVars, BootPhases
<1>26. CASE BootRoutesTrusted
  BY <1>26 DEF DataTypeOK, BootRoutesTrusted, Boot, storeVars, BootPhases
<1>27. CASE BootDetect
  BY <1>27 DEF DataTypeOK, BootDetect, SaveRun, Boot, procVars, RunStates,
               BootPhases
<1>28. CASE BootUnknown
  BY <1>28 DEF DataTypeOK, BootUnknown, Boot, storeVars, procVars, BootPhases
<1>29. CASE BootStop
  BY <1>29 DEF DataTypeOK, BootStop, Boot, storeVars, BootPhases, Fault
<1>30. CASE BootInterrupt
  BY <1>30, BootInterruptType
<1>31. CASE BootFinalize
  BY <1>31 DEF DataTypeOK, BootFinalize, SupervisorFinalize, Boot, storeVars,
               BootPhases
<1>32. CASE BootMark
  BY <1>32 DEF DataTypeOK, BootMark, Boot, procVars, BootPhases
<1>33. ASSUME NEW class \in RejectionClasses, Reject(class) PROVE DataTypeOK'
  BY <1>33, RejectType
<1>34. ASSUME NEW a \in Attempts, MonitorLeaves(a) PROVE DataTypeOK'
  BY <1>34 DEF DataTypeOK, MonitorLeaves, Decide, storeVars, procVars,
               MonitorPhases
<1>35. ASSUME NEW a \in Attempts, MonitorSeesExit(a) PROVE DataTypeOK'
  BY <1>35 DEF DataTypeOK, MonitorSeesExit, Decide, storeVars, procVars,
               MonitorPhases
<1>36. ASSUME NEW a \in Attempts, MonitorSeesViolation(a) PROVE DataTypeOK'
  BY <1>36 DEF DataTypeOK, MonitorSeesViolation, Decide, storeVars, procVars,
               MonitorPhases
<1>37. ASSUME NEW a \in Attempts, MonitorUncertain(a) PROVE DataTypeOK'
  BY <1>37 DEF DataTypeOK, MonitorUncertain, Decide, storeVars, procVars,
               MonitorPhases, Fault
<1>38. ASSUME NEW a \in Attempts, ExitEnter(a) PROVE DataTypeOK'
  BY <1>38, ExitEnterType
<1>39. ASSUME NEW a \in Attempts, ProcessDies(a) PROVE DataTypeOK'
  BY <1>39 DEF DataTypeOK, ProcessDies, storeVars, serverVars
<1>40. ASSUME NEW a \in Attempts, MonitorPolices(a) PROVE DataTypeOK'
  BY <1>40, MonitorStopsType DEF MonitorPolices
<1>41. ASSUME NEW a \in Attempts, MonitorIntervenes(a) PROVE DataTypeOK'
  BY <1>41, MonitorStopsType DEF MonitorIntervenes
<1>42. CASE UNCHANGED vars
  BY <1>42 DEF DataTypeOK, vars, storeVars, procVars, serverVars
<1> QED
  BY <1>1, <1>2, <1>3, <1>4, <1>5, <1>6, <1>7, <1>8, <1>9, <1>10, <1>11,
     <1>12, <1>13, <1>14, <1>15, <1>16, <1>17, <1>18, <1>19, <1>20, <1>21,
     <1>22, <1>23, <1>24, <1>25, <1>26, <1>27, <1>28, <1>29, <1>30, <1>31,
     <1>32, <1>33, <1>34, <1>35, <1>36, <1>37, <1>38, <1>39, <1>40, <1>41,
     <1>42
  DEF Next, Prepare, Start, Exit, Stop, Human, Startup, Failure, Monitor

LEMMA FlagTypes == FlagTypeOK /\ [Next]_vars => FlagTypeOK'
<1> SUFFICES ASSUME FlagTypeOK, [Next]_vars PROVE FlagTypeOK'
  OBVIOUS
<1>1. CASE PrepareRun
  BY <1>1, Zenon DEF FlagTypeOK, PrepareRun, InsertAttempt, procVars
<1>2. CASE HumanRetry
  BY <1>2, Zenon DEF FlagTypeOK, HumanRetry, InsertAttempt, procVars
<1>3. CASE AutoRetry
  BY <1>3, Zenon DEF FlagTypeOK, AutoRetry, InsertAttempt, procVars
<1>4. CASE BlockAutomaticRetry
  BY <1>4, Zenon DEF FlagTypeOK, BlockAutomaticRetry, procVars, serverVars
<1>5. CASE StartReserve
  BY <1>5, Zenon DEF FlagTypeOK, StartReserve, procVars
<1>6. CASE LaunchNoChild
  BY <1>6, Zenon DEF FlagTypeOK, LaunchNoChild, storeVars, procVars
<1>7. CASE LaunchStarted
  BY <1>7, Zenon DEF FlagTypeOK, LaunchStarted, storeVars
<1>8. CASE LaunchUncertain
  BY <1>8, Zenon DEF FlagTypeOK, LaunchUncertain, storeVars
<1>9. CASE StartRecord
  BY <1>9, Zenon DEF FlagTypeOK, StartRecord, procVars
<1>10. CASE ExitFinalize
  BY <1>10, Zenon DEF FlagTypeOK, ExitFinalize, SupervisorFinalize, storeVars
<1>11. CASE ExitCommit
  BY <1>11, Zenon DEF FlagTypeOK, ExitCommit, Submit, FinalizeSession,
                      procVars
<1>12. CASE StopSignal
  BY <1>12, Zenon DEF FlagTypeOK, StopSignal
<1>13. CASE StopFinalize
  BY <1>13, Zenon DEF FlagTypeOK, StopFinalize, SupervisorFinalize, procVars,
                      storeVars
<1>14. CASE StopMark
  BY <1>14, Zenon DEF FlagTypeOK, StopMark, FinalizeSession, procVars
<1>15. CASE StopConfirm
  BY <1>15, Zenon DEF FlagTypeOK, StopConfirm, procVars
<1>16. CASE StopUncertain
  BY <1>16, Zenon DEF FlagTypeOK, StopUncertain, procVars
<1>17. CASE HumanCancel
  BY <1>17, Zenon DEF FlagTypeOK, HumanCancel, EnterStop, procVars
<1>18. CASE HumanCancelsAgain
  BY <1>18, Zenon DEF FlagTypeOK, HumanCancelsAgain, CancelsAgain, storeVars,
                      procVars
<1>19. CASE CancelInactive
  BY <1>19, Zenon DEF FlagTypeOK, CancelInactive, procVars, serverVars
<1>20. CASE Accept
  BY <1>20, Zenon DEF FlagTypeOK, Accept, procVars, serverVars
<1>21. CASE OperationFails
  BY <1>21, Zenon DEF FlagTypeOK, OperationFails, procVars
<1>22. CASE HandlerFails
  BY <1>22, Zenon DEF FlagTypeOK, HandlerFails, storeVars, procVars
<1>23. CASE Crash
  BY <1>23, Zenon DEF FlagTypeOK, Crash, ServerLost
<1>24. CASE BootFails
  BY <1>24, Zenon DEF FlagTypeOK, BootFails, ServerLost
<1>25. CASE BootRoutesDocker
  BY <1>25, Zenon DEF FlagTypeOK, BootRoutesDocker, Boot, storeVars
<1>26. CASE BootRoutesTrusted
  BY <1>26, Zenon DEF FlagTypeOK, BootRoutesTrusted, Boot, storeVars
<1>27. CASE BootDetect
  BY <1>27, Zenon DEF FlagTypeOK, BootDetect, Boot, procVars
<1>28. CASE BootUnknown
  BY <1>28, Zenon DEF FlagTypeOK, BootUnknown, Boot, storeVars, procVars
<1>29. CASE BootStop
  BY <1>29, Zenon DEF FlagTypeOK, BootStop, Boot, storeVars
<1>30. CASE BootInterrupt
  BY <1>30, Zenon DEF FlagTypeOK, BootInterrupt, Boot, procVars
<1>31. CASE BootFinalize
  BY <1>31, Zenon DEF FlagTypeOK, BootFinalize, SupervisorFinalize, Boot,
                      storeVars
<1>32. CASE BootMark
  BY <1>32, Zenon DEF FlagTypeOK, BootMark, Boot, procVars
<1>33. ASSUME NEW class \in RejectionClasses, Reject(class) PROVE FlagTypeOK'
  BY <1>33, Zenon DEF FlagTypeOK, Reject, procVars, serverVars
<1>34. ASSUME NEW a \in Attempts, MonitorLeaves(a) PROVE FlagTypeOK'
  BY <1>34, Zenon DEF FlagTypeOK, MonitorLeaves, Decide, storeVars, procVars
<1>35. ASSUME NEW a \in Attempts, MonitorSeesExit(a) PROVE FlagTypeOK'
  BY <1>35, Zenon DEF FlagTypeOK, MonitorSeesExit, Decide, storeVars, procVars
<1>36. ASSUME NEW a \in Attempts, MonitorSeesViolation(a) PROVE FlagTypeOK'
  BY <1>36, Zenon DEF FlagTypeOK, MonitorSeesViolation, Decide, storeVars,
                      procVars
<1>37. ASSUME NEW a \in Attempts, MonitorUncertain(a) PROVE FlagTypeOK'
  BY <1>37, Zenon DEF FlagTypeOK, MonitorUncertain, Decide, storeVars,
                      procVars
<1>38. ASSUME NEW a \in Attempts, ExitEnter(a) PROVE FlagTypeOK'
  BY <1>38, Zenon DEF FlagTypeOK, ExitEnter, procVars
<1>39. ASSUME NEW a \in Attempts, ProcessDies(a) PROVE FlagTypeOK'
  BY <1>39, Zenon DEF FlagTypeOK, ProcessDies, storeVars, serverVars
<1>40. ASSUME NEW a \in Attempts, MonitorPolices(a) PROVE FlagTypeOK'
  BY <1>40, Zenon DEF FlagTypeOK, MonitorPolices, MonitorStops, EnterStop,
                      CancelsAgain, storeVars, procVars
<1>41. ASSUME NEW a \in Attempts, MonitorIntervenes(a) PROVE FlagTypeOK'
  BY <1>41, Zenon DEF FlagTypeOK, MonitorIntervenes, MonitorStops, EnterStop,
                      CancelsAgain, storeVars, procVars
<1>42. CASE UNCHANGED vars
  BY <1>42 DEF FlagTypeOK, vars, storeVars, procVars, serverVars
<1> QED
  BY <1>1, <1>2, <1>3, <1>4, <1>5, <1>6, <1>7, <1>8, <1>9, <1>10, <1>11,
     <1>12, <1>13, <1>14, <1>15, <1>16, <1>17, <1>18, <1>19, <1>20, <1>21,
     <1>22, <1>23, <1>24, <1>25, <1>26, <1>27, <1>28, <1>29, <1>30, <1>31,
     <1>32, <1>33, <1>34, <1>35, <1>36, <1>37, <1>38, <1>39, <1>40, <1>41,
     <1>42
  DEF Next, Prepare, Start, Exit, Stop, Human, Startup, Failure, Monitor

(* Every variable keeps its domain, whatever fails and whenever the server *)
(* crashes.                                                                *)
THEOREM TypeCorrect == Spec => []TypeOK
<1>1. Init => TypeOK
  <2>1. Init => DataTypeOK
    BY BoundsAssumption, OpTypes
    DEF Init, DataTypeOK, RunStates, SessionStates, Intents, MonitorPhases,
        Idle, Op, OpPcs, Hows
  <2>2. Init => FlagTypeOK
    <3>1. [a \in Attempts |-> FALSE] \in [Attempts -> BOOLEAN]
      BY SMT
    <3>2. FALSE \in BOOLEAN
      OBVIOUS
    <3>3. Init => /\ final = [a \in Attempts |-> FALSE]
                  /\ drained = [a \in Attempts |-> FALSE]
                  /\ record = [a \in Attempts |-> FALSE]
                  /\ route = [a \in Attempts |-> FALSE]
                  /\ handler = FALSE
      BY SMT DEF Init
    <3> QED
      BY <3>1, <3>2, <3>3, Zenon DEF FlagTypeOK
  <2> QED
    BY <2>1, <2>2 DEF TypeOK
<1>2. TypeOK /\ [Next]_vars => TypeOK'
  BY DataTypes, FlagTypes DEF TypeOK
<1> QED
  BY <1>1, <1>2, PTL DEF Spec
=============================================================================
