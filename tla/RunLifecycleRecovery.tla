----------------------- MODULE RunLifecycleRecovery -----------------------
(***************************************************************************)
(* What the lifecycle promises about repetition and restart: the           *)
(* dispatcher keeps its budget, and a start of the server that completes   *)
(* has settled the Run.  Both need to know more than SafetyInvariant: what *)
(* the projection of the retry events counts, and which sessions are       *)
(* proven cleaned up.                                                      *)
(***************************************************************************)
EXTENDS RunLifecycleSafety

(* The projection counts the Attempts since the person's last one.         *)
BudgetCounted ==
  /\ retry.used <= AutomaticRetryMaxRetries
  /\ cur = 0 => retry.used = 0
  /\ cur # 0 => retry.used < cur /\ origin[cur - retry.used] # "auto"
  /\ AutoBudget

(* A session that is over is finalized, and so is that of a Run that has   *)
(* settled; a stop is about the current Attempt.                           *)
CleanupKnown ==
  /\ \A a \in Attempts : a > cur => sess[a] = "none"
  /\ op.pc \in {"signal", "stopFinalize", "stopMark"} => op.att = cur
  /\ (cur # 0 /\ sess[cur] # "none"
       /\ runState \notin {"running", "stopping", "recovery_required"}) =>
          final[cur]
  /\ \A a \in Attempts : sess[a] = "failed" => final[a]

(* Docker's Recover left no container to the rest of the start.            *)
BootIsEmpty ==
  (server \in BootPhases /\ provider = "docker") =>
    \A a \in Attempts : proc[a] # "alive"

RecoveryInvariant == BudgetCounted /\ CleanupKnown /\ BootIsEmpty
-----------------------------------------------------------------------------
(***************************************************************************)
(* The automatic-retry budget.                                             *)
(***************************************************************************)
(* Only a preparation counts, and only a person's resets the count.        *)
LEMMA RetrySavers ==
  ASSUME [Next]_vars
  PROVE  \/ PrepareRun \/ HumanRetry \/ AutoRetry
         \/ /\ UNCHANGED <<cur, origin>>
            /\ retry' = retry \/ \E b : retry' = [retry EXCEPT !.blocked = b]
<1> DEFINE Same == UNCHANGED <<cur, origin, retry>>
<1>1. ASSUME NEW a \in Attempts, Monitor(a) \/ ProcessDies(a)
      PROVE  Same
  BY <1>1 DEF Monitor, MonitorLeaves, MonitorSeesExit, MonitorSeesViolation,
              MonitorUncertain, Decide, ExitEnter, MonitorPolices,
              MonitorIntervenes, MonitorStops, EnterStop, CancelsAgain,
              ProcessDies, storeVars
<1>2. CASE Human
  BY <1>2 DEF Human, HumanCancel, HumanCancelsAgain, EnterStop, CancelsAgain,
              CancelInactive, Accept, Reject, storeVars
<1>3. CASE Exit
  BY <1>3 DEF Exit, ExitFinalize, ExitCommit, storeVars
<1>4. CASE Start
  BY <1>4 DEF Start, StartReserve, LaunchNoChild, LaunchStarted,
              LaunchUncertain, StartRecord, storeVars
<1>5. CASE Prepare
  BY <1>5 DEF Prepare, BlockAutomaticRetry
<1>6. CASE Stop \/ Failure
  BY <1>6 DEF Stop, StopSignal, StopFinalize, StopMark, StopConfirm,
              StopUncertain, Failure, OperationFails, HandlerFails, Crash,
              BootFails, ServerLost, storeVars
<1>7. CASE Startup
  BY <1>7 DEF Startup, BootRoutesDocker, BootRoutesTrusted, BootDetect,
              BootUnknown, BootStop, BootInterrupt, BootFinalize, BootMark,
              storeVars
<1> QED
  BY <1>1, <1>2, <1>3, <1>4, <1>5, <1>6, <1>7 DEF Next, vars, storeVars

(* A person's preparation: the window behind the new Attempt ends with it. *)
LEMMA HumanKeepsBudget ==
  ASSUME TypeOK, FutureUntouched, BudgetCounted, InsertAttempt("human"),
         retry'.used = 0
  PROVE  BudgetCounted'
<1> USE BoundsAssumption, RetriesAssumption DEF TypeOK, DataTypeOK, Attempts
<1>1. /\ cur' = cur + 1 /\ cur + 1 \in Attempts
      /\ origin' = [origin EXCEPT ![cur + 1] = "human"]
  BY DEF InsertAttempt
<1>2. origin'[cur + 1] = "human"
  BY <1>1
<1>3. ASSUME NEW a \in Attempts, a > AutomaticRetryMaxRetries
      PROVE  \E b \in (a - AutomaticRetryMaxRetries)..a : origin'[b] # "auto"
  <2>1. PICK b \in (a - AutomaticRetryMaxRetries)..a : origin[b] # "auto"
    BY <1>3 DEF BudgetCounted, AutoBudget
  <2>2. b \in Attempts
    BY <1>3
  <2>3. origin'[b] # "auto"
    BY <1>1, <2>1, <2>2
  <2> QED
    BY <2>1, <2>3
<1>4. AutoBudget'
  BY <1>3 DEF AutoBudget
<1> QED
  BY <1>1, <1>2, <1>4 DEF BudgetCounted

(* The dispatcher's: the person's last Attempt is still in the window.     *)
LEMMA AutoKeepsBudget ==
  ASSUME TypeOK, FutureUntouched, BudgetCounted, Begun, AutoRetry
  PROVE  BudgetCounted'
<1> USE BoundsAssumption, RetriesAssumption DEF Attempts
<1>0. /\ cur \in 0..MaxAttempts /\ retry.used \in Nat
      /\ origin \in [Attempts -> {"none", "human", "auto"}]
  BY DEF TypeOK, DataTypeOK
<1>1. /\ cur' = cur + 1 /\ cur + 1 \in Attempts
      /\ origin' = [origin EXCEPT ![cur + 1] = "auto"]
      /\ retry.used < AutomaticRetryMaxRetries
      /\ retry'.used = retry.used + 1 /\ runState = "recovery_required"
  BY <1>0 DEF AutoRetry, InsertAttempt, AutoPending, AutoRetryable
<1>2. cur # 0 /\ retry.used \in Nat
  BY <1>0, <1>1 DEF Begun
<1> DEFINE h == cur - retry.used
<1>3. /\ h \in 1..cur /\ h \in Attempts /\ origin[h] # "auto"
      /\ h = cur + 1 - (retry.used + 1)
  <2>1. /\ cur \in Nat /\ cur <= MaxAttempts /\ retry.used \in Nat
        /\ retry.used < cur /\ origin[cur - retry.used] # "auto"
    BY <1>0, <1>2 DEF BudgetCounted
  <2>2. h \in Nat /\ 1 <= h /\ h <= cur /\ h = cur + 1 - (retry.used + 1)
    BY <2>1
  <2> QED
    BY <2>1, <2>2
<1>4. origin'[h] # "auto"
  BY <1>0, <1>1, <1>3
<1> HIDE DEF h
<1>5. ASSUME NEW a \in Attempts, a > AutomaticRetryMaxRetries
      PROVE  \E b \in (a - AutomaticRetryMaxRetries)..a : origin'[b] # "auto"
  <2>1. PICK b \in (a - AutomaticRetryMaxRetries)..a : origin[b] # "auto"
    BY <1>5 DEF BudgetCounted, AutoBudget
  <2>2. b \in Attempts
    BY <1>5
  <2>3. CASE b # cur + 1
    BY <1>0, <1>1, <2>1, <2>2, <2>3
  <2>4. CASE b = cur + 1 /\ a = cur + 1
    <3>1. h \in (a - AutomaticRetryMaxRetries)..a
      BY <1>0, <1>1, <1>2, <1>3, <2>4
    <3> QED
      BY <1>4, <3>1
  <2>5. CASE b = cur + 1 /\ a # cur + 1
    <3>1. a > cur + 1
      BY <1>0, <1>1, <2>1, <2>5
    <3>2. origin[a] = "none"
      BY <1>0, <1>1, <3>1 DEF FutureUntouched
    <3>3. origin'[a] # "auto" /\ a \in (a - AutomaticRetryMaxRetries)..a
      BY <1>0, <1>1, <3>1, <3>2
    <3> QED
      BY <3>3
  <2> QED
    BY <2>3, <2>4, <2>5
<1>6. AutoBudget'
  BY <1>5 DEF AutoBudget
<1>7. retry'.used < cur' /\ cur' - retry'.used = h
  BY <1>0, <1>1, <1>2, <1>3
<1> QED
  BY <1>0, <1>1, <1>4, <1>6, <1>7 DEF BudgetCounted

(* Every step keeps the budget.                                            *)
LEMMA StepKeepsBudget ==
  ASSUME SafetyInvariant, BudgetCounted, [Next]_vars
  PROVE  BudgetCounted'
<1> USE DEF SafetyInvariant
<1>1. CASE PrepareRun
  <2>1. retry.used = 0 /\ retry' = retry
    BY <1>1 DEF PrepareRun, Begun, BudgetCounted
  <2> QED
    BY <1>1, <2>1, HumanKeepsBudget DEF PrepareRun
<1>2. CASE HumanRetry
  BY <1>2, HumanKeepsBudget DEF HumanRetry
<1>3. CASE AutoRetry
  BY <1>3, AutoKeepsBudget
<1>4. CASE /\ UNCHANGED <<cur, origin>>
           /\ retry' = retry \/ \E b : retry' = [retry EXCEPT !.blocked = b]
  <2>1. retry'.used = retry.used
    BY <1>4 DEF TypeOK, DataTypeOK
  <2> QED
    BY <1>4, <2>1 DEF BudgetCounted, AutoBudget
<1> QED
  BY <1>1, <1>2, <1>3, <1>4, RetrySavers
-----------------------------------------------------------------------------
(***************************************************************************)
(* Cleanup, and the start of the server.                                   *)
(***************************************************************************)
(* Which actions save a session, and none forgets a cleanup proof.         *)
LEMMA SessionSavers ==
  ASSUME [Next]_vars
  PROVE  \/ UNCHANGED <<sess, final>>
         \/ StartReserve \/ StartRecord \/ ExitCommit
         \/ \E how \in Hows : EnterStop(how)
         \/ StopMark \/ StopUncertain \/ BootInterrupt \/ BootMark
<1>1. ASSUME NEW a \in Attempts, Monitor(a) \/ ProcessDies(a)
      PROVE  UNCHANGED <<sess, final>> \/ \E how \in Hows : EnterStop(how)
  BY <1>1 DEF Monitor, MonitorLeaves, MonitorSeesExit, MonitorSeesViolation,
              MonitorUncertain, Decide, ExitEnter, MonitorPolices,
              MonitorIntervenes, MonitorStops, CancelsAgain,
              ProcessDies, storeVars, Hows
<1>2. CASE Human
  BY <1>2 DEF Human, HumanCancel, HumanCancelsAgain, CancelsAgain,
              CancelInactive, Accept, Reject, storeVars, Hows
<1>3. CASE Prepare \/ Start \/ Exit
  BY <1>3 DEF Prepare, PrepareRun, HumanRetry, AutoRetry, InsertAttempt,
              BlockAutomaticRetry, Start, LaunchNoChild, LaunchStarted,
              LaunchUncertain, Exit, ExitFinalize, storeVars
<1>4. CASE Stop \/ Failure
  BY <1>4 DEF Stop, StopSignal, StopFinalize, StopConfirm, Failure,
              OperationFails, HandlerFails, Crash, BootFails, ServerLost,
              storeVars
<1>5. CASE Startup
  BY <1>5 DEF Startup, BootRoutesDocker, BootRoutesTrusted, BootDetect,
              BootUnknown, BootStop, BootFinalize, storeVars
<1> QED
  BY <1>1, <1>2, <1>3, <1>4, <1>5 DEF Next, vars, storeVars

(* A stop begins on the current Attempt, and passes it on.                 *)
LEMMA StopOperands ==
  ASSUME [Next]_vars, TypeOK,
         op'.pc \in {"signal", "stopFinalize", "stopMark"}
  PROVE  /\ cur' = cur \/ op.pc = "idle"
         /\ \/ op'.att = cur /\ cur' = cur
            \/ op' = op
            \/ /\ op'.att = op.att /\ cur' = cur
               /\ op.pc \in {"signal", "stopFinalize"}
<1> USE DEF Op, Idle
<1>0. op \in [pc : OpPcs, att : 0..MaxAttempts, how : Hows, ver : Nat]
  BY DEF TypeOK, DataTypeOK
<1>1. ASSUME NEW a \in Attempts, Monitor(a) \/ ProcessDies(a)
      PROVE  cur' = cur /\ (op' = op \/ op'.att = cur)
  BY <1>1 DEF Monitor, MonitorLeaves, MonitorSeesExit, MonitorSeesViolation,
              MonitorUncertain, Decide, ExitEnter, MonitorPolices,
              MonitorIntervenes, MonitorStops, EnterStop, CancelsAgain,
              ProcessDies, storeVars, serverVars
<1>2. CASE Human
  BY <1>2 DEF Human, HumanCancel, HumanCancelsAgain, EnterStop, CancelsAgain,
              CancelInactive, Accept, Reject, storeVars, serverVars
<1>3. CASE Prepare
  <2>1. op.pc = "idle" /\ op' = op
    BY <1>3 DEF Prepare, PrepareRun, HumanRetry, AutoRetry, InsertAttempt,
                BlockAutomaticRetry, Free, serverVars
  <2> QED
    BY <2>1
<1>4. CASE Start \/ Exit
  <2>1. op'.pc \in {"launch", "record", "exitCommit", "idle"}
    <3>1. CASE StartReserve
      BY <3>1 DEF StartReserve
    <3>2. CASE LaunchNoChild \/ LaunchStarted
      BY <1>0, <3>2 DEF LaunchNoChild, LaunchStarted
    <3>3. CASE LaunchUncertain
      BY <1>0, <3>3 DEF LaunchUncertain
    <3>4. CASE StartRecord \/ ExitCommit
      BY <3>4 DEF StartRecord, ExitCommit
    <3>5. CASE ExitFinalize
      BY <1>0, <3>5 DEF ExitFinalize
    <3> QED
      BY <1>4, <3>1, <3>2, <3>3, <3>4, <3>5 DEF Start, Exit
  <2> QED
    BY <2>1
<1>5. CASE StopSignal
  BY <1>0, <1>5 DEF StopSignal, GoTo, AfterStop
<1>6. CASE StopFinalize
  BY <1>0, <1>6 DEF StopFinalize, GoTo, storeVars
<1>7. CASE StopMark \/ StopConfirm \/ StopUncertain \/ Failure
  BY <1>0, <1>7 DEF StopMark, StopConfirm, StopUncertain, GoTo, Failure,
              OperationFails, HandlerFails, Crash, BootFails, ServerLost,
              storeVars
<1>8. CASE Startup
  BY <1>8 DEF Startup, BootRoutesDocker, BootRoutesTrusted, BootDetect,
              BootUnknown, BootStop, BootInterrupt, BootFinalize, BootMark,
              Boot, storeVars
<1>9. CASE UNCHANGED vars
  BY <1>9 DEF vars, storeVars, serverVars
<1> QED
  BY <1>1, <1>2, <1>3, <1>4, <1>5, <1>6, <1>7, <1>8, <1>9 DEF Next, Stop

(* A Run leaves its executing states with the proof, or in recovery.       *)
LEMMA StepKeepsCleanup ==
  ASSUME SafetyInvariant, CleanupKnown, [Next]_vars
  PROVE  CleanupKnown'
<1> USE BoundsAssumption DEF SafetyInvariant, TypeOK, DataTypeOK, FlagTypeOK,
        Attempts
<1>1. op'.pc \in {"signal", "stopFinalize", "stopMark"} => op'.att = cur'
  BY StopOperands DEF CleanupKnown
<1> DEFINE Sessions ==
             /\ \A a \in Attempts : a > cur => sess[a] = "none"
             /\ (cur # 0 /\ sess[cur] # "none"
                  /\ runState \notin {"running", "stopping",
                                      "recovery_required"}) => final[cur]
             /\ \A a \in Attempts : sess[a] = "failed" => final[a]
<1>2. Sessions
  BY DEF CleanupKnown
<1>3. CASE UNCHANGED <<sess, final, runState, cur>>
  <2>1. Sessions'
    BY <1>2, <1>3
  <2> QED
    BY <1>1, <2>1 DEF CleanupKnown
<1>4. CASE PrepareRun \/ HumanRetry \/ AutoRetry
  <2>1. cur' = cur + 1 /\ UNCHANGED <<sess, final>> /\ cur + 1 \in Attempts
    BY <1>4 DEF PrepareRun, HumanRetry, AutoRetry, InsertAttempt
  <2>2. sess'[cur'] = "none"
    BY <1>2, <2>1
  <2>3. Sessions'
    BY <1>2, <2>1, <2>2
  <2> QED
    BY <1>1, <2>3 DEF CleanupKnown
<1>5. CASE CancelInactive \/ StopConfirm \/ Accept \/ BootDetect
           \/ \E class \in RejectionClasses : Reject(class)
  <2>1. UNCHANGED <<sess, final, cur>>
    BY <1>5 DEF CancelInactive, StopConfirm, Accept, BootDetect, Reject
  <2>2. \/ runState' = runState \/ final[cur] \/ sess[cur] = "none"
        \/ runState \notin {"running", "stopping", "recovery_required"}
        \/ runState' = "recovery_required"
    BY <1>5 DEF CancelInactive, StopConfirm, Confirmed, Accept, BootDetect,
                Reject, SaveRun, AutomaticRetryFinalized
  <2>3. Sessions'
    BY <1>2, <2>1, <2>2
  <2> QED
    BY <1>1, <2>3 DEF CleanupKnown
<1>6. ASSUME cur \in Attempts, cur' = cur, NEW s \in SessionStates,
             sess' = [sess EXCEPT ![cur] = s], s # "failed",
             \A a \in Attempts : final[a] => final'[a],
             \/ runState' \in {"running", "stopping", "recovery_required"}
             \/ final'[cur]
      PROVE  CleanupKnown'
  <2>1. Sessions'
    BY <1>2, <1>6
  <2> QED
    BY <1>1, <2>1 DEF CleanupKnown
<1>7. cur = 0 <=> runState = "draft"
  BY DEF Begun
<1>8. CASE StartReserve \/ \E how \in Hows : EnterStop(how)
  <2>1. /\ cur # 0 /\ cur' = cur /\ final' = final
        /\ sess' \in {[sess EXCEPT ![cur] = "starting"],
                      [sess EXCEPT ![cur] = "stopping"]}
        /\ runState' \in {"running", "stopping"}
    BY <1>7, <1>8 DEF StartReserve, EnterStop, SaveRun
  <2> QED
    BY <1>6, <2>1 DEF SessionStates
<1>9. CASE StartRecord
  <2>1. /\ op.att = cur /\ cur \in Attempts /\ cur' = cur
        /\ runState' \in {"running", "recovery_required"}
    BY <1>9 DEF StartRecord, SaveRun, CommandKnows
  <2>2. CASE op.how = "no_child"
    <3>1. /\ sess' = [sess EXCEPT ![cur] = "failed"]
          /\ final' = [final EXCEPT ![cur] = TRUE]
      BY <1>9, <2>1, <2>2 DEF StartRecord
    <3>2. Sessions'
      BY <1>2, <2>1, <3>1
    <3> QED
      BY <1>1, <3>2 DEF CleanupKnown
  <2>3. CASE op.how # "no_child"
    <3>1. /\ final' = final
          /\ sess' \in {[sess EXCEPT ![cur] = "running"],
                        [sess EXCEPT ![cur] = "lost"]}
      BY <1>9, <2>1, <2>3 DEF StartRecord
    <3> QED
      BY <1>6, <2>1, <3>1 DEF SessionStates
  <2> QED
    BY <2>2, <2>3
<1>10. CASE ExitCommit
  <2>1. CASE ExitApplies(op.att)
    <3>1. op.att = cur /\ cur \in Attempts /\ cur' = cur
      BY <1>10, <2>1 DEF ExitCommit, ExitApplies, CommandKnows, PastIsOver
    <3>2. /\ sess' = [sess EXCEPT ![cur] = "stopped"]
          /\ final' = [final EXCEPT ![cur] = TRUE]
      BY <1>10, <2>1, <3>1 DEF ExitCommit, Submit, FinalizeSession
    <3> QED
      BY <1>6, <3>1, <3>2 DEF SessionStates
  <2>2. CASE ~ExitApplies(op.att)
    <3>1. UNCHANGED <<sess, final, runState, cur>>
      BY <1>10, <2>2 DEF ExitCommit
    <3> QED
      BY <1>3, <3>1
  <2> QED
    BY <2>1, <2>2
<1>11. CASE StopMark
  <2>1. op.att = cur /\ cur \in Attempts /\ cur' = cur
    BY <1>11 DEF StopMark, CommandKnows, CleanupKnown
  <2>2. /\ sess' = [sess EXCEPT ![cur] = "stopped"]
        /\ final' = [final EXCEPT ![cur] = TRUE]
    BY <1>11, <2>1 DEF StopMark, FinalizeSession
  <2> QED
    BY <1>6, <2>1, <2>2 DEF SessionStates
<1>12. CASE StopUncertain
  <2>1. CASE runState = "stopping"
    <3>1. /\ cur # 0 /\ cur' = cur /\ final' = final
          /\ sess' = [sess EXCEPT ![cur] = "lost"]
          /\ runState' = "recovery_required"
      BY <1>7, <1>12, <2>1 DEF StopUncertain, SaveRun
    <3> QED
      BY <1>6, <3>1 DEF SessionStates
  <2>2. CASE runState # "stopping"
    <3>1. UNCHANGED <<sess, final, runState, cur>>
      BY <1>12, <2>2 DEF StopUncertain
    <3> QED
      BY <1>3, <3>1
  <2> QED
    BY <2>1, <2>2
<1>13. CASE BootInterrupt
  <2>1. /\ cur # 0 /\ cur' = cur /\ final' = final
        /\ runState' = "recovery_required"
    BY <1>13 DEF BootInterrupt, StartupKnows
  <2>2. CASE sess[cur] = "stopped"
    <3>1. UNCHANGED <<sess, final, runState, cur>>
      BY <1>13, <2>2 DEF BootInterrupt
    <3> QED
      BY <1>3, <3>1
  <2>3. CASE sess[cur] # "stopped"
    <3>1. sess' = [sess EXCEPT ![cur] = "stopped"]
      BY <1>13, <2>3 DEF BootInterrupt
    <3> QED
      BY <1>6, <2>1, <3>1 DEF SessionStates
  <2> QED
    BY <2>2, <2>3
<1>14. CASE BootMark
  <2>1. /\ cur # 0 /\ cur' = cur /\ sess' = sess /\ runState' = runState
        /\ final' = [final EXCEPT ![cur] = TRUE]
    BY <1>14 DEF BootMark, StartupKnows
  <2>2. Sessions'
    BY <1>2, <2>1
  <2> QED
    BY <1>1, <2>2 DEF CleanupKnown
<1> HIDE DEF Sessions
<1>15. CASE UNCHANGED <<sess, final>> /\ UNCHANGED <<runState, version, cur>>
  BY <1>3, <1>15
<1> QED
  BY <1>4, <1>5, <1>8, <1>9, <1>10, <1>11, <1>12, <1>13, <1>14, <1>15,
     RunSavers, SessionSavers

(* Outside a start of the server nothing moves it but a crash, and only a  *)
(* server that is up launches processes.                                   *)
LEMMA ServerSteps ==
  ASSUME SafetyInvariant, [Next]_vars
  PROVE  /\ provider' = provider
         /\ \/ Startup \/ server' = "down"
            \/ /\ server' = server
               /\ server = "up" \/ \A a \in Attempts :
                                     proc'[a] = "alive" => proc[a] = "alive"
<1> DEFINE Quiet == UNCHANGED <<provider, server, proc>>
           Command == UNCHANGED <<provider, server>> /\ server = "up"
<1>1. op.pc # "idle" => server = "up"
  BY DEF SafetyInvariant, CommandKnows
<1>2. ASSUME NEW a \in Attempts, Monitor(a)
      PROVE  Quiet
  BY <1>2 DEF Monitor, MonitorLeaves, MonitorSeesExit, MonitorSeesViolation,
              MonitorUncertain, Decide, ExitEnter, MonitorPolices,
              MonitorIntervenes, MonitorStops, EnterStop, CancelsAgain,
              storeVars, procVars
<1>3. ASSUME NEW a \in Attempts, ProcessDies(a)
      PROVE  /\ UNCHANGED <<provider, server>>
             /\ proc' = [proc EXCEPT ![a] = "dead"]
  BY <1>3 DEF ProcessDies, storeVars, serverVars
<1>4. CASE Human \/ Prepare
  <2>1. Human => Quiet
    BY DEF Human, HumanCancel, HumanCancelsAgain, EnterStop, CancelsAgain,
           CancelInactive, Accept, Reject, storeVars, procVars, serverVars
  <2>2. Prepare => Quiet
    BY DEF Prepare, PrepareRun, HumanRetry, AutoRetry, InsertAttempt,
           BlockAutomaticRetry, procVars, serverVars
  <2> QED
    BY <1>4, <2>1, <2>2
<1>5. CASE Start
  BY <1>1, <1>5 DEF Start, StartReserve, Free, LaunchNoChild, LaunchStarted,
              LaunchUncertain, StartRecord, storeVars
<1>6. CASE Exit \/ Stop
  BY <1>1, <1>6 DEF Exit, ExitFinalize, ExitCommit, Stop, StopSignal,
              StopFinalize, StopMark, StopConfirm, StopUncertain, storeVars
<1>7. CASE Failure
  <2>1. (OperationFails \/ HandlerFails) => Quiet
    BY DEF OperationFails, HandlerFails, storeVars, procVars
  <2>2. (Crash \/ BootFails) => provider' = provider /\ server' = "down"
    BY DEF Crash, BootFails, ServerLost
  <2> QED
    BY <1>7, <2>1, <2>2 DEF Failure
<1>8. CASE Startup
  BY <1>8 DEF Startup, BootRoutesDocker, BootRoutesTrusted, BootDetect,
              BootUnknown, BootStop, BootInterrupt, BootFinalize, BootMark,
              storeVars
<1>9. CASE UNCHANGED vars
  BY <1>9 DEF vars, storeVars, procVars, serverVars
<1>10. proc \in [Attempts -> {"none", "alive", "dead"}]
  BY DEF SafetyInvariant, TypeOK, DataTypeOK
<1> QED
  BY <1>2, <1>3, <1>4, <1>5, <1>6, <1>7, <1>8, <1>9, <1>10 DEF Next

(* A start of the server launches nothing.                                 *)
LEMMA StartupLaunchesNothing ==
  ASSUME TypeOK, Startup
  PROVE  \A a \in Attempts : proc'[a] = "alive" => proc[a] = "alive"
<1>1. proc \in [Attempts -> {"none", "alive", "dead"}]
  BY DEF TypeOK, DataTypeOK
<1>2. CASE BootRoutesDocker
  BY <1>1, <1>2 DEF BootRoutesDocker
<1>3. CASE BootStop
  BY <1>1, <1>3 DEF BootStop
<1>4. CASE BootFinalize
  BY <1>4 DEF BootFinalize, SupervisorFinalize
<1>5. CASE BootRoutesTrusted \/ BootDetect \/ BootUnknown \/ BootInterrupt
           \/ BootMark
  BY <1>5 DEF BootRoutesTrusted, BootDetect, BootUnknown, BootInterrupt,
              BootMark, procVars
<1> QED
  BY <1>2, <1>3, <1>4, <1>5 DEF Startup

(* Only Docker's Recover begins the start of a docker Run.                 *)
LEMMA StepKeepsBootEmpty ==
  ASSUME SafetyInvariant, BootIsEmpty, [Next]_vars
  PROVE  BootIsEmpty'
<1> SUFFICES ASSUME server' \in BootPhases, provider = "docker",
                    NEW a \in Attempts, proc'[a] = "alive"
             PROVE  FALSE
  BY ServerSteps DEF BootIsEmpty
<1>1. server \in BootPhases => proc[a] # "alive"
  BY DEF BootIsEmpty
<1>2. CASE Startup
  <2>1. proc[a] = "alive"
    BY <1>2, StartupLaunchesNothing DEF SafetyInvariant
  <2>2. BootRoutesDocker
    BY <1>1, <1>2, <2>1 DEF Startup, BootRoutesTrusted, BootDetect,
       BootUnknown, BootStop, BootInterrupt, BootFinalize, BootMark, BootPhases
  <2>3. proc' = [b \in Attempts |->
                   IF proc[b] = "alive" THEN "dead" ELSE proc[b]]
    BY <2>2 DEF BootRoutesDocker
  <2> QED
    BY <2>3
<1>3. CASE ~Startup
  BY <1>1, <1>3, ServerSteps DEF BootPhases
<1> QED
  BY <1>2, <1>3
-----------------------------------------------------------------------------
(* What repetition and restart rely on holds from the first state on.      *)
LEMMA InitRecovery == ASSUME Init PROVE RecoveryInvariant
<1> USE BoundsAssumption, RetriesAssumption DEF Init, Attempts
<1>1. BudgetCounted
  <2>1. ASSUME NEW a \in Attempts, a > AutomaticRetryMaxRetries
        PROVE  \E b \in (a - AutomaticRetryMaxRetries)..a : origin[b] # "auto"
    <3>1. a \in (a - AutomaticRetryMaxRetries)..a /\ origin[a] # "auto"
      BY <2>1
    <3> QED
      BY <3>1
  <2>2. retry.used = 0 /\ cur = 0
    OBVIOUS
  <2>3. AutoBudget
    BY <2>1 DEF AutoBudget
  <2> QED
    BY <2>2, <2>3 DEF BudgetCounted
<1>2. CleanupKnown
  BY DEF CleanupKnown, Idle, Op
<1>3. BootIsEmpty
  BY DEF BootIsEmpty, BootPhases
<1> QED
  BY <1>1, <1>2, <1>3 DEF RecoveryInvariant

(* The budget is counted, cleanup is known and a docker start is empty, in *)
(* every state the service and the server can be brought into.             *)
THEOREM RecoveryKnown == Spec => []RecoveryInvariant
<1>1. Init => RecoveryInvariant
  BY InitRecovery
<1>2. SafetyInvariant /\ RecoveryInvariant /\ [Next]_vars => RecoveryInvariant'
  BY StepKeepsBudget, StepKeepsCleanup, StepKeepsBootEmpty
  DEF RecoveryInvariant
<1> QED
  BY <1>1, <1>2, Safety, PTL DEF Spec

(* The dispatcher never starts more than AutomaticRetryMaxRetries Attempts *)
(* between two of the person's.                                            *)
THEOREM AutoRetriesAreBounded == Spec => []AutoBudget
<1>1. RecoveryInvariant => AutoBudget
  BY DEF RecoveryInvariant, BudgetCounted
<1> QED
  BY <1>1, RecoveryKnown, PTL
-----------------------------------------------------------------------------
(* The step that completes a start leaves the Run settled.                 *)
LEMMA StepSettles ==
  ASSUME SafetyInvariant, RecoveryInvariant, [Next]_vars,
         server \in BootPhases, server' = "up"
  PROVE  /\ runState' \notin {"running", "stopping"}
         /\ provider = "docker" =>
              /\ \A a \in Attempts : proc'[a] # "alive"
              /\ (cur # 0 /\ sess'[cur] # "none") => final'[cur]
<1> USE DEF SafetyInvariant, RecoveryInvariant
<1>1. Startup
  BY ServerSteps DEF BootPhases
<1>2. BootDetect \/ BootUnknown \/ BootStop \/ BootMark
  BY <1>1 DEF Startup, BootRoutesDocker, BootRoutesTrusted, BootInterrupt,
              BootFinalize, Boot, BootPhases
<1>3. provider = "docker" => \A a \in Attempts : proc'[a] # "alive"
  BY <1>1, StartupLaunchesNothing DEF BootIsEmpty
<1>4. CASE BootDetect
  <2>1. ~Recoverable /\ UNCHANGED <<sess, final, cur>>
    BY <1>4 DEF BootDetect, Boot
  <2>2. CASE ~StartupCandidate
    <3>1. runState' = runState
      BY <1>4, <2>2 DEF BootDetect
    <3>2. runState \notin {"running", "stopping"}
      BY <2>2 DEF StartupCandidate
    <3>3. (cur # 0 /\ sess[cur] # "none") => final[cur]
      <4>1. CASE runState = "recovery_required"
        BY <2>2, <4>1 DEF StartupCandidate, CleanupKnown, TypeOK, DataTypeOK,
           Attempts
      <4>2. CASE runState # "recovery_required"
        BY <3>2, <4>2 DEF CleanupKnown
      <4> QED
        BY <4>1, <4>2
    <3> QED
      BY <1>3, <2>1, <3>1, <3>2, <3>3
  <2>3. CASE StartupCandidate
    <3>1. sess[cur] = "none"
      BY <2>1, <2>3 DEF Recoverable
    <3>2. runState' \notin {"running", "stopping"}
      BY <1>4, <2>3 DEF BootDetect, SaveRun
    <3> QED
      BY <1>3, <2>1, <3>1, <3>2
  <2> QED
    BY <2>2, <2>3
<1>5. CASE BootUnknown \/ BootStop
  <2>1. /\ server = "detected" /\ cur # 0 /\ UNCHANGED runState
        /\ runState = "recovery_required" /\ cur \in Attempts
    BY <1>5 DEF BootUnknown, BootStop, StartupKnows, storeVars, TypeOK,
                DataTypeOK, Attempts
  <2>2. provider # "docker"
    <3>1. CASE BootUnknown
      BY <3>1 DEF BootUnknown, Boot
    <3>2. CASE BootStop
      BY <2>1, <3>2 DEF BootStop, BootIsEmpty, BootPhases
    <3> QED
      BY <1>5, <3>1, <3>2
  <2> QED
    BY <2>1, <2>2
<1>6. CASE BootMark
  <2>1. /\ cur \in Attempts /\ UNCHANGED runState
        /\ runState = "recovery_required"
    BY <1>6 DEF BootMark, StartupKnows, TypeOK, DataTypeOK, Attempts
  <2>2. final' = [final EXCEPT ![cur] = TRUE] /\ sess' = sess
    BY <1>6 DEF BootMark
  <2>3. final'[cur]
    BY <2>1, <2>2 DEF TypeOK, FlagTypeOK
  <2> QED
    BY <1>3, <2>1, <2>3
<1> QED
  BY <1>2, <1>4, <1>5, <1>6

(* A start of the server that completes has settled the Run; under Docker  *)
(* it leaves no process and no session without its cleanup proof.          *)
THEOREM StartupsSettle == Spec => StartupSettles
<1>1. SafetyInvariant /\ RecoveryInvariant /\ [Next]_vars =>
        [(server \in BootPhases /\ server' = "up") =>
           /\ runState' \notin {"running", "stopping"}
           /\ provider = "docker" =>
                /\ \A a \in Attempts : proc'[a] # "alive"
                /\ (cur # 0 /\ sess'[cur] # "none") => final'[cur]]_vars
  BY StepSettles
<1> QED
  BY <1>1, Safety, RecoveryKnown, PTL DEF Spec, StartupSettles
-----------------------------------------------------------------------------
(***************************************************************************)
(* What is known of an Attempt's death.  A Run that executes has not       *)
(* recorded it, one that is being stopped has recorded all of it or        *)
(* nothing, and only an interrupted Attempt is stopped and not finalized.  *)
(***************************************************************************)
Open == {"starting", "running"}

ProofKept ==
  /\ (cur # 0 /\ runState = "running") => sess[cur] \in Open
  /\ runState = "stopping" =>
       /\ att[cur] \in Open /\ intent[cur] # "none"
       /\ sess[cur] = IF final[cur] THEN "stopped" ELSE "stopping"
  /\ (cur # 0 /\ runState = "recovery_required" /\ final[cur]
        /\ att[cur] \in Open) => sess[cur] = "stopped" /\ intent[cur] # "none"
  /\ \A a \in Attempts :
       sess[a] = "stopped" /\ ~final[a] => att[a] = "interrupted"

StopKnows ==
  op.pc \in {"stopFinalize", "stopMark", "uncertain"} => ~final[cur]

(* A start of the server routes what is not finalized, and interrupts what *)
(* it goes on to finalize.                                                 *)
BootKnows ==
  /\ server \in {"stopped", "finalized"} => att[cur] = "interrupted"
  /\ (server \in {"routed", "detected"} /\ cur # 0 /\ route[cur]) =>
       ~final[cur]
  /\ (provider = "docker" /\ cur # 0 /\ server = "routed") =>
       (route[cur] <=> Unfinalized)
  /\ (provider = "docker" /\ server = "detected" /\ ~route[cur]) =>
       /\ att[cur] \in Open /\ intent[cur] # "none"
       /\ sess[cur] = "stopped" /\ final[cur]
  /\ RefusedIsExplained

DeathInvariant == ProofKept /\ StopKnows /\ BootKnows

(* Only a request to stop records what it wants.                           *)
LEMMA IntentSavers ==
  ASSUME [Next]_vars
  PROVE  UNCHANGED intent \/ \E how \in Hows : EnterStop(how)
<1>1. ASSUME NEW a \in Attempts, Monitor(a) \/ ProcessDies(a)
      PROVE  UNCHANGED intent \/ \E how \in Hows : EnterStop(how)
  BY <1>1 DEF Monitor, MonitorLeaves, MonitorSeesExit, MonitorSeesViolation,
              MonitorUncertain, Decide, ExitEnter, MonitorPolices,
              MonitorIntervenes, MonitorStops, CancelsAgain,
              ProcessDies, storeVars, Hows
<1>2. CASE Human
  BY <1>2 DEF Human, HumanCancel, HumanCancelsAgain, CancelsAgain,
              CancelInactive, Accept, Reject, storeVars, Hows
<1>3. CASE Prepare \/ Start \/ Exit
  BY <1>3 DEF Prepare, PrepareRun, HumanRetry, AutoRetry, InsertAttempt,
              BlockAutomaticRetry, Start, StartReserve, LaunchNoChild,
              LaunchStarted, LaunchUncertain, StartRecord, Exit, ExitFinalize,
              ExitCommit, storeVars
<1>4. CASE Stop \/ Failure
  BY <1>4 DEF Stop, StopSignal, StopFinalize, StopMark, StopConfirm,
              StopUncertain, Failure, OperationFails, HandlerFails, Crash,
              BootFails, ServerLost, storeVars
<1>5. CASE Startup
  BY <1>5 DEF Startup, BootRoutesDocker, BootRoutesTrusted, BootDetect,
              BootUnknown, BootStop, BootInterrupt, BootFinalize, BootMark,
              storeVars
<1> QED
  BY <1>1, <1>2, <1>3, <1>4, <1>5 DEF Next, vars, storeVars

(* What a stop has found unfinalized nobody else finalizes.                *)
LEMMA StepKeepsStop ==
  ASSUME SafetyInvariant, CleanupKnown, StopKnows, [Next]_vars
  PROVE  StopKnows'
<1> SUFFICES ASSUME op'.pc \in {"stopFinalize", "stopMark", "uncertain"}
             PROVE  ~final'[cur']
  BY DEF StopKnows
<1> USE DEF SafetyInvariant
<1>0. op \in [pc : OpPcs, att : 0..MaxAttempts, how : Hows, ver : Nat]
  BY DEF TypeOK, DataTypeOK
<1> DEFINE Same == op' = op /\ op.pc # "idle"
<1>1. ASSUME NEW a \in Attempts, Monitor(a) \/ ProcessDies(a)
      PROVE  Same
  BY <1>1 DEF Monitor, MonitorLeaves, MonitorSeesExit, MonitorSeesViolation,
              MonitorUncertain, Decide, ExitEnter, MonitorPolices,
              MonitorIntervenes, MonitorStops, EnterStop, CancelsAgain,
              ProcessDies, storeVars, serverVars, Op, Free
<1>2. CASE Human
  BY <1>2 DEF Human, HumanCancel, HumanCancelsAgain, EnterStop, CancelsAgain,
              CancelInactive, Accept, Reject, storeVars, serverVars, Op, Free
<1>3. CASE Prepare
  BY <1>3 DEF Prepare, PrepareRun, HumanRetry, AutoRetry, InsertAttempt,
              BlockAutomaticRetry, serverVars, Free
<1>4. ~(Start \/ Exit \/ StopMark \/ StopConfirm \/ StopUncertain)
  <2>1. ~StartReserve /\ ~StartRecord /\ ~ExitCommit /\ ~StopConfirm
        /\ ~StopUncertain
    BY DEF StartReserve, StartRecord, ExitCommit, StopConfirm, StopUncertain,
           Idle, Op
  <2>2. ~LaunchNoChild /\ ~LaunchStarted /\ ~LaunchUncertain /\ ~ExitFinalize
        /\ ~StopMark
    BY <1>0 DEF LaunchNoChild, LaunchStarted, LaunchUncertain, ExitFinalize,
                StopMark, GoTo
  <2> QED
    BY <2>1, <2>2 DEF Start, Exit
<1>5. ASSUME Failure
      PROVE  Same
  <2>1. ~OperationFails /\ ~Crash /\ ~BootFails
    BY DEF OperationFails, Crash, BootFails, ServerLost, Idle, Op
  <2>2. HandlerFails /\ op' = op
    BY <1>5, <2>1 DEF Failure, HandlerFails
  <2> QED
    BY <2>2 DEF Idle, Op
<1>6. ~Startup
  <2>1. SUFFICES ASSUME Startup PROVE FALSE
    OBVIOUS
  <2>2. op' = op
    BY <2>1 DEF Startup, BootRoutesDocker, BootRoutesTrusted, BootDetect,
                BootUnknown, BootStop, BootInterrupt, BootFinalize, BootMark,
                Boot
  <2>3. server # "up"
    BY <2>1 DEF Startup, BootRoutesDocker, BootRoutesTrusted, BootDetect,
                BootUnknown, BootStop, BootInterrupt, BootFinalize, BootMark
  <2> QED
    BY <2>2, <2>3 DEF CommandKnows
<1>7. CASE UNCHANGED vars
  BY <1>7 DEF vars, storeVars, serverVars, StopKnows
<1>8. CASE StopSignal
  <2>1. op.att = cur /\ UNCHANGED <<final, cur>>
    BY <1>8 DEF StopSignal, CleanupKnown
  <2>2. ~final[op.att]
    <3>1. SUFFICES ASSUME final[op.att] PROVE FALSE
      OBVIOUS
    <3>2. op' \in {[op EXCEPT !.pc = "confirm"], Idle}
      BY <1>8, <3>1 DEF StopSignal, GoTo
    <3> QED
      BY <1>0, <3>2 DEF Idle, Op
  <2> QED
    BY <2>1, <2>2
<1>9. CASE StopFinalize
  BY <1>9 DEF StopFinalize, storeVars, StopKnows
<1>10. CASE Same
  <2>1. server = "up" /\ op.pc # "record" /\ op.pc # "exitCommit"
    BY <1>10 DEF CommandKnows
  <2>2. UNCHANGED final
    BY <1>4, <1>10, <2>1, SessionSavers
       DEF StartReserve, EnterStop, StopUncertain, BootInterrupt, BootMark,
           Start, Exit
  <2>3. UNCHANGED cur
    BY <1>10, RunSavers
       DEF PrepareRun, HumanRetry, AutoRetry, Free, StartReserve, StartRecord,
           ExitCommit, EnterStop, CancelInactive, StopConfirm, StopUncertain,
           Accept, Reject, BootDetect
  <2> QED
    BY <1>10, <2>2, <2>3 DEF StopKnows
<1> QED
  BY <1>1, <1>2, <1>3, <1>4, <1>5, <1>6, <1>7, <1>8, <1>9, <1>10
     DEF Next, Stop

(* Every save of the Run or of a session keeps what is known of its death. *)
LEMMA StepKeepsProof ==
  ASSUME SafetyInvariant, CleanupKnown, ProofKept, StopKnows, BootKnows,
         [Next]_vars
  PROVE  ProofKept'
<1> USE BoundsAssumption DEF SafetyInvariant, TypeOK, DataTypeOK, FlagTypeOK,
        Attempts, Open
<1>1. CASE UNCHANGED <<runState, cur, att, sess, final, intent>>
  BY <1>1 DEF ProofKept
<1>2. CASE PrepareRun \/ HumanRetry \/ AutoRetry
  <2>1. /\ runState' = "ready" /\ UNCHANGED <<sess, final>>
        /\ att' = [att EXCEPT ![cur + 1] = "created"] /\ cur + 1 > cur
        /\ cur + 1 \in Attempts
    BY <1>2 DEF PrepareRun, HumanRetry, AutoRetry, InsertAttempt, SaveRun
  <2>2. sess[cur + 1] = "none"
    BY <2>1 DEF CleanupKnown
  <2> QED
    BY <2>1, <2>2 DEF ProofKept
<1>3. CASE StartReserve
  <2>1. /\ cur # 0 /\ UNCHANGED <<cur, final>> /\ runState' = "running"
        /\ att' = [att EXCEPT ![cur] = "starting"]
        /\ sess' = [sess EXCEPT ![cur] = "starting"]
    BY <1>3 DEF StartReserve, SaveRun, Begun
  <2> QED
    BY <2>1 DEF ProofKept
<1>4. CASE StartRecord
  <2>1. /\ cur \in Attempts /\ op.att = cur /\ UNCHANGED <<cur, intent>>
        /\ ~final[cur] /\ sess[cur] = "starting"
    BY <1>4 DEF StartRecord, CommandKnows, RunMatchesAttempt
  <2>2. CASE op.how = "started"
    <3>1. /\ runState' = "running" /\ sess' = [sess EXCEPT ![cur] = "running"]
          /\ att' = [att EXCEPT ![cur] = "running"] /\ final' = final
      BY <1>4, <2>1, <2>2 DEF StartRecord, SaveRun
    <3> QED
      BY <2>1, <3>1 DEF ProofKept
  <2>3. CASE op.how = "no_child"
    <3>1. /\ runState' = "recovery_required"
          /\ sess' = [sess EXCEPT ![cur] = "failed"]
          /\ att' = [att EXCEPT ![cur] = "failed"]
          /\ final' = [final EXCEPT ![cur] = TRUE]
      BY <1>4, <2>1, <2>3 DEF StartRecord, SaveRun
    <3> QED
      BY <2>1, <3>1 DEF ProofKept
  <2>4. CASE op.how \notin {"started", "no_child"}
    <3>1. /\ runState' = "recovery_required" /\ UNCHANGED <<att, final>>
          /\ sess' = [sess EXCEPT ![cur] = "lost"]
      BY <1>4, <2>1, <2>4 DEF StartRecord, SaveRun
    <3> QED
      BY <2>1, <3>1 DEF ProofKept
  <2> QED
    BY <2>2, <2>3, <2>4
<1>5. CASE ExitCommit
  <2>1. CASE ExitApplies(op.att)
    <3>1. op.att = cur /\ cur \in Attempts /\ cur' = cur
      BY <1>5, <2>1 DEF ExitCommit, ExitApplies, CommandKnows, PastIsOver
    <3>2. PICK result \in ExitResults : Submit(cur, result)
      BY <1>5, <2>1, <3>1 DEF ExitCommit
    <3>3. /\ runState' \notin {"running", "stopping"}
          /\ sess' = [sess EXCEPT ![cur] = "stopped"]
          /\ final' = [final EXCEPT ![cur] = TRUE]
          /\ \E t \in {"output_submitted", "failed"} :
               att' = [att EXCEPT ![cur] = t]
      BY <3>2 DEF Submit, FinalizeSession, SaveRun
    <3> QED
      BY <3>1, <3>3 DEF ProofKept
  <2>2. CASE ~ExitApplies(op.att)
    BY <1>1, <1>5, <2>2 DEF ExitCommit
  <2> QED
    BY <2>1, <2>2
<1>6. ASSUME NEW how \in Hows, EnterStop(how)
      PROVE  ProofKept'
  <2>1. /\ cur \in Attempts /\ ~final[cur] /\ att[cur] \in Open
    BY <1>6 DEF EnterStop, RunMatchesAttempt, Begun
  <2>2. /\ runState' = "stopping" /\ UNCHANGED <<cur, att, final>>
        /\ sess' = [sess EXCEPT ![cur] = "stopping"]
        /\ intent' = [intent EXCEPT ![cur] = IntentOf(how)]
        /\ IntentOf(how) # "none"
    BY <1>6 DEF EnterStop, SaveRun, IntentOf
  <2> QED
    BY <2>1, <2>2 DEF ProofKept
<1>7. CASE CancelInactive \/ Accept
           \/ \E class \in RejectionClasses : Reject(class)
  <2>1. /\ runState' \in {"cancelled", "accepted", "revision_required"}
        /\ UNCHANGED <<att, sess, final>>
    BY <1>7 DEF CancelInactive, Accept, Reject, SaveRun
  <2> QED
    BY <2>1 DEF ProofKept
<1>8. CASE StopConfirm
  <2>1. CASE Confirmed
    <3>1. /\ runState' \in {"cancelled", "revision_required"} /\ final[cur]
          /\ UNCHANGED <<cur, sess, final>>
          /\ att' = [att EXCEPT ![cur] = StoppedAttempt]
      BY <1>8, <2>1 DEF StopConfirm, Confirmed, SaveRun
    <3> QED
      BY <3>1 DEF ProofKept
  <2>2. CASE ~Confirmed
    BY <1>1, <1>8, <2>2 DEF StopConfirm
  <2> QED
    BY <2>1, <2>2
<1>9. CASE StopUncertain
  <2>1. CASE runState = "stopping"
    <3>1. /\ runState' = "recovery_required" /\ ~final[cur]
          /\ UNCHANGED <<cur, att, final, intent>>
          /\ sess' = [sess EXCEPT ![cur] = "lost"]
      BY <1>9, <2>1 DEF StopUncertain, SaveRun, StopKnows
    <3> QED
      BY <3>1 DEF ProofKept
  <2>2. CASE runState # "stopping"
    BY <1>1, <1>9, <2>2 DEF StopUncertain
  <2> QED
    BY <2>1, <2>2
<1>10. CASE StopMark
  <2>1. /\ op.att = cur /\ cur \in Attempts /\ runState = "stopping"
        /\ UNCHANGED <<runState, cur, att, intent>>
    BY <1>10 DEF StopMark, CommandKnows, CleanupKnown
  <2>2. /\ sess' = [sess EXCEPT ![cur] = "stopped"]
        /\ final' = [final EXCEPT ![cur] = TRUE]
    BY <1>10, <2>1 DEF StopMark, FinalizeSession
  <2> QED
    BY <2>1, <2>2 DEF ProofKept
<1>11. CASE BootDetect
  <2>1. UNCHANGED <<cur, att, sess, final, intent>>
    BY <1>11 DEF BootDetect
  <2>2. CASE UNCHANGED runState
    BY <1>1, <2>1, <2>2
  <2>3. CASE runState \in {"running", "stopping"}
             /\ runState' = "recovery_required"
    BY <2>1, <2>3 DEF ProofKept, RunMatchesAttempt
  <2> QED
    BY <1>11, <2>2, <2>3 DEF BootDetect, SaveRun
<1>12. CASE BootInterrupt
  <2>1. /\ cur \in Attempts /\ runState = "recovery_required"
        /\ UNCHANGED <<runState, cur, final, intent>>
    BY <1>12 DEF BootInterrupt, StartupKnows
  <2>2. CASE sess[cur] = "stopped"
    BY <1>1, <1>12, <2>1, <2>2 DEF BootInterrupt
  <2>3. CASE sess[cur] # "stopped"
    <3>1. /\ sess' = [sess EXCEPT ![cur] = "stopped"]
          /\ att' = [att EXCEPT ![cur] = "interrupted"]
      BY <1>12, <2>3 DEF BootInterrupt
    <3> QED
      BY <2>1, <3>1 DEF ProofKept
  <2> QED
    BY <2>2, <2>3
<1>13. CASE BootMark
  <2>1. /\ cur \in Attempts /\ runState = "recovery_required"
        /\ UNCHANGED <<runState, cur, att, sess, intent>>
        /\ att[cur] = "interrupted"
        /\ final' = [final EXCEPT ![cur] = TRUE]
    BY <1>13 DEF BootMark, StartupKnows, BootKnows
  <2> QED
    BY <2>1 DEF ProofKept
<1> QED
  BY <1>1, <1>2, <1>3, <1>4, <1>5, <1>6, <1>7, <1>8, <1>9, <1>10, <1>11,
     <1>12, <1>13, RunSavers, AttemptSavers, SessionSavers, IntentSavers

(* While the server is not up, only its start moves what a start reads.    *)
LEMMA DownFrame ==
  ASSUME SafetyInvariant, [Next]_vars, server # "up"
  PROVE  \/ Startup \/ server' = "down"
         \/ UNCHANGED <<server, provider, runState, cur, att, sess, final,
                        intent, record, route>>
<1> DEFINE Same == UNCHANGED <<server, provider, runState, cur, att, sess,
                               final, intent, record, route>>
<1>1. op.pc = "idle" /\ ~Free
  BY DEF SafetyInvariant, CommandKnows, Free
<1>2. ASSUME NEW a \in Attempts, Monitor(a) \/ ProcessDies(a)
      PROVE  Same
  BY <1>1, <1>2
     DEF Monitor, MonitorLeaves, MonitorSeesExit, MonitorSeesViolation,
         MonitorUncertain, Watches, ExitEnter, MonitorPolices,
         MonitorIntervenes, MonitorStops, ProcessDies, storeVars, serverVars
<1>3. ~Prepare /\ ~Start /\ ~Exit /\ ~Stop /\ ~Human
  BY <1>1 DEF Prepare, PrepareRun, HumanRetry, AutoRetry, BlockAutomaticRetry,
              Start, StartReserve, LaunchNoChild, LaunchStarted,
              LaunchUncertain, StartRecord, Exit, ExitFinalize, ExitCommit,
              Stop, StopSignal, StopFinalize, StopMark, StopConfirm,
              StopUncertain, Human, HumanCancel, HumanCancelsAgain,
              CancelInactive, Accept, Reject
<1>4. ASSUME Failure
      PROVE  Same \/ server' = "down"
  BY <1>1, <1>4 DEF Failure, OperationFails, HandlerFails, Crash, BootFails,
                    ServerLost, storeVars, procVars
<1> QED
  BY <1>2, <1>3, <1>4 DEF Next, vars, storeVars, procVars, serverVars

(* A start of the server keeps what it knows, and is refused for no other  *)
(* reason than the one stated.                                             *)
LEMMA StepKeepsBoot ==
  ASSUME SafetyInvariant, ProofKept, BootKnows, [Next]_vars
  PROVE  BootKnows'
<1> USE BoundsAssumption DEF SafetyInvariant, TypeOK, DataTypeOK, FlagTypeOK,
        Attempts, Open
<1> DEFINE Kept == UNCHANGED <<provider, cur, att, sess, final, intent, record>>
<1>1. CASE server' \in {"up", "down"}
  BY <1>1 DEF BootKnows, RefusedIsExplained
<1>2. CASE UNCHANGED <<server, provider, runState, cur, att, sess, final,
                       intent, record, route>>
  BY <1>2 DEF BootKnows, RefusedIsExplained, Unfinalized, Recoverable,
              StartupCandidate
<1>3. (server = "routed" /\ Recoverable) => cur # 0
  BY DEF Recoverable, StartupCandidate, Begun
<1>4. CASE BootRoutesDocker
  <2>1. /\ Kept /\ runState' = runState /\ server' = "routed"
        /\ route' = [a \in Attempts |-> a = cur /\ Unfinalized]
    BY <1>4 DEF BootRoutesDocker, Boot, storeVars
  <2>2. Unfinalized' <=> Unfinalized
    BY <2>1 DEF Unfinalized, Recoverable, StartupCandidate
  <2>3. ASSUME cur # 0 PROVE route'[cur] <=> Unfinalized
    <3>1. cur \in Attempts /\ route'[cur] = (cur = cur /\ Unfinalized)
      BY <2>1, <2>3
    <3> QED
      BY <3>1 DEF Unfinalized
  <2> QED
    BY <2>1, <2>2, <2>3 DEF BootKnows, RefusedIsExplained, Unfinalized
<1>5. CASE BootRoutesTrusted
  <2>1. /\ Kept /\ provider = "trusted_host"
        /\ route' = [a \in Attempts |-> a = cur /\ Unfinalized /\ record[a]]
        /\ server' = IF Unfinalized /\ ~record[cur] THEN "refused"
                                                    ELSE "routed"
    BY <1>5 DEF BootRoutesTrusted, Boot, storeVars
  <2>2. ASSUME cur # 0, route'[cur] PROVE ~final[cur]
    <3>1. /\ cur \in Attempts
          /\ route'[cur] = (cur = cur /\ Unfinalized /\ record[cur])
      BY <2>1, <2>2
    <3> QED
      BY <2>2, <3>1 DEF Unfinalized
  <2>3. server' = "refused" => ~record[cur] /\ ~final[cur]
    BY <2>1 DEF Unfinalized
  <2> QED
    BY <2>1, <2>2, <2>3 DEF BootKnows, RefusedIsExplained
<1>6. CASE BootDetect
  <2>1. /\ Kept /\ server = "routed" /\ route' = route
        /\ server' = IF Recoverable THEN "detected" ELSE "up"
    BY <1>6 DEF BootDetect, Boot, procVars
  <2>2. SUFFICES ASSUME Recoverable PROVE BootKnows'
    BY <1>1, <2>1
  <2>3. cur \in Attempts /\ (route[cur] => ~final[cur])
    BY <1>3, <2>1, <2>2 DEF BootKnows
  <2>4. ASSUME provider = "docker", ~route[cur]
        PROVE  /\ att[cur] \in Open /\ intent[cur] # "none"
               /\ sess[cur] = "stopped" /\ final[cur]
    <3>1. final[cur]
      BY <2>1, <2>2, <2>3, <2>4 DEF BootKnows, Unfinalized
    <3>2. runState \in {"stopping", "recovery_required"}
      BY <2>2, <2>3, <3>1 DEF Recoverable, StartupCandidate, RunMatchesAttempt
    <3>3. CASE runState = "stopping"
      BY <3>1, <3>3 DEF ProofKept
    <3>4. CASE runState = "recovery_required"
      BY <2>2, <2>3, <3>1, <3>4
         DEF Recoverable, StartupCandidate, ProofKept
    <3> QED
      BY <3>2, <3>3, <3>4
  <2> QED
    BY <2>1, <2>2, <2>3, <2>4 DEF BootKnows, RefusedIsExplained
<1>7. CASE BootUnknown
  <2>1. Kept /\ server = "detected" /\ ~route[cur] /\ cur # 0
    BY <1>7 DEF BootUnknown, storeVars, procVars, StartupKnows
  <2>2. CASE provider = "docker"
    <3>1. server' = "refused"
      BY <1>7, <2>2 DEF BootUnknown, Boot
    <3> QED
      BY <2>1, <2>2, <3>1 DEF BootKnows, RefusedIsExplained
  <2>3. CASE provider # "docker"
    BY <1>1, <1>7, <2>3 DEF BootUnknown, Boot
  <2> QED
    BY <2>2, <2>3
<1>8. CASE BootStop
  <2>1. Kept /\ server = "detected" /\ server' \in {"detected", "up"}
        /\ UNCHANGED <<route, runState>>
    BY <1>8 DEF BootStop, Boot, storeVars
  <2> QED
    BY <1>1, <1>2, <2>1
<1>9. CASE BootInterrupt
  <2>1. /\ server = "detected" /\ route[cur] /\ cur \in Attempts
        /\ cur' = cur /\ ~final[cur]
    BY <1>9 DEF BootInterrupt, StartupKnows, BootKnows
  <2>2. CASE sess[cur] = "stopped"
    <3>1. att' = att /\ server' = "stopped"
      BY <1>9, <2>1, <2>2 DEF BootInterrupt, Boot, StoppedMeansDrained
    <3>2. att[cur] = "interrupted"
      BY <2>1, <2>2 DEF ProofKept
    <3> QED
      BY <2>1, <3>1, <3>2 DEF BootKnows, RefusedIsExplained
  <2>3. CASE sess[cur] # "stopped"
    <3>1. /\ att' = [att EXCEPT ![cur] = "interrupted"]
          /\ server' = "stopped"
      BY <1>9, <2>3 DEF BootInterrupt, Boot
    <3> QED
      BY <2>1, <3>1 DEF BootKnows, RefusedIsExplained
  <2> QED
    BY <2>2, <2>3
<1>10. CASE BootFinalize
  <2>1. /\ server = "stopped" /\ server' = "finalized"
        /\ UNCHANGED <<cur, att>>
    BY <1>10 DEF BootFinalize, Boot, storeVars
  <2> QED
    BY <2>1 DEF BootKnows, RefusedIsExplained
<1>11. CASE BootMark
  BY <1>1, <1>11 DEF BootMark, Boot
<1>12. CASE server = "up"
  <2>1. ~Startup
    BY <1>12 DEF Startup, BootRoutesDocker, BootRoutesTrusted, BootDetect,
                 BootUnknown, BootStop, BootInterrupt, BootFinalize, BootMark
  <2> QED
    BY <1>1, <1>12, <2>1, ServerSteps
<1> QED
  BY <1>1, <1>2, <1>4, <1>5, <1>6, <1>7, <1>8, <1>9, <1>10, <1>11, <1>12,
     DownFrame DEF Startup

(* Before the first Attempt there is nothing to know.                      *)
LEMMA InitDeath == ASSUME Init PROVE DeathInvariant
  BY DEF Init, DeathInvariant, ProofKept, StopKnows, BootKnows,
         RefusedIsExplained, Idle, Op

(* What is known of an Attempt's death stays known.                        *)
THEOREM DeathKnown == Spec => []DeathInvariant
<1>1. Init => DeathInvariant
  BY InitDeath
<1>2. /\ SafetyInvariant /\ RecoveryInvariant /\ DeathInvariant
      /\ [Next]_vars
      => DeathInvariant'
  BY StepKeepsProof, StepKeepsStop, StepKeepsBoot
     DEF DeathInvariant, RecoveryInvariant
<1> QED
  BY <1>1, <1>2, Safety, RecoveryKnown, PTL DEF Spec

(* A start of the server is refused for one reason under each provider.    *)
THEOREM RefusalsAreExplained == Spec => []RefusedIsExplained
<1>1. DeathInvariant => RefusedIsExplained
  BY DEF DeathInvariant, BootKnows
<1> QED
  BY <1>1, DeathKnown, PTL
-----------------------------------------------------------------------------
(***************************************************************************)
(* The lifecycle as a user of the supervisor's contract.                   *)
(***************************************************************************)
(* Only a launch makes a process, and processes end one at a time.         *)
LEMMA ProcessSavers ==
  ASSUME [Next]_vars
  PROVE  \/ UNCHANGED proc
         \/ LaunchStarted \/ LaunchUncertain \/ StopSignal
         \/ BootRoutesDocker \/ BootStop
         \/ \E a \in Attempts : ProcessDies(a)
<1>1. ASSUME NEW a \in Attempts, Monitor(a)
      PROVE  UNCHANGED proc
  BY <1>1 DEF Monitor, MonitorLeaves, MonitorSeesExit, MonitorSeesViolation,
              MonitorUncertain, Decide, ExitEnter, MonitorPolices,
              MonitorIntervenes, MonitorStops, procVars
<1>2. CASE Human \/ Prepare
  BY <1>2 DEF Human, HumanCancel, HumanCancelsAgain, CancelInactive, Accept,
              Reject, Prepare, PrepareRun, HumanRetry, AutoRetry,
              InsertAttempt, BlockAutomaticRetry, procVars
<1>3. CASE Start \/ Exit
  BY <1>3 DEF Start, StartReserve, LaunchNoChild, StartRecord, Exit,
              ExitFinalize, SupervisorFinalize, ExitCommit, procVars
<1>4. CASE Stop \/ Failure
  BY <1>4 DEF Stop, StopFinalize, SupervisorFinalize, StopMark, StopConfirm,
              StopUncertain, Failure, OperationFails, HandlerFails, Crash,
              BootFails, ServerLost, procVars
<1>5. CASE Startup
  BY <1>5 DEF Startup, BootRoutesTrusted, BootDetect, BootUnknown,
              BootInterrupt, BootFinalize, SupervisorFinalize, BootMark,
              procVars
<1> QED
  BY <1>1, <1>2, <1>3, <1>4, <1>5 DEF Next, vars, procVars

(* What claims a launch, and what ends one.                                *)
LEMMA LaunchSavers ==
  ASSUME [Next]_vars, TypeOK
  PROVE  \/ StartReserve
         \/ op.pc = "launch" /\ (\/ LaunchNoChild \/ LaunchStarted
                                 \/ LaunchUncertain \/ OperationFails
                                 \/ Crash \/ BootFails)
         \/ Launching' = Launching
<1> DEFINE Same == op' = op \/ (op.pc # "launch" /\ op'.pc # "launch")
<1>0. op \in [pc : OpPcs, att : 0..MaxAttempts, how : Hows, ver : Nat]
  BY DEF TypeOK, DataTypeOK
<1>1. Same => Launching' = Launching
  BY DEF Launching
<1>2. ASSUME NEW a \in Attempts, Monitor(a) \/ ProcessDies(a)
      PROVE  Same
  BY <1>2 DEF Monitor, MonitorLeaves, MonitorSeesExit, MonitorSeesViolation,
              MonitorUncertain, Decide, ExitEnter, MonitorPolices,
              MonitorIntervenes, MonitorStops, EnterStop, CancelsAgain,
              ProcessDies, storeVars, serverVars, Op, Free
<1>3. CASE Human
  BY <1>1, <1>3 DEF Human, HumanCancel, HumanCancelsAgain, EnterStop,
              CancelsAgain, CancelInactive, Accept, Reject, storeVars,
              serverVars, Op, Free
<1>4. CASE Prepare
  BY <1>1, <1>4 DEF Prepare, PrepareRun, HumanRetry, AutoRetry, InsertAttempt,
              BlockAutomaticRetry, serverVars
<1>5. CASE Start \/ Exit
  BY <1>0, <1>1, <1>5
     DEF Start, StartRecord, LaunchNoChild, LaunchStarted, LaunchUncertain,
         Exit, ExitFinalize, ExitCommit, Idle, Op
<1>6. CASE Stop
  <2>1. op.pc # "launch"
    BY <1>6 DEF Stop, StopSignal, StopFinalize, StopMark, StopConfirm,
                StopUncertain
  <2>2. ASSUME StopSignal \/ StopFinalize \/ StopMark
        PROVE  \/ op' = Idle
               \/ \E pc \in {"confirm", "stopFinalize", "uncertain",
                             "stopMark"} : op' = [op EXCEPT !.pc = pc]
    BY <2>2 DEF StopSignal, StopFinalize, StopMark, AfterStop, GoTo
  <2>3. op'.pc # "launch"
    BY <1>0, <1>6, <2>2 DEF Stop, StopConfirm, StopUncertain, Idle, Op
  <2> QED
    BY <1>1, <2>1, <2>3
<1>7. CASE Failure
  <2>1. CASE HandlerFails
    BY <1>1, <2>1 DEF HandlerFails
  <2>2. CASE ~HandlerFails /\ op.pc # "launch"
    BY <1>1, <1>7, <2>2 DEF Failure, OperationFails, Crash, BootFails,
                            ServerLost, Idle, Op
  <2> QED
    BY <1>7, <2>1, <2>2 DEF Failure
<1>8. CASE Startup
  BY <1>1, <1>8
     DEF Startup, BootRoutesDocker, BootRoutesTrusted, BootDetect, BootUnknown,
         BootStop, BootInterrupt, BootFinalize, BootMark, Boot
<1> QED
  BY <1>1, <1>2, <1>3, <1>4, <1>5, <1>6, <1>7, <1>8
     DEF Next, vars, serverVars

(* A process that ends while no launch is claimed and nothing is recorded. *)
LEMMA DeathMoves ==
  ASSUME TypeOK, NEW a \in Attempts, proc' = [proc EXCEPT ![a] = "dead"],
         Launching' = Launching, ProvenDead' = ProvenDead
  PROVE  Process!Die(a) \/ UNCHANGED <<Launching, Living, ProvenDead>>
<1> USE DEF TypeOK, DataTypeOK
<1>1. CASE proc[a] = "alive"
  <2>1. a \in Living /\ Living' = Living \ {a}
    BY <1>1 DEF Living
  <2> QED
    BY <2>1 DEF Process!Die
<1>2. CASE proc[a] # "alive"
  BY <1>2 DEF Living
<1> QED
  BY <1>1, <1>2

(* A record of an Attempt's end, made while it has no process.             *)
LEMMA RecordMoves ==
  ASSUME NEW a \in Attempts, proc[a] # "alive", op.pc # "launch",
         op'.pc # "launch", proc' = proc, ProvenDead' = ProvenDead \cup {a}
  PROVE  Process!Prove(a)
<1>1. /\ Launching = {} /\ Launching' = {} /\ Living' = Living
      /\ a \notin Launching \cup Living
  BY DEF Launching, Living
<1> QED
  BY <1>1 DEF Process!Prove

(* Every step of the lifecycle is a step of the contract or changes        *)
(* nothing the contract speaks of.                                         *)
LEMMA LifecycleMoves ==
  ASSUME SafetyInvariant, RecoveryInvariant, DeathInvariant, [Next]_vars
  PROVE  \/ \E a \in Attempts : \/ Process!Claim(a) \/ Process!Launch(a)
                              \/ Process!Die(a) \/ Process!Prove(a)
         \/ UNCHANGED <<Launching, Living, ProvenDead>>
<1> USE BoundsAssumption DEF SafetyInvariant, TypeOK, DataTypeOK, FlagTypeOK,
        Attempts
<1>0. op \in [pc : OpPcs, att : 0..MaxAttempts, how : Hows, ver : Nat]
  OBVIOUS
<1>1. proc' = proc => Living' = Living
  BY DEF Living
<1>2. UNCHANGED <<sess, final>> => ProvenDead' = ProvenDead
  BY DEF ProvenDead
<1>3. op.pc # "launch" => Launching = {}
  BY DEF Launching
<1>4. op'.pc # "launch" => Launching' = {}
  BY DEF Launching
<1>5. CASE StartReserve
  <2>1. /\ cur \in Attempts /\ op.pc = "idle" /\ runState = "ready"
        /\ sess[cur] = "none" /\ ~final[cur] /\ proc' = proc
        /\ sess' = [sess EXCEPT ![cur] = "starting"] /\ final' = final
        /\ op' = Op("launch", cur, "none", 0)
    BY <1>5 DEF StartReserve, Free, Begun, FinalHasSession, procVars
  <2>2. Launching = {} /\ Living = {}
    BY <1>3, <2>1 DEF LiveProcessIsOwned, Living
  <2>3. Launching' = {cur}
    BY <2>1 DEF Launching, Op
  <2>4. ProvenDead' = ProvenDead \ {cur}
    BY <2>1 DEF ProvenDead
  <2> QED
    BY <1>1, <2>1, <2>2, <2>3, <2>4 DEF Process!Claim
<1>6. CASE op.pc = "launch" /\ (\/ LaunchNoChild \/ LaunchStarted
                                \/ LaunchUncertain \/ OperationFails
                                \/ Crash \/ BootFails)
  <2>1. op.att \in Attempts /\ UNCHANGED <<sess, final>>
    BY <1>6 DEF CommandKnows, LaunchNoChild, LaunchStarted, LaunchUncertain,
                OperationFails, Crash, BootFails, ServerLost, storeVars
  <2>2. op'.pc # "launch"
    <3>1. CASE OperationFails \/ Crash \/ BootFails
      BY <3>1 DEF OperationFails, Crash, BootFails, ServerLost, Idle, Op
    <3>2. CASE LaunchNoChild \/ LaunchStarted \/ LaunchUncertain
      <4>1. op'.pc = "record"
        BY <1>0, <3>2 DEF LaunchNoChild, LaunchStarted, LaunchUncertain
      <4> QED
        BY <4>1
    <3> QED
      BY <1>6, <3>1, <3>2
  <2>3. \/ proc' = proc
        \/ \E p \in {"alive", "dead"} : proc' = [proc EXCEPT ![op.att] = p]
    BY <1>6 DEF LaunchNoChild, LaunchStarted, LaunchUncertain, OperationFails,
                Crash, BootFails, ServerLost, procVars
  <2>4. proc[op.att] # "alive"
    BY <1>6 DEF CommandKnows
  <2>5. Living' \in {Living, Living \cup {op.att}}
    BY <2>1, <2>3, <2>4 DEF Living
  <2>6. Launching = {op.att}
    BY <1>6, <2>1 DEF Launching
  <2>7. op.att \in Launching /\ Launching' = Launching \ {op.att}
    BY <1>4, <2>2, <2>6
  <2> QED
    BY <1>2, <2>1, <2>5, <2>7 DEF Process!Launch
<1>7. ASSUME NEW a \in Attempts, ProcessDies(a)
      PROVE  Process!Die(a) \/ UNCHANGED <<Launching, Living, ProvenDead>>
  <2>1. /\ proc' = [proc EXCEPT ![a] = "dead"]
        /\ UNCHANGED <<sess, final, op>>
    BY <1>7 DEF ProcessDies, storeVars, serverVars
  <2> QED
    BY <1>2, <2>1, DeathMoves DEF Launching
<1>8. CASE StopSignal
  <2>1. /\ op.att = cur /\ op.pc = "signal" /\ UNCHANGED <<sess, final>>
        /\ op.att \in Attempts
    BY <1>8 DEF StopSignal, RecoveryInvariant, CleanupKnown, CommandKnows
  <2>2. op'.pc # "launch"
    <3>1. \/ op' = Idle
          \/ \E pc \in {"confirm", "stopFinalize", "uncertain"} :
               op' = [op EXCEPT !.pc = pc]
      BY <1>8 DEF StopSignal, AfterStop, GoTo
    <3> QED
      BY <1>0, <3>1 DEF Idle, Op
  <2>3. proc' = proc \/ proc' = [proc EXCEPT ![op.att] = "dead"]
    BY <1>8 DEF StopSignal
  <2> QED
    BY <1>1, <1>2, <1>3, <1>4, <2>1, <2>2, <2>3, DeathMoves
<1>9. CASE BootStop
  <2>1. /\ cur \in Attempts /\ UNCHANGED <<sess, final, op>>
        /\ proc' = proc \/ proc' = [proc EXCEPT ![cur] = "dead"]
    BY <1>9 DEF BootStop, Boot, StartupKnows, storeVars
  <2>2. Launching' = Launching
    BY <2>1 DEF Launching
  <2> QED
    BY <1>1, <1>2, <2>1, <2>2, DeathMoves
<1>10. CASE BootRoutesDocker
  <2>1. /\ UNCHANGED <<sess, final, op>>
        /\ proc' = [a \in Attempts |-> IF proc[a] = "alive" THEN "dead"
                                                         ELSE proc[a]]
    BY <1>10 DEF BootRoutesDocker, Boot, storeVars
  <2>2. Launching' = Launching
    BY <2>1 DEF Launching
  <2>3. CASE cur \in Attempts
    <3>1. Living \subseteq {cur} /\ Living' = {}
      BY <2>1 DEF Living, LiveProcessIsOwned
    <3>2. CASE cur \in Living
      BY <1>2, <2>1, <2>2, <2>3, <3>1, <3>2 DEF Process!Die
    <3>3. CASE cur \notin Living
      BY <1>2, <2>1, <2>2, <3>1, <3>3
    <3> QED
      BY <3>2, <3>3
  <2>4. CASE cur \notin Attempts
    <3>1. Living = {} /\ Living' = {}
      BY <2>1, <2>4 DEF Living, LiveProcessIsOwned
    <3> QED
      BY <1>2, <2>1, <2>2, <3>1
  <2> QED
    BY <2>3, <2>4
<1>11. CASE StartRecord
  <2>1. /\ op.att = cur /\ cur \in Attempts /\ op.pc = "record"
        /\ op'.pc # "launch" /\ proc' = proc
        /\ sess[cur] = "starting" /\ ~final[cur]
    BY <1>11 DEF StartRecord, CommandKnows, RunMatchesAttempt, Idle, Op,
                 procVars
  <2>2. CASE op.how = "no_child"
    <3>1. /\ sess' = [sess EXCEPT ![cur] = "failed"]
          /\ final' = [final EXCEPT ![cur] = TRUE]
          /\ proc[cur] # "alive"
      BY <1>11, <2>1, <2>2 DEF StartRecord, CommandKnows
    <3>2. ProvenDead' = ProvenDead \cup {cur}
      BY <2>1, <3>1 DEF ProvenDead
    <3> QED
      BY <2>1, <3>1, <3>2, RecordMoves
  <2>3. CASE op.how # "no_child"
    <3>1. /\ final' = final
          /\ \E s \in {"running", "lost"} : sess' = [sess EXCEPT ![cur] = s]
      BY <1>11, <2>1, <2>3 DEF StartRecord
    <3>2. ProvenDead' = ProvenDead
      BY <2>1, <3>1 DEF ProvenDead
    <3> QED
      BY <1>1, <1>3, <1>4, <2>1, <3>2
  <2> QED
    BY <2>2, <2>3
<1>12. CASE ExitCommit
  <2>1. /\ op.pc = "exitCommit" /\ op'.pc # "launch" /\ proc' = proc
        /\ op.att \in Attempts /\ proc[op.att] # "alive"
    BY <1>12 DEF ExitCommit, CommandKnows, Idle, Op, procVars
  <2>2. CASE ExitApplies(op.att)
    <3>1. /\ sess' = [sess EXCEPT ![op.att] = "stopped"]
          /\ final' = [final EXCEPT ![op.att] = TRUE]
      BY <1>12, <2>2 DEF ExitCommit, Submit, FinalizeSession
    <3>2. ProvenDead' = ProvenDead \cup {op.att}
      BY <2>1, <3>1 DEF ProvenDead
    <3> QED
      BY <2>1, <3>1, <3>2, RecordMoves
  <2>3. CASE ~ExitApplies(op.att)
    <3>1. UNCHANGED <<sess, final>>
      BY <1>12, <2>3 DEF ExitCommit
    <3> QED
      BY <1>1, <1>2, <1>3, <1>4, <2>1, <3>1
  <2> QED
    BY <2>2, <2>3
<1>13. CASE StopMark
  <2>1. /\ op.pc = "stopMark" /\ op'.pc # "launch" /\ proc' = proc
        /\ op.att \in Attempts /\ proc[op.att] # "alive"
        /\ sess' = [sess EXCEPT ![op.att] = "stopped"]
        /\ final' = [final EXCEPT ![op.att] = TRUE]
    BY <1>0, <1>13 DEF StopMark, GoTo, FinalizeSession, CommandKnows, procVars
  <2>2. ProvenDead' = ProvenDead \cup {op.att}
    BY <2>1 DEF ProvenDead
  <2> QED
    BY <2>1, <2>2, RecordMoves
<1>14. CASE BootInterrupt \/ BootMark
  <2>1. /\ cur \in Attempts /\ proc[cur] # "alive" /\ proc' = proc
        /\ op.pc # "launch" /\ op' = op
    BY <1>14 DEF BootInterrupt, BootMark, Boot, StartupKnows, CommandKnows,
                 procVars
  <2>2. \/ UNCHANGED <<sess, final>>
        \/ sess' = [sess EXCEPT ![cur] = "stopped"] /\ final' = final
        \/ final' = [final EXCEPT ![cur] = TRUE] /\ sess' = sess
    BY <1>14 DEF BootInterrupt, BootMark
  <2>3. CASE UNCHANGED <<sess, final>>
    BY <1>1, <1>2, <1>3, <1>4, <2>1, <2>3
  <2>4. CASE \/ sess' = [sess EXCEPT ![cur] = "stopped"] /\ final' = final
             \/ final' = [final EXCEPT ![cur] = TRUE] /\ sess' = sess
    <3>1. ProvenDead' = ProvenDead \cup {cur}
      BY <2>1, <2>4 DEF ProvenDead
    <3> QED
      BY <2>1, <2>4, <3>1, RecordMoves
  <2> QED
    BY <2>2, <2>3, <2>4
<1>15. ASSUME NEW how \in Hows, EnterStop(how)
       PROVE  ProvenDead' = ProvenDead
  <2>1. /\ sess' = [sess EXCEPT ![cur] = "stopping"] /\ final' = final
        /\ runState = "running" /\ cur \in Attempts
    BY <1>15 DEF EnterStop, Begun
  <2>2. sess[cur] # "stopped" /\ ~final[cur]
    BY <2>1 DEF DeathInvariant, ProofKept, RunMatchesAttempt, Open
  <2> QED
    BY <2>1, <2>2 DEF ProvenDead
<1>16. CASE StopUncertain
  <2>1. op.pc = "uncertain" /\ op'.pc # "launch" /\ proc' = proc
        /\ final' = final
    BY <1>16 DEF StopUncertain, Idle, Op, procVars
  <2>2. CASE runState = "stopping"
    <3>1. /\ sess' = [sess EXCEPT ![cur] = "lost"] /\ sess[cur] # "stopped"
      BY <1>16, <2>1, <2>2
         DEF StopUncertain, DeathInvariant, ProofKept, StopKnows
    <3>2. ProvenDead' = ProvenDead
      BY <2>1, <3>1 DEF ProvenDead
    <3> QED
      BY <1>1, <1>3, <1>4, <2>1, <3>2
  <2>3. CASE runState # "stopping"
    BY <1>1, <1>2, <1>3, <1>4, <1>16, <2>1, <2>3 DEF StopUncertain
  <2> QED
    BY <2>2, <2>3
<1>17. CASE /\ proc' = proc /\ Launching' = Launching
            /\ \/ UNCHANGED <<sess, final>>
               \/ \E how \in Hows : EnterStop(how)
  BY <1>1, <1>2, <1>15, <1>17
<1> QED
  BY <1>5, <1>6, <1>7, <1>8, <1>9, <1>10, <1>11, <1>12, <1>13, <1>14, <1>16,
     <1>17, LaunchSavers, ProcessSavers, SessionSavers
     DEF LaunchStarted, LaunchUncertain

(* The lifecycle uses the supervisor as its contract allows.               *)
THEOREM LifecycleKeepsContract == Spec => ImplementsSupervisedProcess
<1>1. Init => Process!Init
  BY DEF Init, Idle, Op, Process!Init, Launching, Living, ProvenDead
<1>2. SafetyInvariant /\ RecoveryInvariant /\ DeathInvariant /\ [Next]_vars
        => [Process!Next]_(Process!processVars)
  BY LifecycleMoves DEF Process!Next, Process!processVars
<1> QED
  BY <1>1, <1>2, Safety, RecoveryKnown, DeathKnown, PTL
     DEF Spec, ImplementsSupervisedProcess, Process!Spec
=============================================================================
