-------------------------- MODULE VerificationProofs --------------------------
(***************************************************************************)
(* Safety of Verification for every value of the constants: the invariants *)
(* that its run checks, by one inductive invariant, and from it that it    *)
(* implements VerdictOnce and RunMachine.                                  *)
(***************************************************************************)
EXTENDS Verification, RunTableProofs

(* Later outputs have no verification, and a completed one has a verdict.  *)
FutureUnverified == \A a \in Agents : a > cur => vrun[a] = "none"
CompletedIsJudged ==
  \A a \in Agents : vrun[a] = "completed" => result[a] # "none"

(* Only an attempt that exists is asked to stop.                           *)
AskedExists == \A k \in asked : try[k] # "none"

(* A verifier that reports success or a cancellation left no container.    *)
ReturnedIsClean ==
  \A k \in Keys :
    exec[k].at = "returned" /\ exec[k].class # "recovery" => k \notin boxes

(* Work in progress keeps its Room active.                                 *)
PendingHoldsRoom == Pending => room = "active"

(* Nothing runs in a server that does not.                                 *)
DownIsEmpty ==
  server \in {"down", "booting"} =>
    auto = 0 /\ \A k \in Keys : exec[k] = NoExecutor

(* What the store alone says, and what ties it to the executors.           *)
StoreInvariant ==
  /\ RecordsAgree /\ FutureUnverified /\ CompletedIsJudged /\ AskedExists
  /\ PendingHoldsRoom /\ ReviewIsVerified

ExecutorInvariant ==
  /\ ReturnedIsClean /\ DownIsEmpty /\ VerdictIsEarned /\ TerminalIsClean
  /\ OneVerifierPerRun

SafetyInvariant == TypeOK /\ StoreInvariant /\ ExecutorInvariant
-----------------------------------------------------------------------------
(* Types.                                                                  *)
LEMMA KeyParts ==
  ASSUME NEW k \in Keys
  PROVE  k[1] \in Agents /\ k[2] \in Tries /\ k = <<k[1], k[2]>>
BY DEF Keys

LEMMA CurrentIsKey ==
  ASSUME TypeOK, RecordsAgree, cur # 0, vrun[cur] # "none"
  PROVE  /\ cur \in Agents /\ last[cur] \in Tries /\ Current \in Keys
         /\ Current[1] = cur /\ Current[2] = last[cur]
<1>1. cur \in Agents
  BY BoundsAssumption DEF TypeOK, Agents
<1>2. last[cur] \in Tries
  <2>1. last[cur] # 0
    BY <1>1 DEF RecordsAgree, VerificationMatchesTry
  <2>2. last[cur] \in 0..MaxTries
    BY <1>1 DEF TypeOK
  <2> QED
    BY <2>1, <2>2, BoundsAssumption DEF Tries
<1> QED
  BY <1>1, <1>2 DEF Current, Keys

(* The executor that can record is that of the current attempt.            *)
LEMMA RunningIsCurrent ==
  ASSUME TypeOK, RecordsAgree, NEW k \in Keys, Running(k)
  PROVE  /\ cur # 0 /\ k = Current /\ k[1] = cur /\ k[2] = last[cur]
         /\ vrun[cur] = "verifying"
<1>1. k[1] \in Agents /\ k[2] \in Tries /\ k = <<k[1], k[2]>>
  BY KeyParts
<1>2. k[1] = cur /\ cur # 0
  BY <1>1 DEF Running, RecordsAgree, OthersAreOver, RunMatchesVerification
<1>3. k[2] = last[k[1]]
  <2>1. last[k[1]] \in 0..MaxTries
    BY <1>1 DEF TypeOK
  <2>2. ~(k[2] < last[k[1]]) /\ ~(k[2] > last[k[1]])
    BY DEF Running, RecordsAgree, OtherTriesGaveUp
  <2> QED
    BY <1>1, <2>1, <2>2, BoundsAssumption DEF Tries
<1> QED
  BY <1>1, <1>2, <1>3 DEF Current, Running

LEMMA RecordedType ==
  ASSUME NEW x \in Executor, NEW kind \in Kinds
  PROVE  Recorded(x, kind) \in Executor
<1> DEFINE evid == Append(x.evid, kind)
<1>1. evid \in Seq(Kinds)
  BY DEF Executor
<1> QED
  BY <1>1 DEF Recorded, Executor, Classes

LEMMA NoExecutorType == NoExecutor \in Executor
BY DEF NoExecutor, Executor

LEMMA SaveType ==
  ASSUME NEW s \in RunPhases, version \in Nat, SaveRun(s)
  PROVE  runState' \in RunPhases /\ version' \in Nat
BY DEF SaveRun

LEMMA FaultType ==
  ASSUME TypeOK, Fault PROVE faults' \in 0..MaxFaults
BY BoundsAssumption DEF TypeOK, Fault

(* The Agent's half, and the Room.                                         *)
LEMMA AgentType ==
  ASSUME TypeOK, RecordsAgree,
         \/ PrepareRun \/ PrepareAgentRetry \/ StartAgent \/ SubmitReport
         \/ Accept \/ Reject \/ ArchiveRoom \/ RestoreRoom
  PROVE  TypeOK'
<1> USE BoundsAssumption DEF TypeOK, recordVars, serverVars, RunPhases
<1>1. CASE PrepareRun
  BY <1>1 DEF PrepareRun, SaveRun, RecordsAgree, RunMatchesVerification
<1>2. CASE PrepareAgentRetry
  <2>1. cur' \in 0..MaxAttempts
    BY <1>2 DEF PrepareAgentRetry
  <2>2. retryOK' \in BOOLEAN
    BY <1>2, Zenon DEF PrepareAgentRetry
  <2> QED
    BY <1>2, <2>1, <2>2 DEF PrepareAgentRetry, SaveRun
<1>3. CASE StartAgent
  BY <1>3 DEF StartAgent, SaveRun
<1>4. CASE SubmitReport
  BY <1>4 DEF SubmitReport, SaveRun
<1>5. CASE Accept
  BY <1>5 DEF Accept, SaveRun
<1>6. CASE Reject
  BY <1>6 DEF Reject, SaveRun
<1>7. CASE ArchiveRoom \/ RestoreRoom
  BY <1>7 DEF ArchiveRoom, RestoreRoom, runVars
<1> QED
  BY <1>1, <1>2, <1>3, <1>4, <1>5, <1>6, <1>7

LEMMA BeginTryType ==
  ASSUME TypeOK, NEW a \in Agents, NEW n \in Tries, BeginTry(a, n),
         auto' \in Nat
  PROVE  TypeOK'
<1>1. <<a, n>> \in Keys /\ n \in 0..MaxTries
  BY BoundsAssumption DEF Keys, Tries
<1>2. exec' \in [Keys -> Executor]
  <2>1. \A c \in {"live", "cancelled"} :
          [NoExecutor EXCEPT !.at = "preparing", !.ctx = c] \in Executor
    BY NoExecutorType DEF Executor
  <2>2. PICK c \in {"live", "cancelled"} :
          exec' = [exec EXCEPT ![<<a, n>>] =
                     [NoExecutor EXCEPT !.at = "preparing", !.ctx = c]]
    BY DEF BeginTry, NoExecutor
  <2> QED
    BY <1>1, <2>1, <2>2 DEF TypeOK
<1>3. try' \in [Keys -> TryStates]
  BY <1>1 DEF BeginTry, TypeOK, TryStates
<1>4. vrun' \in [Agents -> VerificationRunStates]
  BY DEF BeginTry, TypeOK, VerificationRunStates
<1>5. runState' \in RunPhases /\ version' \in Nat
  BY DEF BeginTry, SaveRun, TypeOK, RunPhases
<1> QED
  BY <1>1, <1>2, <1>3, <1>4, <1>5 DEF BeginTry, TypeOK

(* Where a started attempt can begin.                                      *)
LEMMA StartableCurrent ==
  ASSUME TypeOK, RecordsAgree, Startable
  PROVE  cur \in Agents /\ 1 \in Tries
BY BoundsAssumption
DEF TypeOK, RecordsAgree, RunMatchesVerification, Startable, Agents, Tries

LEMMA RetryCurrent ==
  ASSUME TypeOK, RecordsAgree, RetryVerification
  PROVE  /\ cur \in Agents /\ last[cur] \in Tries /\ last[cur] + 1 \in Tries
<1>1. cur # 0 /\ vrun[cur] # "none"
  BY DEF RetryVerification, Retryable, RecordsAgree, RunMatchesVerification
<1>2. cur \in Agents /\ last[cur] \in Tries
  BY <1>1, CurrentIsKey
<1> QED
  BY <1>2, BoundsAssumption DEF RetryVerification, Tries

LEMMA StartType ==
  ASSUME TypeOK, RecordsAgree,
         StartVerification \/ RetryVerification \/ AutoStarter
  PROVE  TypeOK'
<1>1. auto \in Nat
  BY DEF TypeOK
<1>2. CASE StartVerification
  BY <1>1, <1>2, StartableCurrent, BeginTryType DEF StartVerification
<1>3. CASE RetryVerification
  BY <1>1, <1>3, RetryCurrent, BeginTryType DEF RetryVerification
<1>4. CASE AutoStart
  <2>1. CASE Startable /\ version = auto
    BY <1>4, <2>1, StartableCurrent, BeginTryType DEF AutoStart
  <2>2. CASE ~(Startable /\ version = auto)
    BY <1>4, <2>2 DEF AutoStart, TypeOK, storeVars, runVars, recordVars
  <2> QED
    BY <2>1, <2>2
<1>5. CASE AutoStartFails
  BY <1>5, FaultType DEF AutoStartFails, TypeOK, storeVars, runVars, recordVars
<1> QED
  BY <1>2, <1>3, <1>4, <1>5 DEF AutoStarter

LEMMA CancelType ==
  ASSUME TypeOK, RecordsAgree, CancelVerification PROVE TypeOK'
<1>1. Current \in Keys
  BY CurrentIsKey
  DEF CancelVerification, RecordsAgree, RunMatchesVerification
<1>2. exec' \in [Keys -> Executor]
  <2> DEFINE x == exec[Current]
             y == [x EXCEPT !.ctx = IF @ = "live" THEN "cancelled" ELSE @]
  <2>1. x \in Executor
    BY <1>1 DEF TypeOK
  <2>2. y \in Executor
    BY <2>1 DEF Executor
  <2>3. exec' = [exec EXCEPT ![Current] = y]
    BY <1>1 DEF CancelVerification
  <2> QED
    BY <1>1, <2>2, <2>3 DEF TypeOK
<1> QED
  BY <1>1, <1>2 DEF CancelVerification, TypeOK, runVars

(* The executor goroutine.                                                 *)
LEMMA ExecutorType ==
  ASSUME TypeOK, NEW k \in Keys,
         AttemptDeadline(k) \/ Verify(k) \/ CommitFails(k) \/ MarkFails(k)
  PROVE  TypeOK'
<1> USE DEF storeVars, runVars, recordVars
<1>1. exec' \in [Keys -> Executor]
  <2>1. exec[k] \in Executor
    BY DEF TypeOK
  <2>2. \A x \in Executor : exec' = [exec EXCEPT ![k] = x] =>
          exec' \in [Keys -> Executor]
    BY DEF TypeOK
  <2>3. CASE AttemptDeadline(k)
    <3>1. [exec[k] EXCEPT !.ctx = "expired"] \in Executor
      BY <2>1 DEF Executor
    <3> QED
      BY <2>2, <2>3, <3>1 DEF AttemptDeadline, TypeOK
  <2>4. CASE PrepareSandbox(k) \/ Cleanup(k) \/ CommitFails(k)
    <3>1. \A at \in {"executing", "returned", "doubt"} :
            [exec[k] EXCEPT !.at = at] \in Executor
      BY <2>1 DEF Executor
    <3> QED
      BY <2>2, <2>4, <3>1 DEF PrepareSandbox, Cleanup, CommitFails, TypeOK
  <2>5. CASE PrepareRefused(k) \/ TerminateFails(k) \/ CleanupFails(k)
    <3>1. \A at \in {"cleaning", "returned"} :
            [exec[k] EXCEPT !.at = at, !.class = "recovery"] \in Executor
      BY <2>1 DEF Executor, Classes
    <3> QED
      BY <2>2, <2>5, <3>1
      DEF PrepareRefused, TerminateFails, CleanupFails, AfterUnclean, TypeOK
  <2>6. CASE CommandEnd(k) \/ CommandCancelled(k)
    <3>1. \E kind \in Kinds : exec' = [exec EXCEPT ![k] = Recorded(@, kind)]
      BY <2>6 DEF CommandEnd, CommandCancelled, Kinds
    <3> QED
      BY <2>1, <2>2, <3>1, RecordedType DEF TypeOK
  <2>7. CASE MarkFails(k)
    BY <2>2, <2>7, NoExecutorType DEF MarkFails
  <2> QED
    BY <2>3, <2>4, <2>5, <2>6, <2>7 DEF Verify
<1>2. boxes' \subseteq Keys /\ faults' \in 0..MaxFaults
  <2>1. faults' = faults \/ Fault
    BY DEF AttemptDeadline, Verify, PrepareSandbox, PrepareRefused,
           CommandEnd, CommandCancelled, TerminateFails, Cleanup,
           CleanupFails, CommitFails, MarkFails
  <2>2. \/ boxes' = boxes \/ boxes' = boxes \cup {k} \/ boxes' = boxes \ {k}
    BY DEF AttemptDeadline, Verify, PrepareSandbox, PrepareRefused,
           CommandEnd, CommandCancelled, TerminateFails, Cleanup,
           CleanupFails, CommitFails, MarkFails
  <2> QED
    BY <2>1, <2>2, FaultType DEF TypeOK
<1>3. UNCHANGED <<storeVars, server, enabled, auto, crashes>>
  BY DEF AttemptDeadline, Verify, PrepareSandbox, PrepareRefused,
         CommandEnd, CommandCancelled, TerminateFails, Cleanup,
         CleanupFails, CommitFails, MarkFails
<1> QED
  BY <1>1, <1>2, <1>3 DEF TypeOK

LEMMA LeaveType ==
  ASSUME TypeOK, NEW k \in Keys, Leave(k)
  PROVE  exec' \in [Keys -> Executor] /\ faults' \in 0..MaxFaults
<1>1. CASE exec' = [exec EXCEPT ![k] = NoExecutor] /\ UNCHANGED faults
  BY <1>1, NoExecutorType DEF TypeOK
<1>2. CASE Fault /\ exec' = [exec EXCEPT ![k].at = "doubt"]
  <2>1. [exec[k] EXCEPT !.at = "doubt"] \in Executor
    BY DEF TypeOK, Executor
  <2> QED
    BY <1>2, <2>1, FaultType DEF TypeOK
<1> QED
  BY <1>1, <1>2 DEF Leave

LEMMA DistrustType ==
  ASSUME TypeOK, NEW k \in Keys, Distrust(k)
  PROVE  /\ runState' \in RunPhases /\ version' \in Nat
         /\ vrun' \in [Agents -> VerificationRunStates]
         /\ try' \in [Keys -> TryStates]
BY KeyParts
DEF Distrust, SaveRun, TypeOK, RunPhases, VerificationRunStates, TryStates

LEMMA CommitType ==
  ASSUME TypeOK, NEW k \in Keys,
         \/ CommitEvidence(k) \/ CommitCancellation(k)
         \/ CommitRecovery(k) \/ MarkRecovery(k)
  PROVE  TypeOK'
<1>1. k[1] \in Agents
  BY KeyParts
<1>2. exec[k].evid \in Seq(Kinds)
  BY DEF TypeOK, Executor
<1>3. ASSUME FinishCancellation(k)
      PROVE  /\ runState' \in RunPhases /\ version' \in Nat
             /\ vrun' \in [Agents -> VerificationRunStates]
             /\ try' \in [Keys -> TryStates]
             /\ result' = result /\ retryOK' = retryOK
  BY <1>1, <1>3 DEF FinishCancellation, SaveRun, TypeOK, RunPhases,
                    VerificationRunStates, TryStates
<1>4. ASSUME NEW v \in Outcomes, GiveVerdict(k, v)
      PROVE  /\ runState' \in RunPhases /\ version' \in Nat
             /\ vrun' \in [Agents -> VerificationRunStates]
             /\ try' \in [Keys -> TryStates]
             /\ result' \in [Agents -> Outcomes \cup {"none"}]
             /\ retryOK' \in BOOLEAN
  BY <1>1, <1>4 DEF GiveVerdict, AfterVerdict, SaveRun, TypeOK, RunPhases,
                    VerificationRunStates, TryStates
<1>5. CASE CommitEvidence(k)
  <2>1. Outcome(exec[k].evid) \in Outcomes
    BY DEF Outcome, Outcomes
  <2> QED
    BY <1>2, <1>3, <1>4, <1>5, <2>1, LeaveType DEF CommitEvidence, TypeOK
<1>6. CASE CommitCancellation(k)
  BY <1>2, <1>3, <1>6, LeaveType DEF CommitCancellation, TypeOK
<1>7. CASE CommitRecovery(k)
  BY <1>2, <1>7, LeaveType, DistrustType DEF CommitRecovery, TypeOK
<1>8. CASE MarkRecovery(k)
  <2>1. exec' \in [Keys -> Executor]
    BY <1>8, NoExecutorType DEF MarkRecovery, TypeOK
  <2>2. CASE ~AlreadySettled /\ Running(k)
    BY <1>8, <2>1, <2>2, DistrustType DEF MarkRecovery, TypeOK
  <2>3. CASE ~(~AlreadySettled /\ Running(k))
    BY <1>8, <2>1, <2>3
    DEF MarkRecovery, TypeOK, storeVars, runVars, recordVars
  <2> QED
    BY <2>2, <2>3
<1> QED
  BY <1>5, <1>6, <1>7, <1>8

LEMMA ServerType ==
  ASSUME TypeOK, RecordsAgree, Close \/ Exit \/ Crash \/ Boot PROVE TypeOK'
<1> USE BoundsAssumption DEF TypeOK, storeVars, runVars, recordVars, serverVars
<1>1. CASE Close
  <2>1. \A k \in Keys : [exec[k] EXCEPT !.ctx = "cancelled"] \in Executor
    BY DEF Executor
  <2> QED
    BY <1>1, <2>1 DEF Close
<1>2. CASE Exit \/ Crash
  <2>1. exec' \in [Keys -> Executor]
    BY <1>2, NoExecutorType DEF Exit, Crash, Stopped
  <2> QED
    BY <1>2, <2>1 DEF Exit, Crash, Stopped
<1>3. CASE BootRecover \/ BootRecoverFails \/ BootServe \/ BootFails
  BY <1>3, FaultType DEF BootRecover, BootRecoverFails, BootServe, BootFails
<1>4. ASSUME NEW a \in Agents, BootMark(a) PROVE TypeOK'
  <2>1. <<a, last[a]>> \in Keys
    BY <1>4 DEF BootMark, Candidate, Keys, Tries
  <2> QED
    BY <1>4, <2>1, DistrustType DEF BootMark
<1> QED
  BY <1>1, <1>2, <1>3, <1>4 DEF Boot

(* Types survive every step of a history whose records agree.              *)
LEMMA TypeStep ==
  ASSUME TypeOK, RecordsAgree, [Next]_vars PROVE TypeOK'
<1>1. CASE UNCHANGED vars
  BY <1>1 DEF TypeOK, vars, storeVars, runVars, recordVars, serverVars
<1>2. ASSUME NEW k \in Keys, AttemptDeadline(k) \/ Verify(k) \/ Commit(k)
      PROVE  TypeOK'
  BY <1>2, ExecutorType, CommitType DEF Commit
<1> QED
  BY <1>1, <1>2, AgentType, StartType, CancelType, ServerType
  DEF Next, Command, AutoStarter
-----------------------------------------------------------------------------
(* The store.                                                              *)
LEMMA StoreKept ==
  ASSUME StoreInvariant, UNCHANGED storeVars PROVE StoreInvariant'
BY DEF StoreInvariant, RecordsAgree, OthersAreOver, RunMatchesVerification,
       VerificationMatchesTry, OtherTriesGaveUp, FutureUnverified,
       CompletedIsJudged, AskedExists, PendingHoldsRoom, Pending,
       ReviewIsVerified, storeVars, runVars, recordVars

(* What a Run that moves on says of its current verification.              *)
LEMMA PhaseOfVerification ==
  ASSUME TypeOK, RecordsAgree, cur # 0
  PROVE  /\ cur \in Agents
         /\ runState \in {"ready", "running"} => vrun[cur] = "none"
         /\ runState \in {"awaiting_review", "revision_required", "accepted"}
              => vrun[cur] = "completed"
BY BoundsAssumption
DEF TypeOK, RecordsAgree, RunMatchesVerification, VerificationRunStates, Agents

LEMMA AgentStore ==
  ASSUME TypeOK, StoreInvariant,
         \/ PrepareRun \/ PrepareAgentRetry \/ StartAgent \/ SubmitReport
         \/ Accept \/ Reject
  PROVE  StoreInvariant'
<1>1. UNCHANGED recordVars /\ UNCHANGED room /\ room = "active"
  BY DEF PrepareRun, PrepareAgentRetry, StartAgent, SubmitReport, Accept,
         Reject, SaveRun
<1>2. FutureUnverified' /\ OthersAreOver'
  <2>1. \/ cur' = cur
        \/ cur' = cur + 1 /\ runState \in {"draft", "revision_required"}
    BY DEF PrepareRun, PrepareAgentRetry, StartAgent, SubmitReport, Accept,
           Reject
  <2>2. runState = "draft" <=> cur = 0
    BY DEF StoreInvariant, RecordsAgree, RunMatchesVerification
  <2>3. cur # 0 /\ runState = "revision_required" => vrun[cur] = "completed"
    BY PhaseOfVerification DEF StoreInvariant
  <2> QED
    BY <1>1, <2>1, <2>2, <2>3
    DEF StoreInvariant, RecordsAgree, FutureUnverified, OthersAreOver,
        recordVars, TypeOK, Agents
<1>3. RunMatchesVerification'
  <2>1. CASE PrepareRun \/ PrepareAgentRetry
    <3>1. cur' \in Agents /\ cur' > cur /\ runState' = "ready" /\ cur' # 0
      BY <2>1, BoundsAssumption
      DEF PrepareRun, PrepareAgentRetry, SaveRun, TypeOK, StoreInvariant,
          RecordsAgree, RunMatchesVerification, Agents
    <3>2. vrun[cur'] = "none"
      BY <3>1 DEF StoreInvariant, FutureUnverified
    <3> QED
      BY <1>1, <3>1, <3>2 DEF RunMatchesVerification, recordVars
  <2>2. CASE StartAgent \/ SubmitReport
    <3>1. cur # 0 /\ vrun[cur] = "none" /\ cur' = cur
          /\ runState' \in {"running", "awaiting_verification"}
      BY <2>2, PhaseOfVerification
      DEF StartAgent, SubmitReport, SaveRun, StoreInvariant, RecordsAgree,
          RunMatchesVerification
    <3>2. last[cur] = 0
      BY <3>1, PhaseOfVerification
      DEF StoreInvariant, RecordsAgree, VerificationMatchesTry
    <3> QED
      BY <1>1, <3>1, <3>2 DEF RunMatchesVerification, recordVars
  <2>3. CASE Accept \/ Reject
    <3>1. cur # 0 /\ vrun[cur] = "completed" /\ cur' = cur
          /\ runState' \in {"accepted", "revision_required"}
      BY <2>3, PhaseOfVerification
      DEF Accept, Reject, Reviewable, SaveRun, StoreInvariant, RecordsAgree,
          RunMatchesVerification
    <3> QED
      BY <1>1, <3>1 DEF RunMatchesVerification, recordVars
  <2> QED
    BY <2>1, <2>2, <2>3
<1>4. VerificationMatchesTry' /\ OtherTriesGaveUp' /\ CompletedIsJudged'
      /\ AskedExists'
  BY <1>1 DEF StoreInvariant, RecordsAgree, VerificationMatchesTry,
              OtherTriesGaveUp, CompletedIsJudged, AskedExists, recordVars
<1>5. PendingHoldsRoom'
  BY <1>1 DEF PendingHoldsRoom
<1>6. ReviewIsVerified'
  BY <1>1 DEF PrepareRun, PrepareAgentRetry, StartAgent, SubmitReport,
              Accept, Reject, Reviewable, SaveRun, ReviewIsVerified, recordVars
<1> QED
  BY <1>2, <1>3, <1>4, <1>5, <1>6 DEF StoreInvariant, RecordsAgree

LEMMA RoomStore ==
  ASSUME StoreInvariant, ArchiveRoom \/ RestoreRoom PROVE StoreInvariant'
<1>1. UNCHANGED <<runVars, recordVars>> /\ (Pending => room' = "active")
  BY DEF ArchiveRoom, RestoreRoom
<1> QED
  BY <1>1 DEF StoreInvariant, RecordsAgree, OthersAreOver,
       RunMatchesVerification, VerificationMatchesTry, OtherTriesGaveUp,
       FutureUnverified, CompletedIsJudged, AskedExists, PendingHoldsRoom,
       Pending, ReviewIsVerified, runVars, recordVars

(* The next Verification Attempt of an output without a verdict.           *)
NextTry(n) == /\ cur \in Agents /\ n \in Tries /\ n = last[cur] + 1
              /\ vrun[cur] \in {"none", "awaiting", "recovery_required"}
              /\ last[cur] # 0 =>
                   try[Current] \in {"cancelled", "recovery_required"}
              /\ runState # "verifying" /\ cur # 0

LEMMA StartIsNextTry ==
  ASSUME TypeOK, RecordsAgree,
         StartVerification \/ RetryVerification \/ AutoStarter
  PROVE  \/ UNCHANGED <<storeVars, boxes, server, exec>> /\ auto' = 0
         \/ /\ \E n \in Tries : NextTry(n) /\ BeginTry(cur, n)
            /\ server = "up" \/ auto # 0
<1>1. ASSUME Startable PROVE NextTry(1)
  <2>1. cur \in Agents /\ 1 \in Tries
    BY <1>1, StartableCurrent
  <2>2. last[cur] = 0
    BY <1>1, <2>1 DEF Startable, RecordsAgree, VerificationMatchesTry
  <2> QED
    BY <1>1, <2>1, <2>2 DEF NextTry, Startable, Agents
<1>2. CASE StartVerification
  BY <1>1, <1>2, StartableCurrent DEF StartVerification
<1>3. CASE RetryVerification
  <2>1. cur \in Agents /\ last[cur] + 1 \in Tries
    BY <1>3, RetryCurrent
  <2> QED
    BY <1>3, <2>1 DEF RetryVerification, Retryable, NextTry, Agents
<1>4. CASE AutoStarter
  BY <1>1, <1>4, StartableCurrent DEF AutoStarter, AutoStart, AutoStartFails
<1> QED
  BY <1>2, <1>3, <1>4

LEMMA BeginTryStore ==
  ASSUME TypeOK, StoreInvariant, NEW n \in Tries, NextTry(n), BeginTry(cur, n)
  PROVE  StoreInvariant'
<1> USE DEF NextTry, BeginTry
<1>1. /\ runState' = "verifying" /\ cur' = cur
      /\ vrun'[cur] = "verifying" /\ last'[cur] = n
      /\ <<cur, n>> \in Keys /\ try'[<<cur, n>>] = "running"
      /\ \A a \in Agents : a # cur => vrun'[a] = vrun[a] /\ last'[a] = last[a]
      /\ \A k \in Keys : k # <<cur, n>> => try'[k] = try[k]
  BY DEF TypeOK, SaveRun, Keys
<1>2. OthersAreOver' /\ RunMatchesVerification' /\ FutureUnverified'
  BY <1>1 DEF StoreInvariant, RecordsAgree, OthersAreOver,
              RunMatchesVerification, FutureUnverified, TypeOK, Agents
<1>3. VerificationMatchesTry'
  <2> SUFFICES ASSUME NEW a \in Agents
      PROVE  LET state == try'[<<a, last'[a]>>]
             IN  /\ vrun'[a] = "none" <=> last'[a] = 0
                 /\ vrun'[a] = "awaiting" => state = "cancelled"
                 /\ vrun'[a] = "verifying" => state = "running"
                 /\ vrun'[a] = "completed" => state = "completed"
                 /\ vrun'[a] = "recovery_required" =>
                      state = "recovery_required"
    BY DEF VerificationMatchesTry
  <2>1. CASE a = cur
    BY <1>1, <2>1 DEF Tries
  <2>2. CASE a # cur /\ last[a] = 0
    BY <1>1, <2>2 DEF StoreInvariant, RecordsAgree, VerificationMatchesTry
  <2>3. CASE a # cur /\ last[a] # 0
    <3>1. <<a, last[a]>> \in Keys /\ <<a, last[a]>> # <<cur, n>>
      BY <2>3, BoundsAssumption DEF Keys, TypeOK, Tries
    <3> QED
      BY <1>1, <2>3, <3>1
      DEF StoreInvariant, RecordsAgree, VerificationMatchesTry
  <2> QED
    BY <2>1, <2>2, <2>3
<1>4. OtherTriesGaveUp'
  <2> SUFFICES ASSUME NEW k \in Keys
      PROVE  /\ k[2] < last'[k[1]] =>
                  try'[k] \in {"cancelled", "recovery_required"}
             /\ k[2] > last'[k[1]] => try'[k] = "none"
    BY DEF OtherTriesGaveUp
  <2>1. k[1] \in Agents /\ k[2] \in Tries /\ k = <<k[1], k[2]>>
    BY KeyParts
  <2>2. CASE k[1] # cur
    BY <1>1, <2>1, <2>2 DEF StoreInvariant, RecordsAgree, OtherTriesGaveUp
  <2>3. CASE k[1] = cur /\ k[2] < n
    <3>1. k[2] < last[cur] \/ k[2] = last[cur]
      BY <2>1, <2>3, BoundsAssumption DEF TypeOK, Tries
    <3>2. try'[k] = try[k]
      BY <1>1, <2>1, <2>3 DEF Tries
    <3>3. k[2] = last[cur] => last[cur] # 0 /\ k = Current
      BY <2>1, <2>3 DEF Tries, Current
    <3>4. k[2] < last[cur] => try[k] \in {"cancelled", "recovery_required"}
      BY <2>3 DEF StoreInvariant, RecordsAgree, OtherTriesGaveUp
    <3> QED
      BY <1>1, <2>1, <2>3, <3>1, <3>2, <3>3, <3>4 DEF Tries
  <2>4. CASE k[1] = cur /\ k[2] = n
    BY <1>1, <2>4 DEF Tries
  <2>5. CASE k[1] = cur /\ k[2] > n
    <3>1. k[2] > last[cur] /\ k # <<cur, n>>
      BY <2>1, <2>5, BoundsAssumption DEF TypeOK, Tries
    <3> QED
      BY <1>1, <2>1, <2>5, <3>1
      DEF StoreInvariant, RecordsAgree, OtherTriesGaveUp, Tries
  <2> QED
    BY <2>1, <2>2, <2>3, <2>4, <2>5 DEF Tries
<1>5. CompletedIsJudged'
  BY <1>1 DEF StoreInvariant, CompletedIsJudged
<1>6. AskedExists'
  BY <1>1 DEF StoreInvariant, AskedExists, TypeOK
<1>7. PendingHoldsRoom' /\ ReviewIsVerified'
  BY <1>1 DEF PendingHoldsRoom, ReviewIsVerified, SaveRun
<1> QED
  BY <1>2, <1>3, <1>4, <1>5, <1>6, <1>7 DEF StoreInvariant, RecordsAgree

LEMMA CancelStore ==
  ASSUME TypeOK, StoreInvariant, CancelVerification PROVE StoreInvariant'
<1>1. AskedExists'
  BY DEF CancelVerification, StoreInvariant, AskedExists
<1>2. UNCHANGED <<runVars, vrun, last, try, result, room>>
  BY DEF CancelVerification
<1> QED
  BY <1>1, <1>2 DEF StoreInvariant, RecordsAgree, OthersAreOver,
       RunMatchesVerification, VerificationMatchesTry, OtherTriesGaveUp,
       FutureUnverified, CompletedIsJudged, PendingHoldsRoom,
       Pending, ReviewIsVerified, runVars

(* The running attempt ends, in whichever way, in one transaction.         *)
Ends == {<<"awaiting_verification", "awaiting", "cancelled">>,
         <<"verification_recovery_required", "recovery_required",
           "recovery_required">>,
         <<"awaiting_review", "completed", "completed">>,
         <<"revision_required", "completed", "completed">>}

EndTry(k, e) == /\ Running(k) /\ SaveRun(e[1])
                /\ vrun' = [vrun EXCEPT ![k[1]] = e[2]]
                /\ try' = [try EXCEPT ![k] = e[3]]
                /\ UNCHANGED <<cur, last, asked, room>>

LEMMA EndTryRecords ==
  ASSUME TypeOK, StoreInvariant, NEW k \in Keys, NEW e \in Ends, EndTry(k, e)
  PROVE  RecordsAgree' /\ FutureUnverified' /\ AskedExists'
<1>1. /\ cur # 0 /\ k = Current /\ k[1] = cur /\ k[2] = last[cur]
      /\ cur \in Agents /\ last[cur] \in Tries
  BY RunningIsCurrent, CurrentIsKey, KeyParts DEF EndTry, StoreInvariant
<1>2. /\ runState' = e[1] /\ vrun'[cur] = e[2] /\ try'[k] = e[3]
      /\ UNCHANGED <<cur, last, asked, room>>
      /\ \A a \in Agents : a # cur => vrun'[a] = vrun[a]
      /\ \A j \in Keys : j # k => try'[j] = try[j]
  BY <1>1 DEF EndTry, SaveRun, TypeOK
<1>3. OthersAreOver' /\ FutureUnverified'
  BY <1>1, <1>2
  DEF StoreInvariant, RecordsAgree, OthersAreOver, FutureUnverified, TypeOK,
      Agents
<1>4. RunMatchesVerification'
  BY <1>1, <1>2 DEF RunMatchesVerification, Ends, Tries
<1>5. VerificationMatchesTry'
  <2> SUFFICES ASSUME NEW a \in Agents
      PROVE  LET state == try'[<<a, last[a]>>]
             IN  /\ vrun'[a] = "none" <=> last[a] = 0
                 /\ vrun'[a] = "awaiting" => state = "cancelled"
                 /\ vrun'[a] = "verifying" => state = "running"
                 /\ vrun'[a] = "completed" => state = "completed"
                 /\ vrun'[a] = "recovery_required" =>
                      state = "recovery_required"
    BY <1>2 DEF VerificationMatchesTry
  <2>1. CASE a = cur
    BY <1>1, <1>2, <2>1 DEF Ends, Tries, Current
  <2>2. CASE a # cur /\ last[a] = 0
    BY <1>2, <2>2 DEF StoreInvariant, RecordsAgree, VerificationMatchesTry
  <2>3. CASE a # cur /\ last[a] # 0
    <3>1. <<a, last[a]>> \in Keys /\ <<a, last[a]>> # k
      BY <1>1, <2>3, BoundsAssumption DEF Keys, TypeOK, Tries
    <3> QED
      BY <1>2, <2>3, <3>1
      DEF StoreInvariant, RecordsAgree, VerificationMatchesTry
  <2> QED
    BY <2>1, <2>2, <2>3
<1>6. OtherTriesGaveUp'
  <2> SUFFICES ASSUME NEW j \in Keys
      PROVE  /\ j[2] < last[j[1]] =>
                  try'[j] \in {"cancelled", "recovery_required"}
             /\ j[2] > last[j[1]] => try'[j] = "none"
    BY <1>2 DEF OtherTriesGaveUp
  <2>1. CASE j = k
    BY <1>1, <2>1 DEF Tries
  <2>2. CASE j # k
    BY <1>2, <2>2 DEF StoreInvariant, RecordsAgree, OtherTriesGaveUp
  <2> QED
    BY <2>1, <2>2
<1>7. AskedExists'
  BY <1>2 DEF StoreInvariant, AskedExists, Ends, TypeOK
<1> QED
  BY <1>3, <1>4, <1>5, <1>6, <1>7 DEF RecordsAgree

(* An attempt that gives no verdict leaves those there are.                *)
LEMMA DropStore ==
  ASSUME TypeOK, StoreInvariant, NEW k \in Keys, Running(k),
         FinishCancellation(k) \/ Distrust(k),
         UNCHANGED <<cur, last, asked, result, room>>
  PROVE  StoreInvariant'
<1>1. PICK e \in Ends : EndTry(k, e) /\ e[2] \in {"awaiting", "recovery_required"}
                      /\ e[1] \notin {"awaiting_review", "accepted"}
  <2>1. CASE FinishCancellation(k)
    <3> DEFINE e == <<"awaiting_verification", "awaiting", "cancelled">>
    <3>1. EndTry(k, e) /\ e \in Ends
      BY <2>1 DEF FinishCancellation, EndTry, Ends
    <3> QED
      BY <3>1
  <2>2. CASE Distrust(k)
    <3> DEFINE e == <<"verification_recovery_required", "recovery_required",
                      "recovery_required">>
    <3>1. EndTry(k, e) /\ e \in Ends
      BY <2>2 DEF Distrust, EndTry, Ends
    <3> QED
      BY <3>1
  <2> QED
    BY <2>1, <2>2
<1>2. RecordsAgree' /\ FutureUnverified' /\ AskedExists'
  BY <1>1, EndTryRecords
<1>3. CompletedIsJudged'
  BY <1>1, KeyParts DEF EndTry, StoreInvariant, CompletedIsJudged, TypeOK
<1>4. PendingHoldsRoom' /\ ReviewIsVerified'
  BY <1>1 DEF EndTry, SaveRun, PendingHoldsRoom, ReviewIsVerified
<1> QED
  BY <1>2, <1>3, <1>4 DEF StoreInvariant

LEMMA VerdictStore ==
  ASSUME TypeOK, StoreInvariant, NEW k \in Keys, NEW v \in Outcomes,
         Running(k), GiveVerdict(k, v), UNCHANGED <<cur, last, asked, room>>
  PROVE  StoreInvariant'
<1> DEFINE e == <<AfterVerdict(v), "completed", "completed">>
<1>1. e \in Ends /\ EndTry(k, e)
  BY DEF AfterVerdict, Ends, EndTry, GiveVerdict
<1>2. RecordsAgree' /\ FutureUnverified' /\ AskedExists'
  <2> HIDE DEF e
  <2> QED
    BY <1>1, EndTryRecords
<1>3. k[1] \in Agents /\ k[1] = cur /\ result'[cur] = v
      /\ \A a \in Agents : a # cur => /\ result'[a] = result[a]
                                     /\ vrun'[a] = vrun[a]
  BY RunningIsCurrent, KeyParts DEF GiveVerdict, TypeOK, StoreInvariant
<1>4. CompletedIsJudged'
  BY <1>3 DEF StoreInvariant, CompletedIsJudged, Outcomes
<1>5. PendingHoldsRoom' /\ ReviewIsVerified'
  BY <1>3 DEF GiveVerdict, AfterVerdict, SaveRun, PendingHoldsRoom,
              ReviewIsVerified, Outcomes
<1> QED
  BY <1>2, <1>4, <1>5 DEF StoreInvariant

LEMMA CommitStore ==
  ASSUME TypeOK, StoreInvariant, NEW k \in Keys, Commit(k)
  PROVE  StoreInvariant'
<1>1. CASE CommitEvidence(k)
  <2>1. Outcome(exec[k].evid) \in Outcomes
    BY DEF Outcome, Outcomes
  <2>2. CASE Withdrawn(k)
    BY <1>1, <2>2, DropStore DEF CommitEvidence, FinishCancellation
  <2>3. CASE ~Withdrawn(k)
    BY <1>1, <2>1, <2>3, VerdictStore DEF CommitEvidence
  <2> QED
    BY <2>2, <2>3
<1>2. CASE CommitCancellation(k)
  BY <1>2, DropStore DEF CommitCancellation, FinishCancellation
<1>3. CASE CommitRecovery(k)
  BY <1>3, DropStore DEF CommitRecovery
<1>4. CASE MarkRecovery(k)
  BY <1>4, DropStore, StoreKept DEF MarkRecovery
<1>5. CASE CommitFails(k) \/ MarkFails(k)
  BY <1>5, StoreKept DEF CommitFails, MarkFails
<1> QED
  BY <1>1, <1>2, <1>3, <1>4, <1>5 DEF Commit

LEMMA BootMarkStore ==
  ASSUME TypeOK, StoreInvariant, NEW a \in Agents, BootMark(a)
  PROVE  StoreInvariant'
<1>1. <<a, last[a]>> \in Keys
  BY BoundsAssumption DEF BootMark, Candidate, TypeOK, Keys, Tries
<1> QED
  BY <1>1, DropStore DEF BootMark

LEMMA StoreStep ==
  ASSUME TypeOK, StoreInvariant, [Next]_vars PROVE StoreInvariant'
<1>1. CASE UNCHANGED vars
  BY <1>1, StoreKept DEF vars
<1>2. CASE Command
  <2>1. CASE StartVerification \/ RetryVerification
    BY <2>1, StartIsNextTry, BeginTryStore, StoreKept DEF StoreInvariant
  <2> QED
    BY <1>2, <2>1, AgentStore, RoomStore, CancelStore DEF Command
<1>3. CASE AutoStarter
  BY <1>3, StartIsNextTry, BeginTryStore, StoreKept DEF StoreInvariant
<1>4. ASSUME NEW k \in Keys, AttemptDeadline(k) \/ Verify(k) \/ Commit(k)
      PROVE  StoreInvariant'
  <2>1. CASE AttemptDeadline(k) \/ Verify(k)
    BY <2>1, StoreKept
    DEF AttemptDeadline, Verify, PrepareSandbox, PrepareRefused, CommandEnd,
        CommandCancelled, TerminateFails, Cleanup, CleanupFails
  <2> QED
    BY <1>4, <2>1, CommitStore
<1>5. CASE Close \/ Exit \/ Crash \/ Boot
  BY <1>5, BootMarkStore, StoreKept
  DEF Close, Exit, Crash, Stopped, Boot, BootRecover, BootRecoverFails,
      BootServe, BootFails
<1> QED
  BY <1>1, <1>2, <1>3, <1>4, <1>5 DEF Next
-----------------------------------------------------------------------------
(* The executors.                                                          *)

(* Only an output under verification has an executor that can record.      *)
LEMMA RecordingVerifies ==
  ASSUME OneVerifierPerRun, NEW k \in Keys, Recording(k)
  PROVE  /\ runState = "verifying" /\ try[k] = "running"
         /\ k = Current /\ vrun[k[1]] = "verifying"
BY DEF OneVerifierPerRun, Running

LEMMA ExecutorKept ==
  ASSUME ExecutorInvariant,
         UNCHANGED <<recordVars, exec, server, auto>>, boxes' \subseteq boxes,
         \/ UNCHANGED runVars
         \/ runState # "verifying"
  PROVE  ExecutorInvariant'
<1>1. ReturnedIsClean' /\ DownIsEmpty'
  BY DEF ExecutorInvariant, ReturnedIsClean, DownIsEmpty
<1>2. VerdictIsEarned' /\ TerminalIsClean'
  BY DEF ExecutorInvariant, VerdictIsEarned, TerminalIsClean, Complete,
         recordVars
<1>3. OneVerifierPerRun'
  BY RecordingVerifies
  DEF ExecutorInvariant, OneVerifierPerRun, Recording, Running, Current,
      recordVars, runVars
<1> QED
  BY <1>1, <1>2, <1>3 DEF ExecutorInvariant

LEMMA AgentExecutor ==
  ASSUME ExecutorInvariant,
         \/ PrepareRun \/ PrepareAgentRetry \/ StartAgent \/ SubmitReport
         \/ Accept \/ Reject \/ ArchiveRoom \/ RestoreRoom
  PROVE  ExecutorInvariant'
<1>1. CASE SubmitReport
  <2>1. /\ UNCHANGED <<recordVars, exec, boxes, server>>
        /\ server = "up" /\ runState # "verifying"
    BY <1>1 DEF SubmitReport
  <2>2. ReturnedIsClean' /\ DownIsEmpty' /\ VerdictIsEarned' /\ TerminalIsClean'
    BY <2>1 DEF ExecutorInvariant, ReturnedIsClean, DownIsEmpty,
                VerdictIsEarned, TerminalIsClean, Complete, recordVars
  <2>3. OneVerifierPerRun'
    BY <2>1, RecordingVerifies
    DEF ExecutorInvariant, OneVerifierPerRun, Recording
  <2> QED
    BY <2>2, <2>3 DEF ExecutorInvariant
<1>2. CASE \/ PrepareRun \/ PrepareAgentRetry \/ StartAgent
           \/ Accept \/ Reject \/ ArchiveRoom \/ RestoreRoom
  BY <1>2, ExecutorKept
  DEF PrepareRun, PrepareAgentRetry, StartAgent, Accept, Reject, Reviewable,
      ArchiveRoom, RestoreRoom, serverVars
<1> QED
  BY <1>1, <1>2

LEMMA BeginTryExecutor ==
  ASSUME TypeOK, StoreInvariant, ExecutorInvariant, NEW n \in Tries,
         NextTry(n), BeginTry(cur, n), server = "up" \/ auto # 0
  PROVE  ExecutorInvariant'
<1> USE DEF NextTry, BeginTry
<1> DEFINE k == <<cur, n>>
<1>1. /\ k \in Keys /\ exec'[k].at = "preparing"
      /\ runState' = "verifying" /\ vrun'[cur] = "verifying"
      /\ try'[k] = "running" /\ last'[cur] = n
      /\ \A j \in Keys : j # k => exec'[j] = exec[j] /\ try'[j] = try[j]
      /\ \A a \in Agents : a # cur => last'[a] = last[a] /\ vrun'[a] = vrun[a]
  BY DEF TypeOK, SaveRun, Keys, NoExecutor
<1>2. ReturnedIsClean'
  BY <1>1 DEF ExecutorInvariant, ReturnedIsClean
<1>3. DownIsEmpty'
  BY DEF ExecutorInvariant, DownIsEmpty
<1>4. VerdictIsEarned'
  <2> SUFFICES ASSUME NEW a \in Agents, result[a] # "none"
      PROVE  LET j == <<a, last'[a]>>
             IN  /\ vrun'[a] = "completed" /\ try'[j] = "completed"
                 /\ Complete(rows[j]) /\ j \notin asked /\ j \notin boxes
    BY DEF VerdictIsEarned, Complete
  <2>1. vrun[a] = "completed" /\ a # cur
    BY DEF ExecutorInvariant, VerdictIsEarned
  <2>2. <<a, last[a]>> \in Keys
    <3>1. last[a] # 0
      BY <2>1 DEF StoreInvariant, RecordsAgree, VerificationMatchesTry
    <3> QED
      BY <3>1, BoundsAssumption DEF TypeOK, Keys, Tries
  <2> QED
    BY <1>1, <2>1, <2>2 DEF ExecutorInvariant, VerdictIsEarned
<1>5. TerminalIsClean'
  BY <1>1 DEF ExecutorInvariant, TerminalIsClean
<1>6. OneVerifierPerRun'
  <2>1. \A j \in Keys : ~Recording(j)
    BY RecordingVerifies DEF ExecutorInvariant
  <2> QED
    BY <1>1, <2>1 DEF OneVerifierPerRun, Recording, Running, Current, Agents
<1> QED
  BY <1>2, <1>3, <1>4, <1>5, <1>6 DEF ExecutorInvariant

LEMMA CancelExecutor ==
  ASSUME TypeOK, StoreInvariant, ExecutorInvariant, CancelVerification
  PROVE  ExecutorInvariant'
<1>1. Current \in Keys /\ cur \in Agents /\ cur # 0
  BY CurrentIsKey
  DEF CancelVerification, StoreInvariant, RecordsAgree, RunMatchesVerification
<1>2. /\ \A k \in Keys : exec'[k].at = exec[k].at /\ exec'[k].class = exec[k].class
      /\ UNCHANGED <<runVars, vrun, last, try, rows, result, boxes, server, auto>>
      /\ asked' = asked \cup {Current} /\ vrun[cur] = "verifying"
      /\ server = "up"
  BY <1>1 DEF CancelVerification, TypeOK, Executor
<1>3. ReturnedIsClean' /\ DownIsEmpty' /\ TerminalIsClean'
  BY <1>2 DEF ExecutorInvariant, ReturnedIsClean, DownIsEmpty, TerminalIsClean
<1>4. VerdictIsEarned'
  BY <1>2 DEF ExecutorInvariant, VerdictIsEarned, Complete, Current
<1>5. OneVerifierPerRun'
  BY <1>2 DEF ExecutorInvariant, OneVerifierPerRun, Recording, Running,
              Current, runVars
<1> QED
  BY <1>3, <1>4, <1>5 DEF ExecutorInvariant

(* While an attempt runs nothing of it is judged.                          *)
LEMMA RunningIsUnjudged ==
  ASSUME TypeOK, StoreInvariant, ExecutorInvariant, NEW k \in Keys, Running(k),
         NEW a \in Agents, result[a] # "none"
  PROVE  a # k[1] /\ <<a, last[a]>> # k /\ <<a, last[a]>> \in Keys
<1>1. vrun[a] = "completed"
  BY DEF ExecutorInvariant, VerdictIsEarned
<1>2. last[a] # 0
  BY <1>1 DEF StoreInvariant, RecordsAgree, VerificationMatchesTry
<1> QED
  BY <1>1, <1>2, KeyParts, BoundsAssumption DEF Running, TypeOK, Keys, Tries

(* The executor works: what it adds to the containers is its own, running. *)
LEMMA VerifyExecutor ==
  ASSUME TypeOK, StoreInvariant, ExecutorInvariant, NEW k \in Keys,
         AttemptDeadline(k) \/ Verify(k)
  PROVE  ExecutorInvariant'
<1> USE DEF Verify
<1>1. /\ UNCHANGED storeVars /\ UNCHANGED server /\ UNCHANGED auto
      /\ \A j \in Keys : j # k => exec'[j] = exec[j]
  BY DEF TypeOK, AttemptDeadline, PrepareSandbox, PrepareRefused, CommandEnd,
         CommandCancelled, TerminateFails, Cleanup, CleanupFails
<1>2. Recording(k)
  BY DEF Recording, AttemptDeadline, PrepareSandbox, PrepareRefused,
         CommandEnd, CommandCancelled, TerminateFails, Cleanup, CleanupFails
<1>3. boxes' \subseteq boxes \cup {k}
  BY DEF AttemptDeadline, PrepareSandbox, PrepareRefused, CommandEnd,
         CommandCancelled, TerminateFails, Cleanup, CleanupFails
<1>4. Running(k) /\ server \notin {"down", "booting"}
  <2>1. Running(k)
    BY <1>2 DEF ExecutorInvariant, OneVerifierPerRun
  <2>2. exec[k] # NoExecutor
    BY <1>2 DEF Recording, NoExecutor
  <2> QED
    BY <2>1, <2>2 DEF ExecutorInvariant, DownIsEmpty
<1>5. ReturnedIsClean'
  <2>1. exec[k] \in Executor
    BY DEF TypeOK
  <2>2. ASSUME exec'[k].at = "returned", exec'[k].class # "recovery"
        PROVE  k \notin boxes'
    <3>1. CASE AttemptDeadline(k) \/ PrepareSandbox(k) \/ TerminateFails(k)
      <4>1. exec'[k].at \in {"preparing", "executing", "cleaning"}
        <5>1. CASE AttemptDeadline(k)
          BY <2>1, <5>1 DEF AttemptDeadline, TypeOK, Executor
        <5>2. CASE PrepareSandbox(k) \/ TerminateFails(k)
          BY <2>1, <5>2 DEF PrepareSandbox, TerminateFails, TypeOK, Executor
        <5> QED
          BY <3>1, <5>1, <5>2
      <4> QED
        BY <2>2, <4>1
    <3>2. CASE PrepareRefused(k) \/ CleanupFails(k)
      BY <2>1, <2>2, <3>2
      DEF PrepareRefused, CleanupFails, AfterUnclean, TypeOK, Executor
    <3>3. CASE Cleanup(k)
      BY <3>3 DEF Cleanup
    <3>4. CASE CommandEnd(k) \/ CommandCancelled(k)
      <4>1. PICK kind \in Kinds : exec' = [exec EXCEPT ![k] = Recorded(@, kind)]
        BY <3>4 DEF CommandEnd, CommandCancelled, Kinds
      <4>2. exec[k].at = "executing"
        BY <3>4 DEF CommandEnd, CommandCancelled
      <4>3. exec'[k].at \in {"executing", "cleaning"}
        BY <2>1, <4>1, <4>2 DEF Recorded, TypeOK, Executor
      <4> QED
        BY <2>2, <4>3
    <3> QED
      BY <3>1, <3>2, <3>3, <3>4
  <2>3. ASSUME NEW j \in Keys, j # k,
               exec'[j].at = "returned", exec'[j].class # "recovery"
        PROVE  j \notin boxes'
    BY <1>1, <1>3, <2>3 DEF ExecutorInvariant, ReturnedIsClean
  <2> QED
    BY <2>2, <2>3 DEF ReturnedIsClean
<1>6. DownIsEmpty'
  BY <1>1, <1>4 DEF DownIsEmpty
<1>7. VerdictIsEarned'
  BY <1>1, <1>3, <1>4, RunningIsUnjudged
  DEF ExecutorInvariant, VerdictIsEarned, Complete, storeVars, recordVars
<1>8. TerminalIsClean'
  BY <1>1, <1>3, <1>4
  DEF ExecutorInvariant, TerminalIsClean, Running, storeVars, recordVars
<1>9. OneVerifierPerRun'
  <2>1. cur # 0 /\ k = Current
    BY <1>2 DEF ExecutorInvariant, OneVerifierPerRun
  <2> QED
    BY <1>1, <1>4, <2>1
    DEF ExecutorInvariant, OneVerifierPerRun, Recording, Running, Current,
        storeVars, runVars, recordVars
<1> QED
  BY <1>5, <1>6, <1>7, <1>8, <1>9 DEF ExecutorInvariant

(* After its transaction the executor records no more.                     *)
LEMMA LeftRecordsNothing ==
  ASSUME TypeOK, NEW k \in Keys,
         Leave(k) \/ CommitFails(k) \/ MarkRecovery(k) \/ MarkFails(k)
  PROVE  /\ ~Recording(k)' /\ (exec'[k].at # "returned")
         /\ \A j \in Keys : j # k => exec'[j] = exec[j]
<1>1. CASE exec' = [exec EXCEPT ![k] = NoExecutor]
  BY <1>1 DEF TypeOK, NoExecutor, Recording
<1>2. CASE exec' = [exec EXCEPT ![k].at = "doubt"]
  BY <1>2 DEF TypeOK, Executor, Recording
<1> QED
  BY <1>1, <1>2 DEF Leave, CommitFails, MarkRecovery, MarkFails

(* The records end with the attempt: nothing else was recording.           *)
LEMMA EndExecutor ==
  ASSUME TypeOK, StoreInvariant, ExecutorInvariant, NEW k \in Keys, Running(k),
         \/ Leave(k) /\ exec[k].at = "returned"
         \/ MarkRecovery(k)
         \/ server = "booting" /\ UNCHANGED exec,
         UNCHANGED <<cur, boxes, server, auto>>
  PROVE  ReturnedIsClean' /\ DownIsEmpty' /\ OneVerifierPerRun'
<1>1. \A j \in Keys : Recording(j) => j = k
  BY RunningIsCurrent DEF ExecutorInvariant, OneVerifierPerRun, StoreInvariant
<1>2. CASE \/ Leave(k) /\ exec[k].at = "returned"
           \/ MarkRecovery(k)
  <2>1. exec[k] # NoExecutor
    BY <1>2 DEF MarkRecovery, NoExecutor
  <2> QED
    BY <1>1, <1>2, <2>1, LeftRecordsNothing
    DEF ExecutorInvariant, ReturnedIsClean, DownIsEmpty, OneVerifierPerRun,
        Recording
<1>3. CASE server = "booting" /\ UNCHANGED exec
  BY <1>3 DEF ExecutorInvariant, ReturnedIsClean, DownIsEmpty,
              OneVerifierPerRun, Recording, NoExecutor
<1> QED
  BY <1>2, <1>3

LEMMA DropExecutor ==
  ASSUME TypeOK, StoreInvariant, ExecutorInvariant, NEW k \in Keys, Running(k),
         \/ Distrust(k)
         \/ FinishCancellation(k) /\ k \notin boxes,
         \/ Leave(k) /\ exec[k].at = "returned"
         \/ MarkRecovery(k)
         \/ server = "booting" /\ UNCHANGED exec,
         rows' = rows \/ rows' = [rows EXCEPT ![k] = exec[k].evid],
         UNCHANGED <<cur, last, asked, result, boxes, server, auto>>
  PROVE  ExecutorInvariant'
<1>1. ReturnedIsClean' /\ DownIsEmpty' /\ OneVerifierPerRun'
  BY EndExecutor
<1>2. /\ \A a \in Agents : a # k[1] => vrun'[a] = vrun[a]
      /\ \A j \in Keys : j # k => try'[j] = try[j] /\ rows'[j] = rows[j]
      /\ try'[k] = "recovery_required" \/ k \notin boxes
  BY KeyParts DEF Distrust, FinishCancellation, TypeOK
<1>3. VerdictIsEarned'
  BY <1>2, RunningIsUnjudged DEF ExecutorInvariant, VerdictIsEarned, Complete
<1>4. TerminalIsClean'
  BY <1>2 DEF ExecutorInvariant, TerminalIsClean
<1> QED
  BY <1>1, <1>3, <1>4 DEF ExecutorInvariant

LEMMA VerdictExecutor ==
  ASSUME TypeOK, StoreInvariant, ExecutorInvariant, NEW k \in Keys,
         NEW v \in Outcomes, Running(k), GiveVerdict(k, v), Leave(k),
         exec[k].at = "returned", exec[k].class = "completed",
         Complete(exec[k].evid), ~Withdrawn(k),
         rows' = [rows EXCEPT ![k] = exec[k].evid],
         UNCHANGED <<cur, last, asked, boxes, server, auto>>
  PROVE  ExecutorInvariant'
<1>1. ReturnedIsClean' /\ DownIsEmpty' /\ OneVerifierPerRun'
  BY EndExecutor
<1>2. k \notin boxes
  BY DEF ExecutorInvariant, ReturnedIsClean
<1>3. /\ vrun'[k[1]] = "completed" /\ try'[k] = "completed"
      /\ rows'[k] = exec[k].evid
      /\ \A a \in Agents : a # k[1] => /\ vrun'[a] = vrun[a]
                                     /\ result'[a] = result[a]
      /\ \A j \in Keys : j # k => try'[j] = try[j] /\ rows'[j] = rows[j]
  BY KeyParts DEF GiveVerdict, TypeOK
<1>4. VerdictIsEarned'
  <2> SUFFICES ASSUME NEW a \in Agents, result'[a] # "none"
      PROVE  LET j == <<a, last[a]>>
             IN  /\ vrun'[a] = "completed" /\ try'[j] = "completed"
                 /\ Complete(rows'[j]) /\ j \notin asked /\ j \notin boxes
    BY DEF VerdictIsEarned, Complete
  <2>1. CASE a = k[1]
    <3>1. k = <<a, last[a]>>
      BY <2>1, RunningIsCurrent, KeyParts DEF StoreInvariant
    <3> QED
      BY <1>2, <1>3, <2>1, <3>1 DEF Withdrawn
  <2>2. CASE a # k[1]
    BY <1>3, <2>2, RunningIsUnjudged DEF ExecutorInvariant, VerdictIsEarned
  <2> QED
    BY <2>1, <2>2
<1>5. TerminalIsClean'
  BY <1>2, <1>3 DEF ExecutorInvariant, TerminalIsClean
<1> QED
  BY <1>1, <1>4, <1>5 DEF ExecutorInvariant

LEMMA CommitExecutor ==
  ASSUME TypeOK, StoreInvariant, ExecutorInvariant, NEW k \in Keys, Commit(k)
  PROVE  ExecutorInvariant'
<1>1. ASSUME exec[k].at = "returned", exec[k].class # "recovery"
      PROVE  k \notin boxes
  BY <1>1 DEF ExecutorInvariant, ReturnedIsClean
<1>2. CASE CommitEvidence(k)
  <2>1. Outcome(exec[k].evid) \in Outcomes
    BY DEF Outcome, Outcomes
  <2>2. CASE Withdrawn(k)
    BY <1>1, <1>2, <2>2, DropExecutor DEF CommitEvidence, FinishCancellation
  <2>3. CASE ~Withdrawn(k)
    BY <1>2, <2>1, <2>3, VerdictExecutor DEF CommitEvidence
  <2> QED
    BY <2>2, <2>3
<1>3. CASE CommitCancellation(k)
  BY <1>1, <1>3, DropExecutor DEF CommitCancellation, FinishCancellation
<1>4. CASE CommitRecovery(k)
  BY <1>4, DropExecutor DEF CommitRecovery
<1>5. CASE MarkRecovery(k) /\ ~AlreadySettled /\ Running(k)
  BY <1>5, DropExecutor DEF MarkRecovery
<1>6. CASE \/ CommitFails(k) \/ MarkFails(k)
           \/ MarkRecovery(k) /\ ~(~AlreadySettled /\ Running(k))
  <2>1. UNCHANGED <<storeVars, boxes, server, auto>> /\ exec[k] # NoExecutor
    BY <1>6 DEF CommitFails, MarkFails, MarkRecovery, NoExecutor
  <2>2. ReturnedIsClean' /\ DownIsEmpty'
    BY <1>6, <2>1, LeftRecordsNothing
    DEF ExecutorInvariant, ReturnedIsClean, DownIsEmpty
  <2>3. OneVerifierPerRun'
    BY <1>6, <2>1, LeftRecordsNothing
    DEF ExecutorInvariant, OneVerifierPerRun, Recording, Running, Current,
        storeVars, runVars, recordVars
  <2>4. VerdictIsEarned' /\ TerminalIsClean'
    BY <2>1 DEF ExecutorInvariant, VerdictIsEarned, TerminalIsClean, Complete,
                storeVars, recordVars
  <2> QED
    BY <2>2, <2>3, <2>4 DEF ExecutorInvariant
<1> QED
  BY <1>2, <1>3, <1>4, <1>5, <1>6 DEF Commit

LEMMA ServerExecutor ==
  ASSUME TypeOK, StoreInvariant, ExecutorInvariant,
         Close \/ Exit \/ Crash \/ Boot
  PROVE  ExecutorInvariant'
<1>1. CASE Close
  <2>1. /\ \A k \in Keys : /\ exec'[k].at = exec[k].at
                           /\ exec'[k].class = exec[k].class
        /\ UNCHANGED <<storeVars, boxes>> /\ server' = "closing"
    BY <1>1 DEF Close, TypeOK, Executor
  <2> QED
    BY <2>1 DEF ExecutorInvariant, ReturnedIsClean, DownIsEmpty,
                VerdictIsEarned, TerminalIsClean, OneVerifierPerRun, Recording,
                Running, Current, Complete, storeVars, runVars, recordVars
<1>2. CASE Exit \/ Crash
  <2>1. /\ \A k \in Keys : exec'[k] = NoExecutor
        /\ UNCHANGED <<storeVars, boxes>> /\ auto' = 0
    BY <1>2 DEF Exit, Crash, Stopped
  <2>2. ReturnedIsClean' /\ DownIsEmpty' /\ OneVerifierPerRun'
    BY <2>1 DEF ReturnedIsClean, DownIsEmpty, OneVerifierPerRun, Recording,
                NoExecutor
  <2>3. VerdictIsEarned' /\ TerminalIsClean'
    BY <2>1 DEF ExecutorInvariant, VerdictIsEarned, TerminalIsClean, Complete,
                storeVars, recordVars
  <2> QED
    BY <2>2, <2>3 DEF ExecutorInvariant
<1>3. CASE BootRecover \/ BootRecoverFails \/ BootServe \/ BootFails
  <2>1. /\ UNCHANGED <<storeVars, auto, exec>> /\ boxes' \subseteq boxes
        /\ server \in {"down", "booting"}
    BY <1>3 DEF BootRecover, BootRecoverFails, BootServe, BootFails
  <2> QED
    BY <2>1 DEF ExecutorInvariant, ReturnedIsClean, DownIsEmpty,
                VerdictIsEarned, TerminalIsClean, OneVerifierPerRun, Recording,
                Running, Current, Complete, storeVars, runVars, recordVars
<1>4. ASSUME NEW a \in Agents, BootMark(a) PROVE ExecutorInvariant'
  <2>1. <<a, last[a]>> \in Keys
    BY <1>4, BoundsAssumption DEF BootMark, Candidate, TypeOK, Keys, Tries
  <2> QED
    BY <1>4, <2>1, DropExecutor DEF BootMark, serverVars
<1> QED
  BY <1>1, <1>2, <1>3, <1>4 DEF Boot

LEMMA ExecutorStep ==
  ASSUME TypeOK, StoreInvariant, ExecutorInvariant, [Next]_vars
  PROVE  ExecutorInvariant'
<1>1. CASE UNCHANGED vars
  BY <1>1, ExecutorKept DEF vars, storeVars, serverVars
<1>2. CASE StartVerification \/ RetryVerification \/ AutoStarter
  <2>1. CASE UNCHANGED <<storeVars, boxes, server, exec>> /\ auto' = 0
    BY <2>1 DEF ExecutorInvariant, ReturnedIsClean, DownIsEmpty,
                VerdictIsEarned, TerminalIsClean, OneVerifierPerRun, Recording,
                Running, Current, Complete, storeVars, runVars, recordVars
  <2> QED
    BY <1>2, <2>1, StartIsNextTry, BeginTryExecutor DEF StoreInvariant
<1>3. ASSUME NEW k \in Keys, AttemptDeadline(k) \/ Verify(k) \/ Commit(k)
      PROVE  ExecutorInvariant'
  BY <1>3, VerifyExecutor, CommitExecutor
<1> QED
  BY <1>1, <1>2, <1>3, AgentExecutor, CancelExecutor, ServerExecutor
  DEF Next, Command
-----------------------------------------------------------------------------
LEMMA InitSafe == Init => SafetyInvariant
<1> SUFFICES ASSUME Init PROVE SafetyInvariant
  OBVIOUS
<1>1. TypeOK
  <2>1. rows \in [Keys -> Seq(Kinds)] /\ exec \in [Keys -> Executor]
    BY NoExecutorType DEF Init
  <2>2. /\ vrun \in [Agents -> VerificationRunStates]
        /\ last \in [Agents -> 0..MaxTries] /\ try \in [Keys -> TryStates]
        /\ result \in [Agents -> Outcomes \cup {"none"}]
    BY BoundsAssumption DEF Init, VerificationRunStates, TryStates
  <2>3. retryOK \in BOOLEAN /\ enabled \in BOOLEAN
    BY Zenon DEF Init
  <2> QED
    BY <2>1, <2>2, <2>3, BoundsAssumption DEF Init, TypeOK, RunPhases
<1>2. StoreInvariant
  BY DEF Init, StoreInvariant, RecordsAgree, OthersAreOver,
       RunMatchesVerification, VerificationMatchesTry, OtherTriesGaveUp,
       FutureUnverified, CompletedIsJudged, AskedExists, PendingHoldsRoom,
       Pending, ReviewIsVerified, Keys, Agents, Tries
<1>3. ExecutorInvariant
  BY DEF Init, ExecutorInvariant, ReturnedIsClean, DownIsEmpty,
         VerdictIsEarned, TerminalIsClean, OneVerifierPerRun, Recording,
         NoExecutor
<1> QED
  BY <1>1, <1>2, <1>3 DEF SafetyInvariant

(* The inductive invariant.                                                *)
THEOREM Safety == Spec => []SafetyInvariant
<1>1. SafetyInvariant /\ [Next]_vars => SafetyInvariant'
  BY TypeStep, StoreStep, ExecutorStep DEF SafetyInvariant, StoreInvariant
<1> QED
  BY <1>1, InitSafe, PTL DEF Spec

(* Every record, executor and counter has its type in every history.       *)
THEOREM TypeCorrect == Spec => []TypeOK
BY Safety, PTL DEF SafetyInvariant

(* Whatever commits, rolls back, is cancelled or is lost, the Run, its     *)
(* VerificationRun and its Verification Attempts say the same.             *)
THEOREM RecordsAlwaysAgree == Spec => []RecordsAgree
<1>1. SafetyInvariant => RecordsAgree
  BY DEF SafetyInvariant, StoreInvariant
<1> QED
  BY <1>1, Safety, PTL

(* CommitEvidence gives the only verdicts there are.                       *)
THEOREM VerdictsAreEarned == Spec => []VerdictIsEarned
<1>1. SafetyInvariant => VerdictIsEarned
  BY DEF SafetyInvariant, ExecutorInvariant
<1> QED
  BY <1>1, Safety, PTL

(* A finished attempt has no container left, also after a lost server.     *)
THEOREM FinishedIsClean == Spec => []TerminalIsClean
<1>1. SafetyInvariant => TerminalIsClean
  BY DEF SafetyInvariant, ExecutorInvariant
<1> QED
  BY <1>1, Safety, PTL

(* Two executors of one Run never both record.                             *)
THEOREM OneVerifier == Spec => []OneVerifierPerRun
<1>1. SafetyInvariant => OneVerifierPerRun
  BY DEF SafetyInvariant, ExecutorInvariant
<1> QED
  BY <1>1, Safety, PTL

(* ReviewVerifiedResult meets only outputs found ready for review.         *)
THEOREM OnlyVerifiedIsReviewed == Spec => []ReviewIsVerified
<1>1. SafetyInvariant => ReviewIsVerified
  BY DEF SafetyInvariant, StoreInvariant
<1> QED
  BY <1>1, Safety, PTL

LEMMA StartupAccepted == ASSUME SafetyInvariant PROVE StartupAccepts
<1> SUFFICES ASSUME NEW a \in Agents, Candidate(a), ~AlreadySettled
    PROVE  Running(<<a, last[a]>>) /\ room = "active"
  BY DEF StartupAccepts
<1>1. vrun[a] \in {"verifying", "recovery_required"}
  BY DEF Candidate
<1>2. a = cur /\ cur # 0
  BY <1>1 DEF SafetyInvariant, StoreInvariant, RecordsAgree, OthersAreOver,
              Agents
<1>3. runState = "verifying" /\ vrun[a] = "verifying"
  BY <1>1, <1>2 DEF SafetyInvariant, StoreInvariant, RecordsAgree,
                    RunMatchesVerification, AlreadySettled
<1>4. room = "active"
  BY <1>3 DEF SafetyInvariant, StoreInvariant, PendingHoldsRoom, Pending
<1> QED
  BY <1>3, <1>4 DEF Running, Candidate

(* RecoverStartup settles every candidate any history leaves it.           *)
THEOREM StartupNeverRefuses == Spec => []StartupAccepts
BY Safety, StartupAccepted, PTL

LEMMA WaitingVerifiable ==
  ASSUME SafetyInvariant PROVE WaitingCanBeVerified
<1> SUFFICES ASSUME enabled,
                    runState \in {"awaiting_verification",
                                 "verification_recovery_required"}
             PROVE  (Startable \/ Retryable) /\ result[cur] = "none"
  BY DEF WaitingCanBeVerified
<1>1. cur # 0 /\ room = "active"
  BY DEF SafetyInvariant, StoreInvariant, RecordsAgree,
         RunMatchesVerification, PendingHoldsRoom, Pending
<1>2. cur \in Agents
  BY <1>1, BoundsAssumption DEF SafetyInvariant, TypeOK, Agents
<1>3. \/ vrun[cur] = "none" /\ runState = "awaiting_verification"
      \/ vrun[cur] \in {"awaiting", "recovery_required"}
  BY <1>1 DEF SafetyInvariant, StoreInvariant, RecordsAgree,
              RunMatchesVerification
<1>4. vrun[cur] # "none" => try[Current] \in {"cancelled", "recovery_required"}
  BY <1>2, <1>3 DEF SafetyInvariant, StoreInvariant, RecordsAgree,
                    VerificationMatchesTry, Current
<1>5. result[cur] = "none"
  BY <1>2, <1>3 DEF SafetyInvariant, ExecutorInvariant, VerdictIsEarned
<1> QED
  BY <1>1, <1>3, <1>4, <1>5 DEF Startable, Retryable

(* Nothing that goes wrong leaves an output that can no longer be judged:  *)
(* StartVerification or RetryVerification takes it up.                     *)
THEOREM WaitingIsVerifiable == Spec => []WaitingCanBeVerified
BY Safety, WaitingVerifiable, PTL
-----------------------------------------------------------------------------
(* What a cancelled attempt owes its end to.                               *)

(* One attempt moves, with a cause when it moves to cancelled.             *)
LEMMA CauseOfOne ==
  ASSUME TypeOK, CancelledHasCause, NEW k \in Keys, NEW end, NEW evid,
         try' = [try EXCEPT ![k] = end], rows' = [rows EXCEPT ![k] = evid],
         asked' = asked,
         end = "cancelled" => k \in asked \/ ProvesCancellation(evid)
  PROVE  CancelledHasCause'
<1> SUFFICES ASSUME NEW j \in Keys, try'[j] = "cancelled"
             PROVE  j \in asked \/ ProvesCancellation(rows'[j])
  BY DEF CancelledHasCause
<1>1. CASE j = k
  BY <1>1 DEF TypeOK
<1>2. CASE j # k
  BY <1>2 DEF TypeOK, CancelledHasCause
<1> QED
  BY <1>1, <1>2

LEMMA CauseKept ==
  ASSUME CancelledHasCause, UNCHANGED <<try, rows>>, asked \subseteq asked'
  PROVE  CancelledHasCause'
BY DEF CancelledHasCause

(* The transactions of an executor.                                        *)
LEMMA CommitCause ==
  ASSUME TypeOK, CancelledHasCause, NEW k \in Keys, Commit(k)
  PROVE  CancelledHasCause'
<1> DEFINE evid == exec[k].evid
<1>1. rows = [rows EXCEPT ![k] = rows[k]]
  BY DEF TypeOK
<1>2. CASE CommitEvidence(k)
  <2>1. rows' = [rows EXCEPT ![k] = evid] /\ asked' = asked
    BY <1>2 DEF CommitEvidence
  <2>2. CASE Withdrawn(k)
    <3>1. try' = [try EXCEPT ![k] = "cancelled"]
      BY <1>2, <2>2 DEF CommitEvidence, FinishCancellation
    <3> QED
      BY <2>1, <2>2, <3>1, CauseOfOne DEF Withdrawn
  <2>3. CASE ~Withdrawn(k)
    <3>1. try' = [try EXCEPT ![k] = "completed"]
      BY <1>2, <2>3 DEF CommitEvidence, GiveVerdict
    <3> QED
      BY <2>1, <3>1, CauseOfOne
  <2> QED
    BY <2>2, <2>3
<1>3. CASE CommitCancellation(k)
  BY <1>3, CauseOfOne DEF CommitCancellation, FinishCancellation
<1>4. CASE CommitRecovery(k)
  BY <1>4, CauseOfOne DEF CommitRecovery, Distrust
<1>5. CASE CommitFails(k) \/ MarkFails(k)
  BY <1>5, CauseKept DEF CommitFails, MarkFails, storeVars, recordVars
<1>6. CASE MarkRecovery(k)
  <2>1. CASE Distrust(k) /\ UNCHANGED <<asked, rows>>
    BY <1>1, <2>1, CauseOfOne DEF Distrust
  <2>2. CASE UNCHANGED storeVars
    BY <2>2, CauseKept DEF storeVars, recordVars
  <2> QED
    BY <1>6, <2>1, <2>2 DEF MarkRecovery
<1> QED
  BY <1>2, <1>3, <1>4, <1>5, <1>6 DEF Commit

(* Every other step.                                                       *)
LEMMA CauseStep ==
  ASSUME SafetyInvariant, CancelledHasCause, [Next]_vars
  PROVE  CancelledHasCause'
<1> USE DEF SafetyInvariant
<1>1. CASE StartVerification \/ RetryVerification \/ AutoStarter
  <2>1. CASE UNCHANGED storeVars
    BY <2>1, CauseKept DEF storeVars, recordVars
  <2>2. ASSUME NEW n \in Tries, NextTry(n), BeginTry(cur, n)
        PROVE  CancelledHasCause'
    <3>1. <<cur, n>> \in Keys
      BY <2>2 DEF NextTry, Keys
    <3>2. rows = [rows EXCEPT ![<<cur, n>>] = rows[<<cur, n>>]]
      BY <3>1 DEF TypeOK
    <3> QED
      BY <2>2, <3>1, <3>2, CauseOfOne DEF BeginTry
  <2> QED
    BY <1>1, <2>1, <2>2, StartIsNextTry DEF StoreInvariant
<1>2. CASE CancelVerification
  BY <1>2, CauseKept DEF CancelVerification
<1>3. ASSUME NEW k \in Keys, AttemptDeadline(k) \/ Verify(k)
      PROVE  CancelledHasCause'
  BY <1>3, CauseKept
  DEF AttemptDeadline, Verify, PrepareSandbox, PrepareRefused, CommandEnd,
      CommandCancelled, TerminateFails, Cleanup, CleanupFails, storeVars,
      recordVars
<1>4. ASSUME NEW a \in Agents, BootMark(a) PROVE CancelledHasCause'
  <2> DEFINE k == <<a, last[a]>>
  <2>1. k \in Keys
    BY <1>4, BoundsAssumption
    DEF BootMark, Candidate, Keys, TypeOK, Tries
  <2>2. rows = [rows EXCEPT ![k] = rows[k]]
    BY <2>1 DEF TypeOK
  <2> QED
    BY <1>4, <2>1, <2>2, CauseOfOne DEF BootMark, Distrust
<1>5. CASE \/ PrepareRun \/ PrepareAgentRetry \/ StartAgent \/ SubmitReport
           \/ Accept \/ Reject \/ ArchiveRoom \/ RestoreRoom
  BY <1>5, CauseKept
  DEF PrepareRun, PrepareAgentRetry, StartAgent, SubmitReport, Accept,
      Reject, ArchiveRoom, RestoreRoom, recordVars
<1>6. CASE \/ Close \/ Exit \/ Crash \/ BootRecover \/ BootRecoverFails
           \/ BootServe \/ BootFails \/ UNCHANGED vars
  BY <1>6, CauseKept
  DEF Close, Exit, Crash, Stopped, BootRecover, BootRecoverFails, BootServe,
      BootFails, vars, storeVars, recordVars
<1> QED
  BY <1>1, <1>2, <1>3, <1>4, <1>5, <1>6, CommitCause
  DEF Next, Command, Boot

(* What the finding about cancelled attempts leaves true: an attempt that  *)
(* nobody asked to cancel and whose commands all ended by themselves is    *)
(* never recorded as cancelled, whatever crashes, races or is retried.     *)
THEOREM CancellationsHaveCause == Spec => []CancelledHasCause
<1>1. Init => CancelledHasCause
  BY DEF Init, CancelledHasCause
<1> QED
  BY <1>1, CauseStep, Safety, PTL DEF Spec

-----------------------------------------------------------------------------
(* What a verdict means.                                                   *)
LEMMA CriterionPasses ==
  ASSUME NEW evid, Complete(evid), NEW c \in Criteria
  PROVE  StatusOf(c, evid) = "passed" <=> \A i \in c : evid[i] = "passed"
<1> DEFINE of == {evid[i] : i \in c}
<1>1. \A i \in c : evid[i] \in CommandEnds
  BY CriteriaAssumption DEF Complete
<1>2. StatusOf(c, evid) = "passed" <=> "failed" \notin of /\ "timed_out" \notin of
  BY DEF StatusOf
<1> QED
  BY <1>1, <1>2 DEF CommandEnds

(* Every command counts towards some criterion.                            *)
LEMMA OutcomeOfComplete ==
  ASSUME NEW evid, Complete(evid)
  PROVE  Outcome(evid) = "review_ready" <=>
           \A i \in 1..Commands : evid[i] = "passed"
<1>1. Outcome(evid) = "review_ready" <=>
        \A c \in Criteria : \A i \in c : evid[i] = "passed"
  BY CriterionPasses DEF Outcome
<1>2. /\ \A c \in Criteria : c \subseteq 1..Commands
      /\ \A i \in 1..Commands : \E c \in Criteria : i \in c
  BY CriteriaAssumption
<1> QED
  BY <1>1, <1>2

(* A stored verdict is the outcome of the evidence stored with it.         *)
VerdictIsOutcome ==
  \A a \in Agents : result[a] # "none" =>
    result[a] = Outcome(rows[<<a, last[a]>>])

LEMMA OutcomeKept ==
  ASSUME UNCHANGED <<last, rows, result>>, VerdictIsOutcome
  PROVE  VerdictIsOutcome'
BY DEF VerdictIsOutcome, Outcome, StatusOf

LEMMA OutcomeCommitted ==
  ASSUME SafetyInvariant, VerdictIsOutcome, NEW k \in Keys, Commit(k)
  PROVE  VerdictIsOutcome'
<1>1. CASE CommitFails(k) \/ MarkRecovery(k) \/ MarkFails(k)
  BY <1>1, OutcomeKept
  DEF CommitFails, MarkRecovery, MarkFails, storeVars, recordVars
<1>2. CASE \/ CommitEvidence(k) \/ CommitCancellation(k) \/ CommitRecovery(k)
  <2>1. Running(k) /\ last' = last /\ rows' = [rows EXCEPT ![k] = exec[k].evid]
    BY <1>2 DEF CommitEvidence, CommitCancellation, CommitRecovery
  <2>2. /\ \A a \in Agents : a # k[1] => result'[a] = result[a]
        /\ result'[k[1]] \in {result[k[1]], Outcome(exec[k].evid)}
    BY <1>2, KeyParts
    DEF CommitEvidence, CommitCancellation, CommitRecovery,
        FinishCancellation, GiveVerdict, SafetyInvariant, TypeOK
  <2>3. ASSUME NEW a \in Agents, result'[a] # "none"
        PROVE  result'[a] = Outcome(rows'[<<a, last[a]>>])
    <3>1. CASE a = k[1]
      <4>1. result[a] = "none"
        BY <2>1, <3>1, RunningIsUnjudged DEF SafetyInvariant
      <4>2. k = <<a, last[a]>>
        BY <2>1, <3>1, RunningIsCurrent, KeyParts
        DEF SafetyInvariant, StoreInvariant
      <4>3. rows'[k] = exec[k].evid
        BY <2>1 DEF SafetyInvariant, TypeOK
      <4> QED
        BY <2>2, <2>3, <3>1, <4>1, <4>2, <4>3
    <3>2. CASE a # k[1]
      <4>1. result'[a] = result[a] /\ result[a] # "none"
        BY <2>2, <2>3, <3>2
      <4>2. rows'[<<a, last[a]>>] = rows[<<a, last[a]>>]
        BY <2>1, <4>1, RunningIsUnjudged DEF SafetyInvariant, TypeOK
      <4> QED
        BY <4>1, <4>2 DEF VerdictIsOutcome
    <3> QED
      BY <3>1, <3>2
  <2> QED
    BY <2>1, <2>3 DEF VerdictIsOutcome, Outcome, StatusOf
<1> QED
  BY <1>1, <1>2 DEF Commit

LEMMA OutcomeStep ==
  ASSUME SafetyInvariant, VerdictIsOutcome, [Next]_vars
  PROVE  VerdictIsOutcome'
<1>1. CASE UNCHANGED vars
  BY <1>1, OutcomeKept DEF vars, storeVars, recordVars
<1>2. CASE StartVerification \/ RetryVerification \/ AutoStarter
  <2>1. ASSUME NEW n \in Tries, NextTry(n), BeginTry(cur, n)
        PROVE  VerdictIsOutcome'
    <3>1. /\ \A a \in Agents : a # cur => last'[a] = last[a]
          /\ UNCHANGED <<rows, result>> /\ result[cur] = "none"
      BY <2>1 DEF BeginTry, NextTry, SafetyInvariant, TypeOK,
                  ExecutorInvariant, VerdictIsEarned
    <3> QED
      BY <3>1 DEF VerdictIsOutcome, Outcome, StatusOf
  <2> QED
    BY <1>2, <2>1, StartIsNextTry, OutcomeKept
    DEF SafetyInvariant, StoreInvariant, storeVars, recordVars
<1>3. CASE \/ PrepareRun \/ PrepareAgentRetry \/ StartAgent \/ SubmitReport
           \/ Accept \/ Reject \/ CancelVerification
           \/ ArchiveRoom \/ RestoreRoom
  BY <1>3, OutcomeKept
  DEF PrepareRun, PrepareAgentRetry, StartAgent, SubmitReport, Accept, Reject,
      CancelVerification, ArchiveRoom, RestoreRoom, recordVars
<1>4. ASSUME NEW k \in Keys, AttemptDeadline(k) \/ Verify(k)
      PROVE  VerdictIsOutcome'
  BY <1>4, OutcomeKept
  DEF AttemptDeadline, Verify, PrepareSandbox, PrepareRefused, CommandEnd,
      CommandCancelled, TerminateFails, Cleanup, CleanupFails, storeVars,
      recordVars
<1>5. CASE Close \/ Exit \/ Crash \/ Boot
  BY <1>5, OutcomeKept
  DEF Close, Exit, Crash, Stopped, Boot, BootRecover, BootRecoverFails,
      BootServe, BootFails, BootMark, storeVars, recordVars
<1> QED
  BY <1>1, <1>2, <1>3, <1>4, <1>5, OutcomeCommitted DEF Next, Command

(* A Run is ready for review exactly when every stored command passed.     *)
THEOREM VerdictsMatchEvidence == Spec => []VerdictMatchesEvidence
<1>1. Init => VerdictIsOutcome
  BY DEF Init, VerdictIsOutcome
<1>2. SafetyInvariant /\ VerdictIsOutcome /\ [Next]_vars => VerdictIsOutcome'
  BY OutcomeStep
<1>3. SafetyInvariant /\ VerdictIsOutcome => VerdictMatchesEvidence
  BY OutcomeOfComplete
  DEF SafetyInvariant, ExecutorInvariant, VerdictIsEarned, VerdictIsOutcome,
      VerdictMatchesEvidence
<1> QED
  BY <1>1, <1>2, <1>3, Safety, PTL DEF Spec
-----------------------------------------------------------------------------
(* VerdictOnce.                                                            *)
LEMMA NewOutputImplements ==
  ASSUME SafetyInvariant, PrepareRun \/ PrepareAgentRetry
  PROVE  Verdicts!NewOutput
<1>1. runState \in {"draft", "revision_required"} /\ runState' = "ready"
  BY DEF PrepareRun, PrepareAgentRetry, SaveRun
<1>2. cur' = cur + 1 /\ result' = result /\ Round = "idle" /\ Round' = "idle"
  BY <1>1 DEF PrepareRun, PrepareAgentRetry, recordVars, Round
<1>3. cur # 0 => result[cur] # "none"
  <2>1. cur # 0 => runState = "revision_required"
    BY <1>1 DEF SafetyInvariant, StoreInvariant, RecordsAgree,
                RunMatchesVerification
  <2> QED
    BY <2>1, PhaseOfVerification
    DEF SafetyInvariant, StoreInvariant, CompletedIsJudged
<1> QED
  BY <1>2, <1>3 DEF Verdicts!NewOutput

LEMMA BeginImplements ==
  ASSUME SafetyInvariant, NEW n \in Tries, NextTry(n), BeginTry(cur, n)
  PROVE  Verdicts!Begin
<1>1. cur # 0 /\ result[cur] = "none"
  BY DEF NextTry, SafetyInvariant, ExecutorInvariant, VerdictIsEarned
<1>2. Round \in {"idle", "unsure"}
  BY DEF NextTry, Round
<1>3. Round' = "checking"
  <2>1. last'[cur] = n /\ cur' = cur /\ runState' = "verifying"
        /\ asked' = asked
    BY DEF BeginTry, NextTry, SaveRun, SafetyInvariant, TypeOK
  <2>2. <<cur, n>> \notin asked
    <3>1. <<cur, n>> \in Keys /\ n > last[cur]
      BY BoundsAssumption DEF NextTry, Keys, SafetyInvariant, TypeOK
    <3>2. try[<<cur, n>>] = "none"
      BY <3>1 DEF SafetyInvariant, StoreInvariant, RecordsAgree,
                  OtherTriesGaveUp
    <3> QED
      BY <3>2 DEF SafetyInvariant, StoreInvariant, AskedExists
  <2> QED
    BY <2>1, <2>2 DEF Round, Current
<1> QED
  BY <1>1, <1>2, <1>3 DEF Verdicts!Begin, BeginTry

LEMMA AskImplements ==
  ASSUME CancelVerification PROVE Verdicts!Ask
BY DEF CancelVerification, Verdicts!Ask, Round, Current, runVars

LEMMA DropImplements ==
  ASSUME NEW k \in Keys, Distrust(k) \/ FinishCancellation(k),
         runState = "verifying", UNCHANGED <<cur, result>>
  PROVE  Verdicts!Drop
BY DEF Distrust, FinishCancellation, SaveRun, Verdicts!Drop, Round

LEMMA DecideImplements ==
  ASSUME SafetyInvariant, NEW k \in Keys, NEW v \in Outcomes, Running(k),
         ~Withdrawn(k), GiveVerdict(k, v), UNCHANGED cur
  PROVE  Verdicts!Decide(v)
<1>1. k = Current /\ k[1] = cur
  BY RunningIsCurrent DEF SafetyInvariant, StoreInvariant
<1>2. Round = "checking"
  BY <1>1 DEF Round, Running, Withdrawn
<1>3. Round' = "idle"
  BY DEF GiveVerdict, SaveRun, AfterVerdict, Round
<1> QED
  BY <1>1, <1>2, <1>3 DEF GiveVerdict, Verdicts!Decide

LEMMA VerdictStep ==
  ASSUME SafetyInvariant, [Next]_vars
  PROVE  [Verdicts!Next]_(Verdicts!verdictVars)
<1> USE DEF Verdicts!Next
<1>1. ASSUME UNCHANGED <<runState, cur, last, asked, result>>
      PROVE  UNCHANGED Verdicts!verdictVars
  BY <1>1 DEF Verdicts!verdictVars, Round, Current
<1>2. CASE PrepareRun \/ PrepareAgentRetry
  BY <1>2, NewOutputImplements
<1>3. CASE StartAgent \/ SubmitReport \/ Accept \/ Reject
  BY <1>3 DEF StartAgent, SubmitReport, Accept, Reject, Reviewable, SaveRun,
              Round, Verdicts!verdictVars, recordVars
<1>4. CASE StartVerification \/ RetryVerification \/ AutoStarter
  <2>1. CASE UNCHANGED storeVars
    BY <1>1, <2>1 DEF storeVars, runVars, recordVars
  <2> QED
    BY <1>4, <2>1, StartIsNextTry, BeginImplements
    DEF SafetyInvariant, StoreInvariant
<1>5. CASE CancelVerification
  BY <1>5, AskImplements
<1>6. ASSUME NEW k \in Keys, Commit(k)
      PROVE  [Verdicts!Next]_(Verdicts!verdictVars)
  <2>1. CASE UNCHANGED storeVars
    BY <1>1, <2>1 DEF storeVars, runVars, recordVars
  <2>2. CASE CommitEvidence(k)
    <3>1. Outcome(exec[k].evid) \in Outcomes
      BY DEF Outcome, Outcomes
    <3>2. CASE Withdrawn(k)
      BY <2>2, <3>2, DropImplements
      DEF CommitEvidence, FinishCancellation, Running
    <3>3. CASE ~Withdrawn(k)
      BY <2>2, <3>1, <3>3, DecideImplements
      DEF CommitEvidence, Outcomes, Verdicts!Verdicts
    <3> QED
      BY <3>2, <3>3
  <2>3. CASE CommitCancellation(k) \/ CommitRecovery(k)
    BY <2>3, DropImplements
    DEF CommitCancellation, CommitRecovery, FinishCancellation, Running
  <2>4. CASE MarkRecovery(k)
    BY <2>1, <2>4, DropImplements DEF MarkRecovery, Running
  <2>5. CASE CommitFails(k) \/ MarkFails(k)
    BY <2>1, <2>5 DEF CommitFails, MarkFails
  <2> QED
    BY <1>6, <2>2, <2>3, <2>4, <2>5 DEF Commit
<1>7. ASSUME NEW a \in Agents, BootMark(a) PROVE Verdicts!Drop
  <2>1. <<a, last[a]>> \in Keys
    BY <1>7, BoundsAssumption
    DEF BootMark, Candidate, SafetyInvariant, TypeOK, Keys, Tries
  <2> QED
    BY <1>7, <2>1, DropImplements DEF BootMark, Running
<1>8. ASSUME NEW k \in Keys, AttemptDeadline(k) \/ Verify(k)
      PROVE  UNCHANGED Verdicts!verdictVars
  BY <1>1, <1>8
  DEF AttemptDeadline, Verify, PrepareSandbox, PrepareRefused, CommandEnd,
      CommandCancelled, TerminateFails, Cleanup, CleanupFails, storeVars,
      runVars, recordVars
<1>9. CASE \/ ArchiveRoom \/ RestoreRoom \/ Close \/ Exit \/ Crash
           \/ BootRecover \/ BootRecoverFails \/ BootServe \/ BootFails
           \/ UNCHANGED vars
  BY <1>1, <1>9
  DEF ArchiveRoom, RestoreRoom, Close, Exit, Crash, Stopped, BootRecover,
      BootRecoverFails, BootServe, BootFails, vars, storeVars, runVars,
      recordVars
<1> QED
  BY <1>2, <1>3, <1>4, <1>5, <1>6, <1>7, <1>8, <1>9 DEF Next, Command, Boot

(* Each output gets at most one verdict, none after it was withdrawn, and  *)
(* the Agent starts over only on a verdict.                                *)
THEOREM RefinesVerdictOnce == Spec => ImplementsVerdictOnce
<1>1. Init => Verdicts!Init
  BY DEF Init, Verdicts!Init, Round
<1>2. SafetyInvariant /\ [Next]_vars => [Verdicts!Next]_(Verdicts!verdictVars)
  BY VerdictStep
<1> QED
  BY <1>1, <1>2, Safety, PTL
  DEF Spec, ImplementsVerdictOnce, Verdicts!Spec
-----------------------------------------------------------------------------
(* RunMachine.                                                             *)

(* The machine's instance of the table is the table.                       *)
LEMMA MachineTable ==
  /\ Machine!PrepareCommands = PrepareCommands
  /\ Machine!CommandKinds = CommandKinds
  /\ \A s, C : Machine!Targets(s, C) = Targets(s, C)
<1>1. Machine!RunTransitions = RunTransitions
  BY DEF RunTransitions, Machine!RunTransitions
<1>2. Machine!PrepareCommands = PrepareCommands
  BY DEF PrepareCommands, Machine!PrepareCommands
<1> QED
  BY <1>1, <1>2, Zenon
  DEF CommandKinds, Targets, Machine!CommandKinds, Machine!Targets

LEMMA PreparedIsStep ==
  ASSUME NEW c \in PrepareCommands, <<runState, c, "ready">> \in RunTransitions,
         SaveRun("ready"), cur' = cur + 1
  PROVE  Machine!Next
<1>1. "ready" \in Targets(runState, PrepareCommands)
  BY RowTargets
<1> QED
  BY <1>1, MachineTable DEF SaveRun, Machine!Next, Machine!Prepare

LEMMA SavedIsStep ==
  ASSUME NEW c, c \notin PrepareCommands, NEW s,
         <<runState, c, s>> \in RunTransitions, SaveRun(s), UNCHANGED cur
  PROVE  Machine!Next
<1>1. s \in Targets(runState, CommandKinds \ PrepareCommands)
  BY CanFollow, RowTargets
<1> QED
  BY <1>1, MachineTable DEF SaveRun, Machine!Next, Machine!Advance

LEMMA AgentMachine ==
  ASSUME \/ PrepareRun \/ PrepareAgentRetry \/ StartAgent \/ SubmitReport
         \/ Accept \/ Reject
  PROVE  Machine!Next
<1> USE DEF PrepareCommands
<1>1. CASE PrepareRun
  <2>1. <<runState, "prepare_run", "ready">> \in RunTransitions
    BY <1>1 DEF PrepareRun, RunTransitions
  <2> QED
    BY <1>1, <2>1, PreparedIsStep DEF PrepareRun
<1>2. CASE PrepareAgentRetry
  <2>1. <<runState, "prepare_retry", "ready">> \in RunTransitions
    BY <1>2 DEF PrepareAgentRetry, RunTransitions
  <2> QED
    BY <1>2, <2>1, PreparedIsStep DEF PrepareAgentRetry
<1>3. CASE StartAgent
  <2>1. <<runState, "start_attempt", "running">> \in RunTransitions
    BY <1>3 DEF StartAgent, RunTransitions
  <2> QED
    BY <1>3, <2>1, SavedIsStep DEF StartAgent
<1>4. CASE SubmitReport
  <2>1. <<runState, "submit_agent_report", "awaiting_verification">>
          \in RunTransitions
    BY <1>4 DEF SubmitReport, RunTransitions
  <2> QED
    BY <1>4, <2>1, SavedIsStep DEF SubmitReport
<1>5. CASE Accept
  <2>1. <<runState, "review_accept", "accepted">> \in RunTransitions
    BY <1>5 DEF Accept, Reviewable, RunTransitions
  <2> QED
    BY <1>5, <2>1, SavedIsStep DEF Accept
<1>6. CASE Reject
  <2>1. <<runState, "review_reject", "revision_required">> \in RunTransitions
    BY <1>6 DEF Reject, Reviewable, RunTransitions
  <2> QED
    BY <1>6, <2>1, SavedIsStep DEF Reject
<1> QED
  BY <1>1, <1>2, <1>3, <1>4, <1>5, <1>6

LEMMA BeginMachine ==
  ASSUME NEW n \in Tries, BeginTry(cur, n),
         runState \in {"awaiting_verification", "verification_recovery_required"}
  PROVE  Machine!Next
<1>1. <<runState, "retry_verification", "verifying">> \in RunTransitions
  BY DEF RunTransitions
<1> QED
  BY <1>1, SavedIsStep DEF BeginTry, PrepareCommands

(* The states startVerification leaves, whoever calls it.                  *)
LEMMA StartMachine ==
  ASSUME TypeOK, RecordsAgree,
         StartVerification \/ RetryVerification \/ AutoStarter
  PROVE  [Machine!Next]_(Machine!machineVars)
<1>1. CASE UNCHANGED storeVars
  BY <1>1 DEF storeVars, runVars, Machine!machineVars
<1>2. CASE ~UNCHANGED storeVars
  <2>1. runState \in {"awaiting_verification", "verification_recovery_required"}
    BY <1>2 DEF StartVerification, RetryVerification, Retryable, AutoStarter, AutoStart,
                AutoStartFails, Startable
  <2> QED
    BY <1>2, <2>1, StartIsNextTry, BeginMachine
<1> QED
  BY <1>1, <1>2

LEMMA EndMachine ==
  ASSUME NEW k \in Keys, runState = "verifying", UNCHANGED cur,
         \/ Distrust(k) \/ FinishCancellation(k)
         \/ \E v \in Outcomes : GiveVerdict(k, v)
  PROVE  Machine!Next
<1> USE DEF PrepareCommands
<1>1. /\ <<runState, "verification_recovery_required",
           "verification_recovery_required">> \in RunTransitions
      /\ <<runState, "verification_cancel_confirmed",
           "awaiting_verification">> \in RunTransitions
      /\ <<runState, "verification_passed", "awaiting_review">>
           \in RunTransitions
      /\ <<runState, "verification_needs_revision", "revision_required">>
           \in RunTransitions
  BY DEF RunTransitions
<1>2. \/ SaveRun("verification_recovery_required")
      \/ SaveRun("awaiting_verification")
      \/ SaveRun("awaiting_review") \/ SaveRun("revision_required")
  BY DEF Distrust, FinishCancellation, GiveVerdict, AfterVerdict
<1> QED
  BY <1>1, <1>2, SavedIsStep

LEMMA MachineStep ==
  ASSUME SafetyInvariant, [Next]_vars
  PROVE  [Machine!Next]_(Machine!machineVars)
<1>1. ASSUME UNCHANGED runVars PROVE UNCHANGED Machine!machineVars
  BY <1>1 DEF runVars, Machine!machineVars
<1>2. ASSUME NEW k \in Keys, Commit(k)
      PROVE  [Machine!Next]_(Machine!machineVars)
  <2>1. \/ UNCHANGED runVars
        \/ /\ runState = "verifying" /\ UNCHANGED cur
           /\ \/ Distrust(k) \/ FinishCancellation(k)
              \/ \E v \in Outcomes : GiveVerdict(k, v)
    <3>1. Outcome(exec[k].evid) \in Outcomes
      BY DEF Outcome, Outcomes
    <3> QED
      BY <1>2, <3>1
      DEF Commit, CommitEvidence, CommitCancellation, CommitRecovery,
          CommitFails, MarkRecovery, MarkFails, Running, storeVars
  <2> QED
    BY <1>1, <2>1, EndMachine
<1>3. ASSUME NEW a \in Agents, BootMark(a) PROVE Machine!Next
  <2>1. <<a, last[a]>> \in Keys
    BY <1>3, BoundsAssumption
    DEF BootMark, Candidate, SafetyInvariant, TypeOK, Keys, Tries
  <2> QED
    BY <1>3, <2>1, EndMachine DEF BootMark, Running
<1>4. ASSUME NEW k \in Keys, AttemptDeadline(k) \/ Verify(k)
      PROVE  UNCHANGED runVars
  BY <1>4 DEF AttemptDeadline, Verify, PrepareSandbox, PrepareRefused,
     CommandEnd, CommandCancelled, TerminateFails, Cleanup, CleanupFails,
     storeVars
<1>5. CASE \/ CancelVerification \/ ArchiveRoom \/ RestoreRoom
           \/ Close \/ Exit \/ Crash
           \/ BootRecover \/ BootRecoverFails \/ BootServe \/ BootFails
           \/ UNCHANGED vars
  BY <1>1, <1>5
  DEF CancelVerification, ArchiveRoom, RestoreRoom, Close, Exit, Crash,
      Stopped, BootRecover, BootRecoverFails, BootServe, BootFails, vars,
      storeVars
<1> QED
  BY <1>1, <1>2, <1>3, <1>4, <1>5, AgentMachine, StartMachine
  DEF Next, Command, Boot, SafetyInvariant, StoreInvariant

(* Whoever verifies and whatever fails, the stored Run follows the         *)
(* machine of the domain package.                                          *)
THEOREM RefinesRunMachine == Spec => ImplementsRunMachine
<1>1. Init => Machine!Init
  BY DEF Init, Machine!Init
<1>2. SafetyInvariant /\ [Next]_vars => [Machine!Next]_(Machine!machineVars)
  BY MachineStep
<1> QED
  BY <1>1, <1>2, Safety, PTL DEF Spec, ImplementsRunMachine, Machine!Spec
=============================================================================
