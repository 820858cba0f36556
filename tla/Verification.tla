---------------------------- MODULE Verification ----------------------------
(***************************************************************************)
(* Independent verification of one Run whose Task has a registered         *)
(* contract: the commands of internal/app/verification.go, each one        *)
(* transaction under the Run's lock; the executor goroutine that every     *)
(* started Verification Attempt gets, from the sandbox to the transaction  *)
(* that records its evidence; the cancel functions the server keeps in     *)
(* memory; the archive of the Room; and the loss and start of the server.  *)
(* The Agent's own half of the Run is reduced to preparing an attempt,     *)
(* starting it and submitting its report (RunLifecycle has the rest).      *)
(* The verifier runs the full policy in an installed product, where        *)
(* startup always cleans labelled containers first.                        *)
(***************************************************************************)
EXTENDS Naturals, Sequences, RunTable

CONSTANTS Commands,    \* number of frozen verification commands
          Criteria,    \* acceptance criteria, as sets of their commands
          MaxAttempts, \* bound on the Agent's attempts
          MaxTries,    \* bound on Verification Attempts of one output
          MaxCrashes,  \* bound on losses of the server
          MaxFaults    \* bound on failing store and sandbox calls

ASSUME CommandsAssumption == Commands \in Nat \ {0}
ASSUME CriteriaAssumption ==
  /\ Criteria \subseteq SUBSET (1..Commands) /\ Criteria # {}
  /\ {} \notin Criteria
  /\ \A i \in 1..Commands : \E c \in Criteria : i \in c
ASSUME BoundsAssumption ==
  /\ MaxAttempts \in Nat \ {0} /\ MaxTries \in Nat \ {0}
  /\ MaxCrashes \in Nat /\ MaxFaults \in Nat

Agents == 1..MaxAttempts
Tries == 1..MaxTries
Keys == Agents \X Tries       \* identities of Verification Attempts

VARIABLES
  \* the store
  runState, version, cur,   \* state, version, currentAttemptNumber
  vrun,     \* state of the VerificationRun of each Agent attempt
  last,     \* sequence of its current Verification Attempt, 0 without one
  try,      \* state of each Verification Attempt
  asked,    \* attempts with a row in verification_cancel_requests
  rows,     \* stored command evidence of each Verification Attempt
  result,   \* outcome of the VerificationResult of each Agent attempt
  retryOK,  \* verifiedRetryAuthority grants the Agent another attempt
  room,     \* state of the Room
  \* outside the store
  boxes,    \* attempts whose container may exist
  \* the server
  server,   \* phase of the server process
  enabled,  \* the Verifier dependency is there
  auto,     \* Run version the auto-start goroutine carries, 0 without one
  exec,     \* executor goroutine (and cancel function) of each attempt
  \* the environment
  crashes, faults

runVars == <<runState, version, cur>>
recordVars == <<vrun, last, try, asked, rows, result>>
storeVars == <<runVars, recordVars, retryOK, room>>
serverVars == <<server, enabled, auto, exec>>
vars == <<storeVars, boxes, serverVars, crashes, faults>>

RunPhases == {"draft", "ready", "running", "awaiting_verification",
              "verifying", "verification_recovery_required",
              "awaiting_review", "revision_required", "accepted"}
VerificationRunStates ==
  {"none", "awaiting", "verifying", "completed", "recovery_required"}
TryStates == {"none", "running", "completed", "cancelled",
              "recovery_required"}
CommandEnds == {"passed", "failed", "timed_out"}
Kinds == CommandEnds \cup {"cancelled", "launch_failed"}
Classes == {"completed", "cancelled", "recovery"}
Outcomes == {"review_ready", "needs_revision"}

(* The executor goroutine: where Verify stands, its context, the command   *)
(* evidence collected so far and its classification.                       *)
NoExecutor == [at |-> "none", ctx |-> "live", evid |-> <<>>, class |-> "none"]
Executor == [at : {"none", "preparing", "executing", "cleaning", "returned",
                   "doubt"},
             ctx : {"live", "cancelled", "expired"},
             evid : Seq(Kinds),
             class : Classes \cup {"none"}]

Current == <<cur, last[cur]>>   \* the current Verification Attempt
-----------------------------------------------------------------------------
Init == /\ runState = "draft" /\ version = 0 /\ cur = 0
        /\ vrun = [a \in Agents |-> "none"]
        /\ last = [a \in Agents |-> 0]
        /\ try = [k \in Keys |-> "none"]
        /\ asked = {}
        /\ rows = [k \in Keys |-> <<>>]
        /\ result = [a \in Agents |-> "none"]
        /\ retryOK = FALSE
        /\ room = "active"
        /\ boxes = {}
        /\ server = "up" /\ enabled = TRUE /\ auto = 0
        /\ exec = [k \in Keys |-> NoExecutor]
        /\ crashes = 0 /\ faults = 0

(* A store or sandbox call fails; the code sees only the error.            *)
Fault == faults < MaxFaults /\ faults' = faults + 1

(* SaveRunCAS of the next state; every write needs an active Room.         *)
SaveRun(s) == /\ room = "active"
              /\ runState' = s
              /\ version' = version + 1
-----------------------------------------------------------------------------
(* The Agent's half of the Run, as far as verification depends on it.      *)
PrepareRun == /\ server = "up" /\ runState = "draft"
              /\ SaveRun("ready") /\ cur' = cur + 1
              /\ UNCHANGED <<recordVars, retryOK, room, boxes, serverVars,
                             crashes, faults>>

PrepareAgentRetry ==
  /\ server = "up" /\ runState = "revision_required" /\ retryOK
  /\ cur < MaxAttempts
  /\ SaveRun("ready") /\ cur' = cur + 1
  /\ retryOK' = FALSE
  /\ UNCHANGED <<recordVars, room, boxes, serverVars, crashes, faults>>

StartAgent == /\ server = "up" /\ runState = "ready"
              /\ SaveRun("running")
              /\ UNCHANGED <<cur, recordVars, retryOK, room, boxes,
                             serverVars, crashes, faults>>

(* The terminal transaction; the auto-start goroutine keeps its version.   *)
SubmitReport ==
  /\ server = "up" /\ runState = "running"
  /\ SaveRun("awaiting_verification")
  /\ auto' = IF enabled THEN version' ELSE 0
  /\ UNCHANGED <<cur, recordVars, retryOK, room, boxes, server, enabled,
                 exec, crashes, faults>>

(* ReviewVerifiedResult loads the result of the current attempt first.     *)
Reviewable == /\ server = "up" /\ runState = "awaiting_review"
              /\ result[cur] = "review_ready"

Accept == /\ Reviewable /\ SaveRun("accepted")
          /\ UNCHANGED <<cur, recordVars, retryOK, room, boxes, serverVars,
                         crashes, faults>>

(* Only an implementation gap lets the Agent try again.                    *)
Reject == /\ Reviewable /\ SaveRun("revision_required")
          /\ retryOK' \in BOOLEAN
          /\ UNCHANGED <<cur, recordVars, room, boxes, serverVars, crashes,
                         faults>>
-----------------------------------------------------------------------------
(* startVerification from the inserted or reloaded VerificationRun on: the *)
(* three records and the Run move in one transaction, and the executor and *)
(* its cancel function exist before the Run's lock is released.            *)
BeginTry(a, n) ==
  /\ SaveRun("verifying")
  /\ vrun' = [vrun EXCEPT ![a] = "verifying"]
  /\ last' = [last EXCEPT ![a] = n]
  /\ try' = [try EXCEPT ![<<a, n>>] = "running"]
  /\ exec' = [exec EXCEPT ![<<a, n>>] =
                [NoExecutor EXCEPT !.at = "preparing",
                   !.ctx = IF server = "closing" THEN "cancelled" ELSE @]]
  /\ UNCHANGED <<cur, asked, rows, result, retryOK, room, boxes, server,
                 enabled, crashes, faults>>

Startable == /\ enabled /\ room = "active"
             /\ runState = "awaiting_verification" /\ vrun[cur] = "none"

StartVerification == /\ server = "up" /\ Startable
                     /\ BeginTry(cur, 1)
                     /\ UNCHANGED auto

(* autoStartVerification: nothing happens when the Run moved on meanwhile, *)
(* and an error is dropped.                                                *)
AutoStart ==
  /\ auto # 0 /\ auto' = 0
  /\ IF Startable /\ version = auto
       THEN BeginTry(cur, 1)
       ELSE UNCHANGED <<storeVars, boxes, server, enabled, exec, crashes,
                        faults>>

AutoStartFails == /\ auto # 0 /\ auto' = 0
                  /\ Fault
                  /\ UNCHANGED <<storeVars, boxes, server, enabled, exec,
                                 crashes>>

(* retryVerification of an output whose last attempt gave no verdict.      *)
Retryable ==
  /\ enabled /\ room = "active"
  /\ runState \in {"awaiting_verification", "verification_recovery_required"}
  /\ vrun[cur] \in {"awaiting", "recovery_required"}
  /\ try[Current] \in {"cancelled", "recovery_required"}

RetryVerification ==
  /\ server = "up" /\ Retryable
  /\ last[cur] < MaxTries
  /\ BeginTry(cur, last[cur] + 1)
  /\ UNCHANGED auto

(* CancelVerification: a second request for the same attempt violates the  *)
(* primary key.  The Run keeps its version.                                *)
CancelVerification ==
  /\ server = "up" /\ room = "active"
  /\ runState = "verifying" /\ vrun[cur] = "verifying"
  /\ try[Current] = "running"
  /\ exec[Current].at # "none" /\ Current \notin asked
  /\ asked' = asked \cup {Current}
  /\ exec' = [exec EXCEPT ![Current].ctx =
                IF @ = "live" THEN "cancelled" ELSE @]
  /\ UNCHANGED <<runVars, vrun, last, try, rows, result, retryOK, room,
                 boxes, server, enabled, auto, crashes, faults>>
-----------------------------------------------------------------------------
(* Verifier.Verify.  Its own attempt timeout is the parent of the context  *)
(* executeCommands makes, and so always ends first.                        *)
AttemptDeadline(k) ==
  /\ exec[k].at \in {"preparing", "executing"} /\ exec[k].ctx = "live"
  /\ exec' = [exec EXCEPT ![k].ctx = "expired"]
  /\ UNCHANGED <<storeVars, boxes, server, enabled, auto, crashes, faults>>

PrepareSandbox(k) ==
  /\ exec[k].at = "preparing"
  /\ exec' = [exec EXCEPT ![k].at = "executing"]
  /\ boxes' = boxes \cup {k}
  /\ UNCHANGED <<storeVars, server, enabled, auto, crashes, faults>>

(* The workspace or the sandbox is refused; a failed creation may leave a  *)
(* container whose removal is unproven.                                    *)
PrepareRefused(k) ==
  /\ exec[k].at = "preparing"
  /\ exec' = [exec EXCEPT ![k].at = "returned", ![k].class = "recovery"]
  /\ \/ UNCHANGED <<boxes, faults>>
     \/ Fault /\ boxes' = boxes \cup {k}
  /\ UNCHANGED <<storeVars, server, enabled, auto, crashes>>

(* The executor after it recorded a command that ended as kind.            *)
Recorded(x, kind) ==
  LET evid == Append(x.evid, kind)
  IN  CASE kind = "launch_failed" ->
             [x EXCEPT !.evid = evid, !.at = "cleaning", !.class = "recovery"]
        [] kind = "cancelled" ->
             [x EXCEPT !.evid = evid, !.at = "cleaning", !.class = "cancelled"]
        [] OTHER ->
             IF Len(evid) = Commands
               THEN [x EXCEPT !.evid = evid, !.at = "cleaning",
                              !.class = "completed"]
               ELSE [x EXCEPT !.evid = evid]

(* executeCommands, one command.  A timed out command removes the sandbox, *)
(* and a removed sandbox launches nothing.                                 *)
CommandEnd(k) ==
  /\ exec[k].at = "executing" /\ exec[k].ctx = "live"
  /\ \E kind \in CommandEnds \cup {"launch_failed"} :
       /\ kind \in CommandEnds => k \in boxes
       /\ exec' = [exec EXCEPT ![k] = Recorded(@, kind)]
       /\ boxes' = IF kind = "timed_out" THEN boxes \ {k} ELSE boxes
  /\ UNCHANGED <<storeVars, server, enabled, auto, crashes, faults>>

CommandCancelled(k) ==
  /\ exec[k].at = "executing" /\ exec[k].ctx # "live"
  /\ exec' = [exec EXCEPT ![k] = Recorded(@, "cancelled")]
  /\ boxes' = boxes \ {k}
  /\ UNCHANGED <<storeVars, server, enabled, auto, crashes, faults>>

(* Process death stays unproven after a timeout or a cancellation.         *)
TerminateFails(k) ==
  /\ exec[k].at = "executing" /\ Fault
  /\ exec' = [exec EXCEPT ![k].at = "cleaning", ![k].class = "recovery"]
  /\ UNCHANGED <<storeVars, boxes, server, enabled, auto, crashes>>

Cleanup(k) ==
  /\ exec[k].at = "cleaning"
  /\ exec' = [exec EXCEPT ![k].at = "returned"]
  /\ boxes' = boxes \ {k}
  /\ UNCHANGED <<storeVars, server, enabled, auto, crashes, faults>>

(* Mutant: what failed to be removed does not change the classification.   *)
UncleanClass(c) == c

AfterUnclean(c) == "recovery"

CleanupFails(k) ==
  /\ exec[k].at = "cleaning" /\ Fault
  /\ exec' = [exec EXCEPT ![k].at = "returned",
                          ![k].class = AfterUnclean(@)]
  /\ UNCHANGED <<storeVars, boxes, server, enabled, auto, crashes>>
-----------------------------------------------------------------------------
(* Mutant: the last command of a criterion decides.                        *)
StatusOfLast(c, evid) ==
  LET kind == evid[CHOOSE i \in c : \A j \in c : j <= i]
  IN  CASE kind = "failed"    -> "failed"
        [] kind = "timed_out" -> "unknown"
        [] OTHER              -> "passed"

(* What the stored evidence says of a criterion: mergeCriterionStatus over *)
(* its commands.  A timed out command is unknown.                          *)
StatusOf(c, evid) ==
  LET of == {evid[i] : i \in c}
  IN  CASE "failed" \in of    -> "failed"
        [] "timed_out" \in of -> "unknown"
        [] OTHER              -> "passed"

(* AggregateAcceptanceChecks.                                              *)
Outcome(evid) == IF \A c \in Criteria : StatusOf(c, evid) = "passed"
                   THEN "review_ready" ELSE "needs_revision"

(* Mutant: the attempt itself is not read.                                 *)
RunningAnyAttempt(k) == runState = "verifying" /\ vrun[k[1]] = "verifying"

(* loadRunningVerification of the executor's own records.                  *)
Running(k) == /\ runState = "verifying"
              /\ vrun[k[1]] = "verifying" /\ try[k] = "running"

(* normalizeVerificationEvidence, for a verdict and for a cancellation.    *)
Complete(evid) == /\ Len(evid) = Commands
                  /\ \A i \in 1..Commands : evid[i] \in CommandEnds
ProvesCancellation(evid) == evid # <<>> /\ evid[Len(evid)] = "cancelled"

(* The executor ends after its transaction, or the commit reports an error *)
(* although it is durable and the executor goes on to mark recovery.       *)
Leave(k) == \/ /\ exec' = [exec EXCEPT ![k] = NoExecutor]
               /\ UNCHANGED faults
            \/ /\ Fault
               /\ exec' = [exec EXCEPT ![k].at = "doubt"]

(* Mutant: the VerificationRun is left as it was.                          *)
FinishAttemptOnly(k) ==
  /\ SaveRun("awaiting_verification")
  /\ try' = [try EXCEPT ![k] = "cancelled"]
  /\ vrun' = vrun
  /\ UNCHANGED <<result, retryOK>>

(* finishVerificationCancellationTx.                                       *)
FinishCancellation(k) ==
  /\ SaveRun("awaiting_verification")
  /\ try' = [try EXCEPT ![k] = "cancelled"]
  /\ vrun' = [vrun EXCEPT ![k[1]] = "awaiting"]
  /\ UNCHANGED <<result, retryOK>>

(* Mutant: a revision is needed, and the Run goes to review all the same.  *)
AfterVerdictReview(v) == "awaiting_review"

(* Mutant: the outcome is written where the Run state belongs.             *)
AfterVerdictOutcome(v) == v

(* Where the verdict sends the Run.                                        *)
AfterVerdict(v) == IF v = "review_ready" THEN "awaiting_review"
                                         ELSE "revision_required"

(* The verdict: records, Run and retry authority in one transaction.       *)
GiveVerdict(k, v) ==
  /\ SaveRun(AfterVerdict(v))
  /\ try' = [try EXCEPT ![k] = "completed"]
  /\ vrun' = [vrun EXCEPT ![k[1]] = "completed"]
  /\ result' = [result EXCEPT ![k[1]] = v]
  /\ retryOK' = (v = "needs_revision")

(* Mutant: the request to cancel is not read again.                        *)
WithdrawnNever(k) == FALSE

(* VerificationCancelRequested, read again in the committing transaction.  *)
Withdrawn(k) == k \in asked

CommitEvidence(k) ==
  /\ exec[k].at = "returned" /\ exec[k].class = "completed"
  /\ Complete(exec[k].evid) /\ Running(k)
  /\ rows' = [rows EXCEPT ![k] = exec[k].evid]
  /\ IF Withdrawn(k) THEN FinishCancellation(k)
                     ELSE GiveVerdict(k, Outcome(exec[k].evid))
  /\ Leave(k)
  /\ UNCHANGED <<cur, last, asked, room, boxes, server, enabled, auto,
                 crashes>>

CommitCancellation(k) ==
  /\ exec[k].at = "returned" /\ exec[k].class = "cancelled"
  /\ ProvesCancellation(exec[k].evid) /\ Running(k)
  /\ rows' = [rows EXCEPT ![k] = exec[k].evid]
  /\ FinishCancellation(k)
  /\ Leave(k)
  /\ UNCHANGED <<cur, last, asked, room, boxes, server, enabled, auto,
                 crashes>>
-----------------------------------------------------------------------------
(* persistVerificationRecovery: the three records and the Run stop being   *)
(* trusted together.  It does nothing after a verdict or a recovery.       *)
AlreadySettled == \/ cur # 0 /\ result[cur] # "none"
                  \/ runState = "verification_recovery_required"

(* Mutant: only the attempt of the Verifier is marked.                     *)
DistrustAttemptOnly(k) ==
  /\ runState' = runState /\ version' = version + 1
  /\ vrun' = [vrun EXCEPT ![k[1]] = "recovery_required"]
  /\ try' = [try EXCEPT ![k] = "recovery_required"]

Distrust(k) ==
  /\ SaveRun("verification_recovery_required")
  /\ vrun' = [vrun EXCEPT ![k[1]] = "recovery_required"]
  /\ try' = [try EXCEPT ![k] = "recovery_required"]

CommitRecovery(k) ==
  /\ exec[k].at = "returned" /\ exec[k].class = "recovery"
  /\ Running(k)
  /\ rows' = [rows EXCEPT ![k] = exec[k].evid]
  /\ Distrust(k)
  /\ Leave(k)
  /\ UNCHANGED <<cur, last, asked, result, retryOK, room, boxes, server,
                 enabled, auto, crashes>>

(* Mutant: after a rollback the executor just ends.                        *)
CommitFailsSilently(k) ==
  /\ exec[k].at = "returned" /\ Fault
  /\ exec' = [exec EXCEPT ![k] = NoExecutor]
  /\ UNCHANGED <<storeVars, boxes, server, enabled, auto, crashes>>

(* The transaction rolled back: the executor marks recovery instead.       *)
CommitFails(k) ==
  /\ exec[k].at = "returned" /\ Fault
  /\ exec' = [exec EXCEPT ![k].at = "doubt"]
  /\ UNCHANGED <<storeVars, boxes, server, enabled, auto, crashes>>

(* markVerificationRecovery; the executor drops its error and ends.        *)
MarkRecovery(k) ==
  /\ exec[k].at = "doubt"
  /\ IF ~AlreadySettled /\ Running(k)
       THEN Distrust(k) /\ UNCHANGED <<cur, last, asked, rows, result,
                                       retryOK, room>>
       ELSE UNCHANGED storeVars
  /\ exec' = [exec EXCEPT ![k] = NoExecutor]
  /\ UNCHANGED <<boxes, server, enabled, auto, crashes, faults>>

MarkFails(k) ==
  /\ exec[k].at = "doubt" /\ Fault
  /\ exec' = [exec EXCEPT ![k] = NoExecutor]
  /\ UNCHANGED <<storeVars, boxes, server, enabled, auto, crashes>>
-----------------------------------------------------------------------------
(* Mutant: a Run under verification does not hold its Room.                *)
PendingAgentWork == runState \in {"ready", "running", "awaiting_verification"}

(* roomHasExternalActivity of a Room that no project owns.                 *)
Pending == \/ runState \in {"ready", "running", "awaiting_verification",
                            "verifying", "verification_recovery_required"}
           \/ \E a \in Agents :
                vrun[a] \in {"awaiting", "verifying", "recovery_required"}

ArchiveRoom == /\ server = "up" /\ room = "active" /\ ~Pending
               /\ room' = "archived"
               /\ UNCHANGED <<runVars, recordVars, retryOK, boxes,
                              serverVars, crashes, faults>>

RestoreRoom == /\ server = "up" /\ room = "archived"
               /\ room' = "active"
               /\ UNCHANGED <<runVars, recordVars, retryOK, boxes,
                              serverVars, crashes, faults>>
-----------------------------------------------------------------------------
(* Server.Close cancels the lifecycle of every executor and waits for none.*)
Close ==
  /\ server = "up" /\ server' = "closing"
  /\ exec' = [k \in Keys |-> IF exec[k].at # "none" /\ exec[k].ctx = "live"
                               THEN [exec[k] EXCEPT !.ctx = "cancelled"]
                               ELSE exec[k]]
  /\ UNCHANGED <<storeVars, boxes, enabled, auto, crashes, faults>>

(* What the process held is lost with it.                                  *)
Stopped == /\ server' = "down"
           /\ exec' = [k \in Keys |-> NoExecutor]
           /\ auto' = 0
           /\ UNCHANGED <<storeVars, boxes, enabled>>

Exit == server = "closing" /\ Stopped /\ UNCHANGED <<crashes, faults>>

Crash == /\ server \in {"up", "closing", "booting"}
         /\ crashes < MaxCrashes /\ crashes' = crashes + 1
         /\ Stopped
         /\ UNCHANGED faults

(* recoverInstalledVerifierStartup removes what any Verifier left behind,  *)
(* before the records are read; when it fails there is no Verifier.        *)
BootRecover == /\ server = "down" /\ server' = "booting"
               /\ boxes' = {} /\ enabled' = TRUE
               /\ UNCHANGED <<storeVars, auto, exec, crashes, faults>>

BootRecoverFails == /\ server = "down" /\ server' = "booting"
                    /\ Fault
                    /\ enabled' = FALSE
                    /\ UNCHANGED <<storeVars, boxes, auto, exec, crashes>>

(* ListVerificationStartupCandidates.                                      *)
Candidate(a) == LET k == <<a, last[a]>>
                IN  /\ last[a] # 0
                    /\ \/ vrun[a] = "verifying" /\ try[k] = "running"
                       \/ /\ vrun[a] = "recovery_required"
                          /\ try[k] = "recovery_required"

(* One candidate of RecoverStartup whose records still change.             *)
BootMark(a) ==
  /\ server = "booting" /\ Candidate(a) /\ ~AlreadySettled
  /\ Running(<<a, last[a]>>) /\ Distrust(<<a, last[a]>>)
  /\ UNCHANGED <<cur, last, asked, rows, result, retryOK, room, boxes,
                 serverVars, crashes, faults>>

BootServe == /\ server = "booting"
             /\ \A a \in Agents : Candidate(a) => AlreadySettled
             /\ server' = "up"
             /\ UNCHANGED <<storeVars, boxes, enabled, auto, exec, crashes,
                            faults>>

(* An error of RecoverStartup ends the start of the server.                *)
BootFails == /\ server = "booting" /\ Fault
             /\ server' = "down"
             /\ UNCHANGED <<storeVars, boxes, enabled, auto, exec, crashes>>
-----------------------------------------------------------------------------
Command == \/ PrepareRun \/ PrepareAgentRetry \/ StartAgent \/ SubmitReport
           \/ Accept \/ Reject
           \/ StartVerification \/ RetryVerification \/ CancelVerification
           \/ ArchiveRoom \/ RestoreRoom

AutoStarter == AutoStart \/ AutoStartFails

Verify(k) == \/ PrepareSandbox(k) \/ PrepareRefused(k)
             \/ CommandEnd(k) \/ CommandCancelled(k) \/ TerminateFails(k)
             \/ Cleanup(k) \/ CleanupFails(k)

Commit(k) == \/ CommitEvidence(k) \/ CommitCancellation(k)
             \/ CommitRecovery(k) \/ CommitFails(k)
             \/ MarkRecovery(k) \/ MarkFails(k)

Boot == \/ BootRecover \/ BootRecoverFails \/ BootServe \/ BootFails
        \/ \E a \in Agents : BootMark(a)

Next == \/ Command \/ AutoStarter
        \/ \E k \in Keys : AttemptDeadline(k) \/ Verify(k) \/ Commit(k)
        \/ Close \/ Exit \/ Crash \/ Boot

Spec == Init /\ [][Next]_vars

(* The scheduler runs every goroutine; a command or a call to Docker that  *)
(* does not end is ended by its own timeout.                               *)
Fairness == /\ WF_vars(AutoStarter)
            /\ \A k \in Keys : WF_vars(Verify(k) \/ Commit(k))

FairSpec == Spec /\ Fairness
-----------------------------------------------------------------------------
(* Types.                                                                  *)
TypeOK ==
  /\ runState \in RunPhases /\ version \in Nat /\ cur \in 0..MaxAttempts
  /\ vrun \in [Agents -> VerificationRunStates]
  /\ last \in [Agents -> 0..MaxTries]
  /\ try \in [Keys -> TryStates]
  /\ asked \subseteq Keys
  /\ rows \in [Keys -> Seq(Kinds)]
  /\ result \in [Agents -> Outcomes \cup {"none"}]
  /\ retryOK \in BOOLEAN /\ room \in {"active", "archived"}
  /\ boxes \subseteq Keys
  /\ server \in {"up", "closing", "down", "booting"}
  /\ enabled \in BOOLEAN /\ auto \in Nat
  /\ exec \in [Keys -> Executor]
  /\ crashes \in 0..MaxCrashes /\ faults \in 0..MaxFaults

(* Only the current output may have an open verification.                  *)
OthersAreOver == \A a \in Agents : a # cur => vrun[a] \in {"none", "completed"}

RunMatchesVerification ==
  /\ cur = 0 <=> runState = "draft"
  /\ cur # 0 =>
       /\ vrun[cur] = "verifying" <=> runState = "verifying"
       /\ vrun[cur] = "recovery_required"
            <=> runState = "verification_recovery_required"
       /\ vrun[cur] = "none" <=>
            \/ runState \in {"ready", "running"}
            \/ runState = "awaiting_verification" /\ last[cur] = 0
       /\ vrun[cur] = "awaiting" <=>
            runState = "awaiting_verification" /\ last[cur] # 0

VerificationMatchesTry ==
  \A a \in Agents :
    LET state == try[<<a, last[a]>>]
    IN  /\ vrun[a] = "none" <=> last[a] = 0
        /\ vrun[a] = "awaiting" => state = "cancelled"
        /\ vrun[a] = "verifying" => state = "running"
        /\ vrun[a] = "completed" => state = "completed"
        /\ vrun[a] = "recovery_required" => state = "recovery_required"

(* A retry follows an attempt that gave no verdict.                        *)
OtherTriesGaveUp ==
  \A k \in Keys :
    /\ k[2] < last[k[1]] => try[k] \in {"cancelled", "recovery_required"}
    /\ k[2] > last[k[1]] => try[k] = "none"

(* The Run, its VerificationRun and the last Verification Attempt never    *)
(* disagree, whatever committed, rolled back or was recovered.             *)
RecordsAgree == /\ OthersAreOver /\ RunMatchesVerification
                /\ VerificationMatchesTry /\ OtherTriesGaveUp

(* A verdict is given by the last attempt, on complete evidence, with its  *)
(* sandbox gone and nobody having asked to cancel it.                      *)
VerdictIsEarned ==
  \A a \in Agents : result[a] # "none" =>
    LET k == <<a, last[a]>>
    IN  /\ vrun[a] = "completed" /\ try[k] = "completed"
        /\ Complete(rows[k])
        /\ k \notin asked /\ k \notin boxes

(* The Run is ready for review exactly when every stored command passed.   *)
VerdictMatchesEvidence ==
  \A a \in Agents : result[a] # "none" =>
    ( result[a] = "review_ready" <=>
      \A i \in 1..Commands : rows[<<a, last[a]>>][i] = "passed" )

(* "cleanup_proven" of a finished attempt is true: nothing of it runs.     *)
TerminalIsClean ==
  \A k \in Keys : try[k] \in {"completed", "cancelled"} => k \notin boxes

(* Cancel, retry, auto-start and restart never leave two executors that    *)
(* can still record, and the one there is judges the current output.       *)
Recording(k) ==
  exec[k].at \in {"preparing", "executing", "cleaning", "returned"}
OneVerifierPerRun ==
  \A k \in Keys : Recording(k) => cur # 0 /\ k = Current /\ Running(k)

(* A person never reviews an output that was not found ready for review.   *)
ReviewIsVerified ==
  runState \in {"awaiting_review", "accepted"} => result[cur] = "review_ready"

(* RecoverStartup ends the start with an error when one candidate cannot   *)
(* be settled; no history of the Run and its Room leads there.             *)
StartupAccepts ==
  server = "booting" =>
    \A a \in Agents : Candidate(a) =>
      \/ AlreadySettled
      \/ Running(<<a, last[a]>>) /\ room = "active"

(* An output that nobody verifies waits "for a later explicit action"      *)
(* (autoStartVerification): whatever a crash, a shutdown, a fault, a       *)
(* cancellation or the archive of the Room did before, a person can start  *)
(* or retry its verification as soon as the verifier is there.             *)
WaitingCanBeVerified ==
  (enabled /\ runState \in {"awaiting_verification",
                            "verification_recovery_required"})
    => /\ Startable \/ Retryable
       /\ result[cur] = "none"

(* What the records say of verification is what VerdictOnce promises.      *)
Round == IF runState = "verifying"
           THEN IF Current \in asked THEN "withdrawn" ELSE "checking"
           ELSE IF runState = "verification_recovery_required"
                  THEN "unsure" ELSE "idle"
Verdicts == INSTANCE VerdictOnce WITH current <- cur, verdict <- result,
                                      round <- Round
ImplementsVerdictOnce == Verdicts!Spec

(* The Run itself follows the transition table of the domain package.      *)
Machine == INSTANCE RunMachine WITH state <- runState, attempt <- cur
ImplementsRunMachine == Machine!Spec

(* While the server stays up a started verification does not hang.         *)
VerificationSettles ==
  (server = "up" /\ runState = "verifying")
    ~> (server # "up" \/ runState # "verifying")

(* A Verification Attempt ends cancelled for one of two reasons: somebody  *)
(* asked for it (requestVerificationCancelTx), or its context ended under  *)
(* a command, which is then the last of its evidence                       *)
(* (commitVerificationCancellation).  Commands that all ended by           *)
(* themselves are dropped only on request.                                 *)
CancelledHasCause ==
  \A k \in Keys : try[k] = "cancelled" =>
    k \in asked \/ ProvesCancellation(rows[k])

(* "user_cancelled" is the reason stored with every attempt that ends      *)
(* cancelled before its commands do: then somebody asked to cancel it.     *)
CancelledWasAsked == \A k \in Keys : try[k] = "cancelled" => k \in asked
=============================================================================
