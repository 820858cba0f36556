------------------------------ MODULE AgentRun ------------------------------
(***************************************************************************)
(* One persisted AgentRun with its timestamps.  AgentRun.Transition,       *)
(* ApplyReview and ApplyVerifiedReview (internal/domain/run.go) compute a   *)
(* successor; SaveRunCAS (internal/store/sqlite/runs.go) stores it only if  *)
(* ValidateRunSuccessor, written independently of them, agrees, and else    *)
(* answers ErrVersionConflict.  The service issues the commands: the order  *)
(* in which it can issue them decides whether the two ever disagree, which  *)
(* would leave a Run that no caller can move again.                         *)
(***************************************************************************)
EXTENDS Naturals, RunTable

CONSTANTS Profiles,     \* execution profiles with an available route
          MaxTime,      \* bound on the clock
          MaxVersion    \* bound on the number of saved successors

ASSUME BoundsAssumption == MaxTime \in Nat \ {0} /\ MaxVersion \in Nat

VARIABLES run,        \* the stored AgentRun
          rejection,  \* class of the decision on the current attempt's result
          profile,    \* Task execution-profile preference
          lastSave,   \* what the last SaveRunCAS answered
          overruled   \* history: a switch took up a Run that a rejection ended

vars == <<run, rejection, profile, lastSave, overruled>>

Zero == 0      \* time.Time{}
CreatedAt == 1

RunRecord == [state : RunStates, version : Nat, attempt : Nat,
              updatedAt : Nat, startedAt : Nat, reviewRequestedAt : Nat,
              terminalAt : Nat]

RejectionClasses ==
  {"implementation_gap", "planning_gap", "contract_change_required"}

(* A rejection AllowsAgentRetry denies.                                    *)
RetryRefusing == RejectionClasses \ {"implementation_gap"}

(* ValidateRunSuccessor, clause by clause.                                 *)
ExpectedAttempt(cur, next) ==
  IF next.state = "ready" /\ cur.state \in {"draft", "revision_required",
                                            "recovery_required", "cancelled"}
    THEN cur.attempt + 1 ELSE cur.attempt

ExpectedStartedAt(cur, next) ==
  IF cur.state = "ready" /\ next.state = "running" /\ cur.startedAt = Zero
    THEN next.updatedAt ELSE cur.startedAt

ExpectedReviewRequestedAt(cur, next) ==
  IF next.state = "awaiting_review" /\ cur.state \in {"verifying", "running"}
    THEN next.updatedAt ELSE cur.reviewRequestedAt

ExpectedTerminalAt(cur, next) ==
  IF \/ next.state \in {"accepted", "cancelled", "completed"}
     \/ next.state = "revision_required" /\ next.terminalAt # Zero
    THEN next.updatedAt
    ELSE IF cur.state = "cancelled" /\ next.state = "ready"
           THEN Zero ELSE cur.terminalAt

ValidateRunSuccessor(cur, next) ==
  /\ next.version = cur.version + 1
  /\ next.updatedAt >= cur.updatedAt
  /\ CanTransitionRunState(cur.state, next.state)
  /\ next.attempt = ExpectedAttempt(cur, next)
  /\ next.startedAt = ExpectedStartedAt(cur, next)
  /\ next.reviewRequestedAt = ExpectedReviewRequestedAt(cur, next)
  /\ next.terminalAt = ExpectedTerminalAt(cur, next)

(* AgentRun.Transition: the successor by command c to state n at time at.  *)
TerminalAtAfter(r, c, at) ==
  IF c \in {"stop_confirmed_for_cancel", "cancel_inactive_run",
            "complete_no_change"}
    THEN at
    ELSE IF c = "prepare_retry" /\ r.state = "cancelled" THEN Zero
                                                       ELSE r.terminalAt

Transition(r, c, n, at) ==
  [state |-> n, version |-> r.version + 1,
   attempt |-> IF c \in PrepareCommands THEN r.attempt + 1 ELSE r.attempt,
   updatedAt |-> at,
   startedAt |-> IF c = "start_attempt" /\ r.startedAt = Zero
                   THEN at ELSE r.startedAt,
   reviewRequestedAt |-> IF c \in {"verification_passed",
                                   "submit_agent_report_direct_review"}
                           THEN at ELSE r.reviewRequestedAt,
   terminalAt |-> TerminalAtAfter(r, c, at)]

(* ApplyReview, and ApplyVerifiedReview when settles is the verified rule. *)
Reviewed(r, n, at, settles) ==
  [r EXCEPT !.state = n, !.version = @ + 1, !.updatedAt = at,
            !.terminalAt = IF settles THEN at ELSE @]

(* SaveRunCAS of a successor computed under the Run lock.                  *)
Save(next) ==
  IF ValidateRunSuccessor(run, next)
    THEN run' = next /\ lastSave' = "saved"
    ELSE UNCHANGED run /\ lastSave' = "version_conflict"

(* Transition refuses a clock that runs backwards.                         *)
Now == run.updatedAt..MaxTime

(* A command that computes its successor with Transition.                  *)
Successor(c) ==
  \E n \in Targets(run.state, {c}), at \in Now :
    Save(Transition(run, c, n, at))
-----------------------------------------------------------------------------
Init == /\ run = [state |-> "draft", version |-> 0, attempt |-> 0,
                  updatedAt |-> CreatedAt, startedAt |-> Zero,
                  reviewRequestedAt |-> Zero, terminalAt |-> Zero]
        /\ rejection = "none"
        /\ profile \in Profiles
        /\ lastSave = "saved"
        /\ overruled = FALSE

(* The commands the service issues from the state alone: everything but    *)
(* reviews, retries and the cancellation of an inactive Run.               *)
OrdinaryCommands ==
  CommandKinds \ (ReviewCommands \cup {"prepare_retry", "cancel_inactive_run"})

Command(c) == Successor(c) /\ UNCHANGED <<rejection, profile, overruled>>

(* requestStop and stopDelegatedRun cancel without a process only here.    *)
CancelInactiveRun ==
  /\ run.state \in {"draft", "ready", "recovery_required"}
  /\ Successor("cancel_inactive_run")
  /\ UNCHANGED <<rejection, profile, overruled>>

(* Service.Review on a Run without a verified or local review result.      *)
Review(kind) ==
  /\ run.state = "awaiting_review"
  /\ \E n \in Targets(run.state, {kind}), at \in Now :
       Save(Reviewed(run, n, at, kind = "review_accept"))
  /\ UNCHANGED <<rejection, profile, overruled>>

(* Service.ReviewVerifiedResult; a rejection carries a class.              *)
AcceptVerifiedResult ==
  /\ run.state = "awaiting_review"
  /\ \E n \in Targets(run.state, {"review_accept"}), at \in Now :
       Save(Reviewed(run, n, at, TRUE))
  /\ UNCHANGED <<rejection, profile, overruled>>

RejectVerifiedResult(class) ==
  /\ run.state = "awaiting_review"
  /\ \E n \in Targets(run.state, {"review_reject"}), at \in Now :
       Save(Reviewed(run, n, at, class # "implementation_gap"))
  /\ rejection' = IF lastSave' = "saved" THEN class ELSE rejection
  /\ UNCHANGED <<profile, overruled>>

(* Mutant: any rejection lets the Agent retry.                             *)
PrepareRetryAnyClass ==
  /\ Successor("prepare_retry")
  /\ rejection' = "none"
  /\ UNCHANGED <<profile, overruled>>

(* retryRun and PrepareVerifiedAgentRetry: verifiedRetryAuthority refuses a *)
(* rejection that calls for a new plan or a new contract.                   *)
PrepareRetry ==
  /\ rejection \notin RetryRefusing
  /\ Successor("prepare_retry")
  /\ rejection' = "none"
  /\ UNCHANGED <<profile, overruled>>

(* PrepareProfileSwitch: the successor Attempt runs under another profile. *)
PrepareProfileSwitch ==
  /\ Successor("prepare_retry")
  /\ profile' \in Profiles \ {profile}
  /\ rejection' = "none"
  /\ overruled' = (overruled \/ rejection \in RetryRefusing)

Next ==
  /\ run.version < MaxVersion
  /\ \/ \E c \in OrdinaryCommands : Command(c)
     \/ CancelInactiveRun
     \/ \E kind \in ReviewCommands : Review(kind)
     \/ AcceptVerifiedResult
     \/ \E class \in RejectionClasses : RejectVerifiedResult(class)
     \/ PrepareRetry
     \/ PrepareProfileSwitch

Spec == Init /\ [][Next]_vars
-----------------------------------------------------------------------------
(* Every stored field keeps its domain, and no stored time is later than   *)
(* the last update.                                                        *)
TypeOK ==
  /\ run \in RunRecord
  /\ run.startedAt <= run.updatedAt /\ run.reviewRequestedAt <= run.updatedAt
  /\ run.terminalAt <= run.updatedAt
  /\ rejection \in RejectionClasses \cup {"none"}
  /\ profile \in Profiles
  /\ lastSave \in {"saved", "version_conflict"}
  /\ overruled \in BOOLEAN

(* Every successor the service computes is one the store accepts: no legal *)
(* sequence of commands reaches a Run that SaveRunCAS refuses to move,     *)
(* unless a profile switch took up a Run whose rejection had settled it.   *)
SaveNeverConflicts == overruled \/ lastSave = "saved"

(* A rejection for a planning gap or a contract change blocks the Agent:   *)
(* the Run it settled gets no successor Attempt.                           *)
RejectionBlocksRetry ==
  [][(rejection \in RetryRefusing) => run'.attempt = run.attempt]_vars

(* What is true of that promise: retryRun, PrepareVerifiedAgentRetry and   *)
(* every other command keep it, and only a profile switch breaks it.       *)
OnlySwitchOverrules ==
  [][(rejection \in RetryRefusing /\ run'.attempt # run.attempt)
       => profile' # profile /\ overruled']_vars

Machine == INSTANCE RunMachine WITH state <- run.state, version <- run.version,
                                    attempt <- run.attempt

(* The stored Run follows the domain's abstract machine.                   *)
ImplementsRunMachine == Machine!Spec
=============================================================================
