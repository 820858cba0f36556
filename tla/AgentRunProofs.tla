--------------------------- MODULE AgentRunProofs ---------------------------
(***************************************************************************)
(* Theorems of AgentRun for every set of profiles and every bound: the     *)
(* stored Run keeps its type and implements RunMachine; no command         *)
(* computes a successor that SaveRunCAS refuses, unless a profile switch   *)
(* took up a Run that a rejection had settled; and nothing but a profile   *)
(* switch takes up such a Run.                                             *)
(***************************************************************************)
EXTENDS AgentRun, RunTableProofs
-----------------------------------------------------------------------------
(***************************************************************************)
(* Types, for any profiles.                                                *)
(***************************************************************************)

(* A successor stays in the record's type, its times behind its update.    *)
LEMMA TransitionType ==
  ASSUME TypeOK, NEW c, NEW n \in Targets(run.state, {c}), NEW at \in Now
  PROVE  LET next == Transition(run, c, n, at) IN
         /\ next \in RunRecord
         /\ next.startedAt <= next.updatedAt
         /\ next.reviewRequestedAt <= next.updatedAt
         /\ next.terminalAt <= next.updatedAt
<1>1. n \in RunStates
  BY RowOfCommand, CanFollow
<1>2. at \in Nat /\ at >= run.updatedAt
  BY BoundsAssumption DEF TypeOK, RunRecord, Now
<1> QED
  BY <1>1, <1>2 DEF TypeOK, RunRecord, Transition, TerminalAtAfter, Zero

(* A reviewed successor, field by field.                                   *)
LEMMA ReviewedFields ==
  ASSUME run \in RunRecord, NEW n \in RunStates, NEW at \in Nat,
         NEW settles \in BOOLEAN
  PROVE  LET next == Reviewed(run, n, at, settles) IN
         /\ next \in RunRecord
         /\ next.state = n /\ next.version = run.version + 1
         /\ next.attempt = run.attempt /\ next.updatedAt = at
         /\ next.startedAt = run.startedAt
         /\ next.reviewRequestedAt = run.reviewRequestedAt
         /\ next.terminalAt = IF settles THEN at ELSE run.terminalAt
<1> DEFINE next == Reviewed(run, n, at, settles)
<1>1. next.state = n /\ next.version = run.version + 1
  BY DEF Reviewed, RunRecord
<1>2. next.attempt = run.attempt /\ next.updatedAt = at
  BY DEF Reviewed, RunRecord
<1>3. /\ next.startedAt = run.startedAt
      /\ next.reviewRequestedAt = run.reviewRequestedAt
  BY DEF Reviewed, RunRecord
<1>4. next.terminalAt = IF settles THEN at ELSE run.terminalAt
  BY DEF Reviewed, RunRecord
<1>5. next \in RunRecord
  <2> DEFINE end == IF settles THEN at ELSE run.terminalAt
  <2>1. end \in Nat
    BY DEF RunRecord
  <2>2. next = [run EXCEPT !.state = n, !.version = run.version + 1,
                           !.updatedAt = at, !.terminalAt = end]
    BY DEF Reviewed
  <2> HIDE DEF end, next
  <2>3. [run EXCEPT !.state = n] \in RunRecord
    BY DEF RunRecord
  <2>4. ASSUME NEW r \in RunRecord
        PROVE  [r EXCEPT !.version = run.version + 1] \in RunRecord
    BY DEF RunRecord
  <2>5. ASSUME NEW r \in RunRecord
        PROVE  [r EXCEPT !.updatedAt = at, !.terminalAt = end] \in RunRecord
    BY <2>1 DEF RunRecord
  <2> QED
    BY <2>2, <2>3, <2>4, <2>5
<1> QED
  BY <1>1, <1>2, <1>3, <1>4, <1>5

LEMMA ReviewedType ==
  ASSUME TypeOK, NEW c, NEW n \in Targets(run.state, {c}), NEW at \in Now,
         NEW settles \in BOOLEAN
  PROVE  LET next == Reviewed(run, n, at, settles) IN
         /\ next \in RunRecord
         /\ next.startedAt <= next.updatedAt
         /\ next.reviewRequestedAt <= next.updatedAt
         /\ next.terminalAt <= next.updatedAt
<1>1. n \in RunStates
  BY RowOfCommand, CanFollow
<1>2. at \in Nat /\ at >= run.updatedAt
  BY BoundsAssumption DEF TypeOK, RunRecord, Now
<1>3. /\ run \in RunRecord
      /\ run.startedAt <= run.updatedAt
      /\ run.reviewRequestedAt <= run.updatedAt
      /\ run.terminalAt <= run.updatedAt
  BY DEF TypeOK
<1> QED
  BY <1>1, <1>2, <1>3, ReviewedFields DEF RunRecord

(* What a save leaves of the type invariant.                               *)
RunOK == /\ run \in RunRecord
         /\ run.startedAt <= run.updatedAt
         /\ run.reviewRequestedAt <= run.updatedAt
         /\ run.terminalAt <= run.updatedAt
         /\ lastSave \in {"saved", "version_conflict"}

LEMMA SuccessorType ==
  ASSUME TypeOK, NEW c, Successor(c)
  PROVE  RunOK'
<1>1. PICK n \in Targets(run.state, {c}), at \in Now :
        Save(Transition(run, c, n, at))
  BY DEF Successor
<1> QED
  BY <1>1, TransitionType DEF Save, RunOK, TypeOK

LEMMA ReviewType ==
  ASSUME TypeOK, NEW c, NEW n \in Targets(run.state, {c}), NEW at \in Now,
         NEW settles \in BOOLEAN, Save(Reviewed(run, n, at, settles))
  PROVE  RunOK'
BY ReviewedType DEF Save, RunOK, TypeOK

(* Every stored field keeps its domain and no stored time is later than    *)
(* the last update, whatever commands the service issues.                  *)
THEOREM TypeCorrect == Spec => []TypeOK
<1>1. Init => TypeOK
  <2>1. Init => overruled \in BOOLEAN
    BY DEF Init
  <2>2. Init => RunOK /\ rejection = "none" /\ profile \in Profiles
    BY DEF Init, RunOK, RunRecord, RunStates, CreatedAt, Zero
  <2> QED
    BY <2>1, <2>2 DEF TypeOK, RunOK
<1>2. TypeOK /\ [Next]_vars => TypeOK'
  <2> SUFFICES ASSUME TypeOK, [Next]_vars PROVE TypeOK'
    OBVIOUS
  <2>1. ASSUME NEW c \in OrdinaryCommands, Command(c) PROVE TypeOK'
    BY <2>1, SuccessorType DEF Command, TypeOK, RunOK
  <2>2. CASE CancelInactiveRun
    BY <2>2, SuccessorType DEF CancelInactiveRun, TypeOK, RunOK
  <2>3. ASSUME NEW kind \in ReviewCommands, Review(kind) PROVE TypeOK'
    BY <2>3, ReviewType DEF Review, TypeOK, RunOK
  <2>4. CASE AcceptVerifiedResult
    BY <2>4, ReviewType DEF AcceptVerifiedResult, TypeOK, RunOK
  <2>5. ASSUME NEW class \in RejectionClasses, RejectVerifiedResult(class)
        PROVE TypeOK'
    BY <2>5, ReviewType DEF RejectVerifiedResult, TypeOK, RunOK
  <2>6. CASE PrepareRetry
    BY <2>6, SuccessorType DEF PrepareRetry, TypeOK, RunOK
  <2>7. CASE PrepareProfileSwitch
    BY <2>7, SuccessorType DEF PrepareProfileSwitch, TypeOK, RunOK
  <2>8. CASE UNCHANGED vars
    BY <2>8 DEF vars, TypeOK
  <2> QED
    BY <2>1, <2>2, <2>3, <2>4, <2>5, <2>6, <2>7, <2>8 DEF Next
<1> QED
  BY <1>1, <1>2, PTL DEF Spec
-----------------------------------------------------------------------------
(***************************************************************************)
(* No conflict, for any profiles.                                          *)
(***************************************************************************)

(* A Run with a terminal time has ended; the one way on, a retry after a   *)
(* cancellation, clears it.  A settled rejection ends the Run too.         *)
SettledHasEnded ==
  run.terminalAt # Zero =>
    \/ run.state \in {"accepted", "completed", "cancelled"}
    \/ run.state = "revision_required" /\ rejection \in RetryRefusing

(* What makes the two computations of a successor agree, inductively.      *)
Agreement == /\ SettledHasEnded
             /\ run.updatedAt >= CreatedAt
             /\ lastSave = "saved"

(* A command whose Transition the store accepts: all but a retry of a Run  *)
(* that a rejection has settled.                                           *)
LEMMA TransitionAgrees ==
  ASSUME TypeOK, Agreement, NEW c, c \notin ReviewCommands,
         NEW n \in Targets(run.state, {c}), NEW at \in Now,
         c = "prepare_retry" => rejection \notin RetryRefusing
  PROVE  LET next == Transition(run, c, n, at) IN
         /\ ValidateRunSuccessor(run, next)
         /\ next.updatedAt >= CreatedAt
         /\ next.terminalAt # Zero =>
              next.state \in {"accepted", "completed", "cancelled"}
<1> DEFINE next == Transition(run, c, n, at)
<1>1. <<run.state, c, n>> \in RunTransitions
  BY RowOfCommand
<1>2. CanTransitionRunState(run.state, n) /\ n \in RunStates
  BY <1>1, CanFollow
<1>3. at \in Nat /\ at >= run.updatedAt /\ at >= 1
  BY BoundsAssumption DEF TypeOK, RunRecord, Now, Agreement, CreatedAt
<1>4. run.terminalAt # Zero =>
        \/ run.state \in {"accepted", "completed", "cancelled"}
        \/ run.state = "revision_required" /\ c # "prepare_retry"
  BY DEF Agreement, SettledHasEnded
<1>5. next.attempt = ExpectedAttempt(run, next)
  BY <1>1 DEF RunTransitions, Transition, ExpectedAttempt, PrepareCommands,
              TypeOK, RunRecord
<1>6. next.startedAt = ExpectedStartedAt(run, next)
  BY <1>1 DEF RunTransitions, Transition, ExpectedStartedAt
<1>7. next.reviewRequestedAt = ExpectedReviewRequestedAt(run, next)
  BY <1>1 DEF RunTransitions, Transition, ExpectedReviewRequestedAt
<1>8. next.terminalAt = ExpectedTerminalAt(run, next)
  BY <1>1, <1>4 DEF RunTransitions, Transition, TerminalAtAfter,
                    ExpectedTerminalAt, ReviewCommands, Zero
<1>9. next.terminalAt # Zero =>
        next.state \in {"accepted", "completed", "cancelled"}
  BY <1>1, <1>4 DEF RunTransitions, Transition, TerminalAtAfter, Zero
<1>10. /\ next.version = run.version + 1 /\ next.updatedAt = at
       /\ next.state = n
  BY DEF Transition
<1> QED
  BY <1>2, <1>3, <1>5, <1>6, <1>7, <1>8, <1>9, <1>10
  DEF ValidateRunSuccessor, CreatedAt

LEMMA SuccessorAgrees ==
  ASSUME TypeOK, Agreement, NEW c, c \notin ReviewCommands, Successor(c),
         c = "prepare_retry" => rejection \notin RetryRefusing
  PROVE  Agreement'
<1>1. PICK n \in Targets(run.state, {c}), at \in Now :
        Save(Transition(run, c, n, at))
  BY DEF Successor
<1>2. run' = Transition(run, c, n, at) /\ lastSave' = "saved"
  BY <1>1, TransitionAgrees DEF Save
<1> QED
  BY <1>2, TransitionAgrees DEF Agreement, SettledHasEnded

(* A decision: the Run it ends gets its terminal time, a rejection that     *)
(* settles records a class that refuses the retry.                         *)
LEMMA ReviewAgrees ==
  ASSUME TypeOK, Agreement, run.state = "awaiting_review",
         NEW c \in ReviewCommands, NEW n \in Targets(run.state, {c}),
         NEW at \in Now, NEW settles \in BOOLEAN,
         c = "review_accept" => settles,
         Save(Reviewed(run, n, at, settles))
  PROVE  /\ lastSave' = "saved" /\ run'.updatedAt >= CreatedAt
         /\ run'.terminalAt # Zero => settles
         /\ run'.state = IF c = "review_accept" THEN "accepted"
                                               ELSE "revision_required"
<1> DEFINE next == Reviewed(run, n, at, settles)
<1>1. <<run.state, c, n>> \in RunTransitions
  BY RowOfCommand
<1>2. CanTransitionRunState(run.state, n) /\ n \in RunStates
  BY <1>1, CanFollow
<1>3. n = IF c = "review_accept" THEN "accepted" ELSE "revision_required"
  BY <1>1 DEF RunTransitions, ReviewCommands
<1>4. at \in Nat /\ at >= run.updatedAt /\ at >= 1
  BY BoundsAssumption DEF TypeOK, RunRecord, Now, Agreement, CreatedAt
<1>5. run.terminalAt = Zero
  BY DEF Agreement, SettledHasEnded
<1>6. /\ next.state = n /\ next.version = run.version + 1
      /\ next.attempt = run.attempt /\ next.updatedAt = at
      /\ next.startedAt = run.startedAt
      /\ next.reviewRequestedAt = run.reviewRequestedAt
      /\ next.terminalAt = IF settles THEN at ELSE run.terminalAt
  BY <1>2, <1>4, ReviewedFields DEF TypeOK
<1> HIDE DEF next
<1>7. ValidateRunSuccessor(run, next)
  BY <1>2, <1>3, <1>4, <1>5, <1>6
  DEF ValidateRunSuccessor, ExpectedAttempt, ExpectedStartedAt,
      ExpectedReviewRequestedAt, ExpectedTerminalAt, Zero
<1>8. run' = next /\ lastSave' = "saved"
  BY <1>7 DEF Save, next
<1> QED
  BY <1>3, <1>4, <1>5, <1>6, <1>8 DEF CreatedAt

(* Every successor the service computes is one the store accepts, whatever *)
(* the profiles: no sequence of commands reaches a Run that SaveRunCAS     *)
(* refuses to move, as long as no switch overrules a settled rejection.    *)
THEOREM NeverConflicts == Spec => []SaveNeverConflicts
<1> DEFINE Inv == overruled \/ Agreement
<1>1. Init => Inv
  BY DEF Init, Agreement, SettledHasEnded, CreatedAt, Zero
<1>2. TypeOK /\ Inv /\ [Next]_vars => Inv'
  <2> SUFFICES ASSUME TypeOK, Agreement, [Next]_vars, ~overruled'
               PROVE  Agreement'
    BY DEF Next, Command, CancelInactiveRun, Review, AcceptVerifiedResult,
           RejectVerifiedResult, PrepareRetry, PrepareProfileSwitch, vars,
           TypeOK
  <2>1. ASSUME NEW c \in OrdinaryCommands, Command(c) PROVE Agreement'
    BY <2>1, SuccessorAgrees DEF Command, OrdinaryCommands
  <2>2. CASE CancelInactiveRun
    BY <2>2, SuccessorAgrees DEF CancelInactiveRun, ReviewCommands
  <2>3. ASSUME NEW kind \in ReviewCommands, Review(kind) PROVE Agreement'
    <3> DEFINE settles == kind = "review_accept"
    <3>1. PICK n \in Targets(run.state, {kind}), at \in Now :
            Save(Reviewed(run, n, at, settles))
      BY <2>3 DEF Review
    <3>2. settles \in BOOLEAN /\ run.state = "awaiting_review"
      BY <2>3 DEF Review
    <3>3. /\ lastSave' = "saved" /\ run'.updatedAt >= CreatedAt
          /\ run'.terminalAt # Zero => settles
          /\ run'.state = IF settles THEN "accepted" ELSE "revision_required"
      BY <3>1, <3>2, ReviewAgrees
    <3> QED
      BY <3>3 DEF Agreement, SettledHasEnded
  <2>4. CASE AcceptVerifiedResult
    <3>1. PICK n \in Targets(run.state, {"review_accept"}), at \in Now :
            Save(Reviewed(run, n, at, TRUE))
      BY <2>4 DEF AcceptVerifiedResult
    <3>2. "review_accept" \in ReviewCommands /\ run.state = "awaiting_review"
      BY <2>4 DEF AcceptVerifiedResult, ReviewCommands
    <3>3. /\ lastSave' = "saved" /\ run'.updatedAt >= CreatedAt
          /\ run'.state = "accepted"
      BY <3>1, <3>2, ReviewAgrees
    <3> QED
      BY <3>3 DEF Agreement, SettledHasEnded
  <2>5. ASSUME NEW class \in RejectionClasses, RejectVerifiedResult(class)
        PROVE  Agreement'
    <3> DEFINE settles == class # "implementation_gap"
    <3>1. PICK n \in Targets(run.state, {"review_reject"}), at \in Now :
            Save(Reviewed(run, n, at, settles))
      BY <2>5 DEF RejectVerifiedResult
    <3>2. /\ "review_reject" \in ReviewCommands /\ settles \in BOOLEAN
          /\ run.state = "awaiting_review"
      BY <2>5 DEF RejectVerifiedResult, ReviewCommands
    <3>3. /\ lastSave' = "saved" /\ run'.updatedAt >= CreatedAt
          /\ run'.terminalAt # Zero => settles
          /\ run'.state = "revision_required"
      BY <3>1, <3>2, ReviewAgrees
    <3>4. rejection' = class
      BY <2>5, <3>3 DEF RejectVerifiedResult
    <3> QED
      BY <3>3, <3>4 DEF Agreement, SettledHasEnded, RetryRefusing
  <2>6. CASE PrepareRetry
    BY <2>6, SuccessorAgrees DEF PrepareRetry, ReviewCommands
  <2>7. CASE PrepareProfileSwitch
    <3>1. rejection \notin RetryRefusing
      BY <2>7 DEF PrepareProfileSwitch
    <3> QED
      BY <2>7, <3>1, SuccessorAgrees DEF PrepareProfileSwitch, ReviewCommands
  <2>8. CASE UNCHANGED vars
    BY <2>8 DEF vars, Agreement, SettledHasEnded
  <2> QED
    BY <2>1, <2>2, <2>3, <2>4, <2>5, <2>6, <2>7, <2>8 DEF Next
<1>3. Inv => SaveNeverConflicts
  BY DEF Agreement, SaveNeverConflicts
<1> QED
  BY <1>1, <1>2, <1>3, TypeCorrect, PTL DEF Spec
-----------------------------------------------------------------------------
(***************************************************************************)
(* Who overrules a rejection, for any profiles.                            *)
(***************************************************************************)

(* A Run about which a decision was recorded has left its draft.           *)
DecidedIsNoDraft == rejection \in RetryRefusing => run.state # "draft"

(* A save moves the Run by a row of the table, or leaves it.               *)
LEMMA SuccessorRow ==
  ASSUME NEW c, Successor(c)
  PROVE  \/ UNCHANGED run
         \/ /\ <<run.state, c, run'.state>> \in RunTransitions
            /\ run'.attempt = IF c \in PrepareCommands THEN run.attempt + 1
                                                       ELSE run.attempt
<1>1. PICK n \in Targets(run.state, {c}), at \in Now :
        Save(Transition(run, c, n, at))
  BY DEF Successor
<1> QED
  BY <1>1, RowOfCommand DEF Save, Transition

LEMMA ReviewRow ==
  ASSUME TypeOK, NEW c, NEW n \in Targets(run.state, {c}), NEW at \in Now,
         NEW settles \in BOOLEAN, Save(Reviewed(run, n, at, settles))
  PROVE  \/ UNCHANGED run
         \/ /\ <<run.state, c, run'.state>> \in RunTransitions
            /\ run'.attempt = run.attempt
<1>1. <<run.state, c, n>> \in RunTransitions /\ n \in RunStates
  BY RowOfCommand, CanFollow
<1>2. at \in Nat
  BY BoundsAssumption DEF Now, TypeOK, RunRecord
<1> QED
  BY <1>1, <1>2, ReviewedFields DEF Save, TypeOK

LEMMA NothingIsDraftedAgain ==
  ASSUME NEW s, NEW c, NEW n, <<s, c, n>> \in RunTransitions
  PROVE  /\ n # "draft"
         /\ c = "prepare_run" => s = "draft"
BY DEF RunTransitions

(* A command that is not a retry leaves the attempt of a decided Run.      *)
LEMMA OrdinaryKeepsAttempt ==
  ASSUME TypeOK, DecidedIsNoDraft, NEW c, c # "prepare_retry", Successor(c),
         UNCHANGED rejection
  PROVE  /\ DecidedIsNoDraft'
         /\ rejection \in RetryRefusing => run'.attempt = run.attempt
<1>1. CASE UNCHANGED run
  BY <1>1 DEF DecidedIsNoDraft
<1>2. CASE /\ <<run.state, c, run'.state>> \in RunTransitions
           /\ run'.attempt = IF c \in PrepareCommands THEN run.attempt + 1
                                                      ELSE run.attempt
  BY <1>2, NothingIsDraftedAgain DEF DecidedIsNoDraft, PrepareCommands
<1> QED
  BY <1>1, <1>2, SuccessorRow

LEMMA ReviewKeepsAttempt ==
  ASSUME TypeOK, DecidedIsNoDraft, NEW c, NEW n \in Targets(run.state, {c}),
         NEW at \in Now, NEW settles \in BOOLEAN,
         run.state = "awaiting_review", Save(Reviewed(run, n, at, settles))
  PROVE  DecidedIsNoDraft' /\ run'.attempt = run.attempt
<1>1. CASE UNCHANGED run
  BY <1>1 DEF DecidedIsNoDraft
<1>2. CASE /\ <<run.state, c, run'.state>> \in RunTransitions
           /\ run'.attempt = run.attempt
  BY <1>2, NothingIsDraftedAgain DEF DecidedIsNoDraft
<1> QED
  BY <1>1, <1>2, ReviewRow

LEMMA OverruleStep ==
  ASSUME TypeOK, DecidedIsNoDraft, [Next]_vars
  PROVE  /\ DecidedIsNoDraft'
         /\ rejection \in RetryRefusing /\ run'.attempt # run.attempt
              => profile' # profile /\ overruled'
<1>1. ASSUME NEW c \in OrdinaryCommands, Command(c)
      PROVE  /\ DecidedIsNoDraft'
             /\ rejection \in RetryRefusing => run'.attempt = run.attempt
  BY <1>1, OrdinaryKeepsAttempt DEF Command, OrdinaryCommands
<1>2. ASSUME CancelInactiveRun
      PROVE  /\ DecidedIsNoDraft'
             /\ rejection \in RetryRefusing => run'.attempt = run.attempt
  BY <1>2, OrdinaryKeepsAttempt DEF CancelInactiveRun
<1>3. ASSUME NEW kind \in ReviewCommands, Review(kind)
      PROVE  DecidedIsNoDraft' /\ run'.attempt = run.attempt
  BY <1>3, ReviewKeepsAttempt DEF Review
<1>4. ASSUME AcceptVerifiedResult
      PROVE  DecidedIsNoDraft' /\ run'.attempt = run.attempt
  BY <1>4, ReviewKeepsAttempt DEF AcceptVerifiedResult
<1>5. ASSUME NEW class \in RejectionClasses, RejectVerifiedResult(class)
      PROVE  DecidedIsNoDraft' /\ run'.attempt = run.attempt
  BY <1>5, ReviewKeepsAttempt DEF RejectVerifiedResult
<1>6. ASSUME PrepareRetry
      PROVE  DecidedIsNoDraft' /\ rejection \notin RetryRefusing
  BY <1>6 DEF PrepareRetry, DecidedIsNoDraft, RetryRefusing, RejectionClasses
<1>7. ASSUME PrepareProfileSwitch
      PROVE  /\ DecidedIsNoDraft' /\ profile' # profile
             /\ rejection \in RetryRefusing => overruled'
  BY <1>7 DEF PrepareProfileSwitch, DecidedIsNoDraft, RetryRefusing,
              RejectionClasses
<1>8. ASSUME UNCHANGED vars
      PROVE  DecidedIsNoDraft' /\ run'.attempt = run.attempt
  BY <1>8 DEF vars, DecidedIsNoDraft
<1> QED
  BY <1>1, <1>2, <1>3, <1>4, <1>5, <1>6, <1>7, <1>8 DEF Next

(* What the finding about the profile switch leaves true: no other command *)
(* of the service, in whatever order commands are issued, gives a Run that *)
(* was sent back for a new plan or contract another attempt.               *)
THEOREM SwitchAloneOverrules == Spec => OnlySwitchOverrules
<1>1. Init => DecidedIsNoDraft
  BY DEF Init, DecidedIsNoDraft, RetryRefusing, RejectionClasses
<1>2. DecidedIsNoDraft /\ TypeOK /\ [Next]_vars => DecidedIsNoDraft'
  BY OverruleStep
<1>3. DecidedIsNoDraft /\ TypeOK /\ [Next]_vars
        => [(rejection \in RetryRefusing /\ run'.attempt # run.attempt)
              => profile' # profile /\ overruled']_vars
  BY OverruleStep
<1> QED
  BY <1>1, <1>2, <1>3, TypeCorrect, PTL DEF Spec, OnlySwitchOverrules
-----------------------------------------------------------------------------
(***************************************************************************)
(* Refinement, for any profiles.                                           *)
(***************************************************************************)

(* The machine's instance of the table is the table.                       *)
LEMMA SameTable ==
  /\ Machine!RunTransitions = RunTransitions
  /\ Machine!PrepareCommands = PrepareCommands
  /\ Machine!CommandKinds = CommandKinds
  /\ \A s, C : Machine!Targets(s, C) = Targets(s, C)
<1>1. Machine!RunTransitions = RunTransitions
  BY DEF RunTransitions, Machine!RunTransitions
<1>2. Machine!PrepareCommands = PrepareCommands
  BY DEF PrepareCommands, Machine!PrepareCommands
<1> QED
  BY <1>1, <1>2, Zenon
  DEF CommandKinds, Targets, Machine!CommandKinds, Machine!Targets

(* A stored successor with a new version is a step of the machine.         *)
LEMMA SavedIsStep ==
  ASSUME NEW c, NEW n \in Targets(run.state, {c}),
         run'.state = n, run'.version = run.version + 1,
         run'.attempt = IF c \in PrepareCommands THEN run.attempt + 1
                                                 ELSE run.attempt
  PROVE  Machine!Next
<1>1. <<run.state, c, n>> \in RunTransitions
  BY RowOfCommand
<1>2. CASE c \in PrepareCommands
  <2>1. n \in Targets(run.state, PrepareCommands)
    BY <1>1, <1>2, RowTargets
  <2> QED
    BY <1>2, <2>1, SameTable DEF Machine!Next, Machine!Prepare
<1>3. CASE c \notin PrepareCommands
  <2>1. n \in Targets(run.state, CommandKinds \ PrepareCommands)
    <3>1. c \in CommandKinds \ PrepareCommands
      BY <1>1, <1>3, CanFollow
    <3> QED
      BY <1>1, <3>1, RowTargets
  <2> QED
    BY <1>3, <2>1, SameTable DEF Machine!Next, Machine!Advance
<1> QED
  BY <1>2, <1>3

LEMMA SuccessorIsStep ==
  ASSUME NEW c, Successor(c)
  PROVE  [Machine!Next]_(Machine!machineVars)
<1>1. PICK n \in Targets(run.state, {c}), at \in Now :
        Save(Transition(run, c, n, at))
  BY DEF Successor
<1>2. CASE run' = Transition(run, c, n, at)
  BY <1>2, SavedIsStep DEF Transition
<1>3. CASE UNCHANGED run
  BY <1>3 DEF Machine!machineVars
<1> QED
  BY <1>1, <1>2, <1>3 DEF Save

LEMMA ReviewIsStep ==
  ASSUME TypeOK, NEW c \in ReviewCommands,
         NEW n \in Targets(run.state, {c}), NEW at \in Now,
         NEW settles \in BOOLEAN, Save(Reviewed(run, n, at, settles))
  PROVE  [Machine!Next]_(Machine!machineVars)
<1>1. CASE run' = Reviewed(run, n, at, settles)
  <2>1. n \in RunStates
    BY RowOfCommand, CanFollow
  <2>2. at \in Nat
    BY BoundsAssumption DEF Now, TypeOK, RunRecord
  <2>3. /\ run'.state = n /\ run'.version = run.version + 1
        /\ run'.attempt = run.attempt
    BY <1>1, <2>1, <2>2, ReviewedFields DEF TypeOK
  <2>4. c \notin PrepareCommands
    BY DEF ReviewCommands, PrepareCommands
  <2> QED
    BY <2>3, <2>4, SavedIsStep
<1>2. CASE UNCHANGED run
  BY <1>2 DEF Machine!machineVars
<1> QED
  BY <1>1, <1>2 DEF Save

(* Whatever commands are issued, by whichever path, and whether or not the *)
(* store accepts their successors, the stored Run follows the domain's     *)
(* machine.                                                                *)
THEOREM RefinesRunMachine == Spec => ImplementsRunMachine
<1>1. Init => Machine!Init
  BY DEF Init, Machine!Init
<1>2. TypeOK /\ [Next]_vars => [Machine!Next]_(Machine!machineVars)
  <2> SUFFICES ASSUME TypeOK, [Next]_vars
               PROVE  [Machine!Next]_(Machine!machineVars)
    OBVIOUS
  <2>1. ASSUME NEW c \in OrdinaryCommands, Command(c)
        PROVE  [Machine!Next]_(Machine!machineVars)
    BY <2>1, SuccessorIsStep DEF Command
  <2>2. CASE CancelInactiveRun
    BY <2>2, SuccessorIsStep DEF CancelInactiveRun
  <2>3. ASSUME NEW kind \in ReviewCommands, Review(kind)
        PROVE  [Machine!Next]_(Machine!machineVars)
    BY <2>3, ReviewIsStep DEF Review
  <2>4. CASE AcceptVerifiedResult
    BY <2>4, ReviewIsStep DEF AcceptVerifiedResult, ReviewCommands
  <2>5. ASSUME NEW class \in RejectionClasses, RejectVerifiedResult(class)
        PROVE  [Machine!Next]_(Machine!machineVars)
    BY <2>5, ReviewIsStep DEF RejectVerifiedResult, ReviewCommands
  <2>6. CASE PrepareRetry
    BY <2>6, SuccessorIsStep DEF PrepareRetry
  <2>7. CASE PrepareProfileSwitch
    BY <2>7, SuccessorIsStep DEF PrepareProfileSwitch
  <2>8. CASE UNCHANGED vars
    BY <2>8 DEF vars, Machine!machineVars
  <2> QED
    BY <2>1, <2>2, <2>3, <2>4, <2>5, <2>6, <2>7, <2>8 DEF Next
<1> QED
  BY <1>1, <1>2, TypeCorrect, PTL DEF Spec, ImplementsRunMachine, Machine!Spec
=============================================================================
