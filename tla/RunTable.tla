------------------------------ MODULE RunTable ------------------------------
(***************************************************************************)
(* The two transition tables of internal/domain/run_transition.go: of an   *)
(* AgentRun by command, and of an Attempt.  Constant level; every module   *)
(* about Runs extends it.                                                  *)
(***************************************************************************)

RunStates ==
  {"draft", "ready", "running", "stopping", "awaiting_verification",
   "verifying", "awaiting_review", "revision_required", "recovery_required",
   "verification_recovery_required", "accepted", "completed", "cancelled"}

PrepareCommands == {"prepare_run", "prepare_retry"}

ReviewCommands == {"review_accept", "review_reject"}

(* runTransitions: <<state, command, next state>>.                         *)
RunTransitions ==
  {<<"running", "complete_no_change", "completed">>,
   <<"draft", "prepare_run", "ready">>,
   <<"ready", "start_attempt", "running">>,
   <<"running", "attempt_started", "running">>,
   <<"running", "submit_agent_report", "awaiting_verification">>,
   <<"running", "submit_agent_report_direct_review", "awaiting_review">>,
   <<"stopping", "recovery_detected", "recovery_required">>,
   <<"stopping", "stop_uncertain", "recovery_required">>,
   <<"stopping", "stop_confirmed_for_revision", "revision_required">>,
   <<"stopping", "stop_confirmed_for_cancel", "cancelled">>,
   <<"awaiting_verification", "start_verification", "verifying">>,
   <<"verifying", "verification_passed", "awaiting_review">>,
   <<"verifying", "verification_needs_revision", "revision_required">>,
   <<"verifying", "verification_recovery_required",
     "verification_recovery_required">>,
   <<"verifying", "verification_cancel_confirmed", "awaiting_verification">>,
   <<"awaiting_review", "review_accept", "accepted">>,
   <<"awaiting_review", "review_reject", "revision_required">>}
  \cup {<<"running", c, "recovery_required">> :
          c \in {"start_failed", "start_reconciliation_required",
                 "recovery_detected", "attempt_failed"}}
  \cup {<<"running", c, "stopping">> :
          c \in {"request_intervention", "request_handoff", "request_cancel"}}
  \cup {<<s, "retry_verification", "verifying">> :
          s \in {"awaiting_verification", "verification_recovery_required"}}
  \cup {<<s, "prepare_retry", "ready">> :
          s \in {"revision_required", "recovery_required", "cancelled"}}
  \cup {<<s, "cancel_inactive_run", "cancelled">> :
          s \in {"draft", "ready", "awaiting_review", "revision_required",
                 "recovery_required", "awaiting_verification",
                 "verification_recovery_required"}}

CommandKinds == {t[2] : t \in RunTransitions}

(* TransitionRun: the states a command of the set C leads to from state s. *)
(* A single command leads to at most one; none is ErrInvalidRunTransition. *)
Targets(s, C) == {t[3] : t \in {u \in RunTransitions : u[1] = s /\ u[2] \in C}}

CanTransitionRunState(from, to) == to \in Targets(from, CommandKinds)

AttemptStates ==
  {"created", "starting", "running", "output_submitted", "failed",
   "interrupted", "cancelled"}

(* attemptTransitions: <<state, next state>>; ValidateAttemptSuccessor     *)
(* compares states only, so the events are left out.                       *)
AttemptTransitions ==
  {<<"created", "starting">>, <<"created", "cancelled">>,
   <<"starting", "running">>, <<"running", "output_submitted">>}
  \cup {<<s, n>> : s \in {"starting", "running"},
                   n \in {"failed", "interrupted", "cancelled"}}
=============================================================================
