--------------------------- MODULE ResultDelivery ---------------------------
(***************************************************************************)
(* Delivery of one reviewed Result: its acceptance, the three delivery     *)
(* modes, its closure (internal/app/result_closure.go), the end of the     *)
(* Task, and the archive of the Room, which does not take the Run's lock.  *)
(***************************************************************************)
EXTENDS ResourceApply, PatchApply, TaskDelivery

vars == <<recordVars, applyVars, patchVars, deliveryVars>>
workVars == <<co, applyVars, patchVars, deliveryVars>>

Init == RecordsInit /\ ApplyInit /\ PatchInit /\ DeliveryInit
-----------------------------------------------------------------------------
Idle == aj.at = "idle" /\ pj.at = "idle" /\ dj.at = "idle"

(* AcceptResourceResult verifies the reviewed changes of a Task branch     *)
(* before it records the decision.                                         *)
AcceptResult == /\ Idle /\ Accept
                /\ mode = "branch" => Reviewed
                /\ UNCHANGED <<workVars, budgetVars>>

(* Mutant: only the operation that is being confirmed counts as a write.   *)
UnresolvedConfirmed ==
  \/ dj.at # "idle"
  \/ \E r \in Repos : step[r] \in {"writing", "uncertain"}
  \/ app \in {"applying", "recovery_required"}

(* A write of the Task that is announced and not proven.                   *)
Unresolved == \/ Uncertain # {}
              \/ \E r \in Repos : step[r] \in {"writing", "uncertain"}
              \/ app \in {"applying", "recovery_required"}

(* Entries that keep an achievement when the Result is closed.             *)
Applied == {r \in Repos : step[r] = "applied"}
Retained == CASE mode = "legacy" -> Applied
              [] mode = "patch" -> IF app = "applied" THEN {1} ELSE {}
              [] OTHER -> IF \E o \in Ops : /\ ops[o].state = "succeeded"
                                            /\ ops[o].kind \notin
                                                 {"cleanup", "discard"}
                          THEN {1} ELSE {}

CloseResult ==
  /\ Idle /\ room = "active" /\ closed = {} /\ ~Unresolved
  /\ Entries \ Retained # {}
  /\ closed' = Entries \ Retained
  /\ UNCHANGED <<mode, changed, run, task, room, owner, workVars, budgetVars>>
-----------------------------------------------------------------------------
(* A delivery that leaves nothing of the branch to be kept.                *)
Finished == \E o \in Ops : /\ ops[o].state = "succeeded"
                           /\ \/ ops[o].kind \in {"cleanup", "discard"}
                              \/ ops[o].merged

(* taskHasExternalActivity of a Room that belongs to a project: Results    *)
(* that are neither closed nor delivered.                                  *)
Unfinished ==
  CASE mode = "patch" -> closed = {} /\ app # "applied"
    [] mode = "legacy" -> ~(changed \subseteq closed \cup Applied)
    [] OTHER -> /\ ~Finished
                /\ closed = {} \/ Done("commit") \cup Done("push")
                                  \cup Done("pr") # {}

ArchiveRoom == /\ room = "active" /\ ~Unresolved
               /\ owner = "project" => ~Unfinished
               /\ room' = "archived"
               /\ UNCHANGED <<mode, changed, run, task, owner, closed,
                              workVars, budgetVars>>

RestoreRoom == /\ room = "archived" /\ Edit
               /\ room' = "active"
               /\ UNCHANGED <<mode, changed, run, task, owner, closed,
                              workVars, faults>>

Next == \/ AcceptResult \/ CloseResult \/ ArchiveRoom \/ RestoreRoom
        \/ ApplyNext /\ UNCHANGED <<patchVars, deliveryVars>>
        \/ PatchNext /\ UNCHANGED <<applyVars, deliveryVars>>
        \/ DeliveryNext /\ UNCHANGED <<applyVars, patchVars>>

Spec == Init /\ [][Next]_vars
-----------------------------------------------------------------------------
TypeOK == RecordsTypeOK /\ ApplyTypeOK /\ PatchTypeOK /\ DeliveryTypeOK

(* What Chora wrote into a checkout is announced by a step that says so    *)
(* until it is proven or gone, whatever the person does to the files, the  *)
(* index or HEAD in between (ApplyResourceResult).  The scalar application *)
(* keeps this promise until it is recovery_required: a retry may then      *)
(* record what is left of a partial write as a conflict.                   *)
WritesAreAnnounced ==
  /\ \A r \in wrote : step[r] \in {"writing", "uncertain", "applied"}
  /\ writer => app \in {"applying", "applied", "recovery_required"} \/ doubted

(* A repository is recorded as applied, and the Task closed, only when the *)
(* exact reviewed files were in the checkout after the write was announced *)
(* (resource_apply.go, patch_application.go, CloseTaskForAcceptedRun).     *)
AppliedWasThere ==
  /\ Applied \cap changed \subseteq landed
  /\ app = "applied" => present
  /\ task = "closed" => changed \subseteq Retained

(* No checkout is written while another repository of the Result still     *)
(* refuses: every pending one has passed the preflight of this command.    *)
PreflightCoversAll ==
  aj.at \in {"mark", "check", "patch", "ran", "failed"} =>
    \A r \in Pending \ {aj.r} : step[r] = "preflight"

(* Closing a Result says that nothing of it was delivered (CloseResult):   *)
(* no write of Chora is in a closed checkout, no commit was made but one   *)
(* under which the person moved the branch or which Git could not be asked *)
(* about (see FailedDidNothing), and nothing is at the remote, not even    *)
(* later, whatever was misread.                                            *)
ClosedLeftNothing ==
  /\ closed \cap wrote = {} \/ mode # "legacy"
  /\ closed # {} /\ writer => doubted
  /\ closed # {} /\ mode = "branch" =>
       /\ made \subseteq stirred \cup misread
       /\ remote # "commit" /\ Requests \subseteq {0}

(* A confirmed side effect is never started a second time, and none is     *)
(* started while the outcome of another is open ("Never replay a side      *)
(* effect, including an uncertain one").                                   *)
NeverReplayed == /\ Cardinality(Uncertain) <= 1
                 /\ \A o \in Ops : sent[o] <= 1

(* What "failed" says of an operation, and of what it does not say it.  A  *)
(* pull request, a merge or a removal was not even started, so that none   *)
(* can happen later.  A commit was not written, with two exceptions: the   *)
(* person moved the branch during it, or Git could not be asked, which     *)
(* validateBinding takes for a changed branch (ConfirmTaskDelivery and     *)
(* RefreshTaskDelivery record ErrConflict as failed).  Of a push it says   *)
(* nothing: the branch may be at the remote, or get there later.           *)
FailedDidNothing ==
  \A o \in Ops : ops[o].state = "failed" =>
    /\ ops[o].kind \notin {"commit", "push"} => sent[o] = 0
    /\ (ops[o].kind = "commit" /\ o \in made) => o \in stirred \cup misread

(* Chora opens one pull request of a Task branch, however calls fail and   *)
(* answers are lost.                                                       *)
OnePullRequest == Cardinality(Requests \ {0}) <= 1

(* The worktree of a Result that is not closed goes only after its branch  *)
(* was merged, with the branch kept and nothing in it that was not         *)
(* reviewed (PreviewCleanup, ReconcileCleanup).                            *)
CleanupKeepsWork ==
  tree = "gone" /\ closed = {} => /\ MergedOnHost /\ ref # "base" /\ ~lost

(* An archived Room has no write under way, and what Chora wrote for it is *)
(* delivered and recorded: the archive takes no lock of the Run.           *)
ArchivedIsSettled ==
  room = "archived" =>
    /\ dj.at = "idle" /\ pj.at = "idle"
    /\ aj.at \notin {"check", "patch", "ran", "failed"}
    /\ Uncertain = {}
    /\ wrote \subseteq Applied
    /\ writer => app = "applied" \/ doubted

(* The delivery operations as a ledger of side effects.                    *)
RecordOf(o) == IF ops[o].state \in Unsure THEN "open" ELSE ops[o].state
Records == [o \in Ops |-> RecordOf(o)]
InHand == IF dj.at \in {"check", "lock", "mutate"} THEN {dj.op} ELSE {}
Blind == {o \in Ops : ops[o].kind \in Kinds \ {"commit", "push"}}

Ledger == INSTANCE OnceLedger
  WITH Operations <- Ops, record <- Records, hand <- InHand, begun <- sent,
       blind <- Blind

(* Whatever fails, is lost or is refreshed, a side effect is begun once,   *)
(* by the confirmation that was given for it and while no other outcome is *)
(* open, and an outcome that was recorded never changes ("Never replay a   *)
(* side effect, including an uncertain one", ConfirmTaskDelivery).         *)
ImplementsOnceLedger == Ledger!Spec
=============================================================================
