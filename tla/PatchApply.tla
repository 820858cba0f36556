----------------------------- MODULE PatchApply -----------------------------
(***************************************************************************)
(* ApplyAcceptedPatch (internal/app/patch_application.go) with its target  *)
(* (internal/localweb/git_patch_target.go): the one patch application of   *)
(* an accepted Run, which any later command, or the start of the server,   *)
(* takes up where it was lost.  The target compares the affected files     *)
(* only: it applies beside the person's own edits.                         *)
(***************************************************************************)
EXTENDS ResultRecords

VARIABLES
  app,      \* state of the PatchApplication, "none" without a row
  prior,    \* affected files its first inspection saw (PreStateDigest)
  based,    \* HEAD that inspection saw was the frozen one (BaseRevision)
  refused,  \* state of the PatchInspectionFailure, "none" without a row
  pj,       \* the command that applies
  present,  \* history: the patch was in the files since an "applying" row
  writer,   \* history: a write of Chora is in the files
  doubted   \* history: the application was once recovery_required

patchVars == <<app, prior, based, refused, pj, present, writer, doubted>>

Applications == {"none", "applying", "applied", "conflict",
                 "recovery_required"}
Seen == Works \cup {"none"}
NoPatch == [at |-> "idle", verdict |-> "none", work |-> "none",
            frozen |-> TRUE, index |-> "base"]
PatchJob == [at : {"idle", "retry", "refuse", "credit", "check", "patch",
                   "ran", "failed"},
             verdict : {"none", "applicable", "already", "neither"},
             work : Seen, frozen : BOOLEAN, index : Indexes]

PatchTypeOK == /\ app \in Applications /\ prior \in Seen /\ based \in BOOLEAN
               /\ refused \in {"none", "conflict"}
               /\ pj \in PatchJob
               /\ present \in BOOLEAN /\ writer \in BOOLEAN
               /\ doubted \in BOOLEAN

PatchInit == /\ app = "none" /\ prior = "none" /\ based = TRUE
             /\ refused = "none"
             /\ pj = NoPatch
             /\ present = FALSE /\ writer = FALSE /\ doubted = FALSE

Files == co[1].work
-----------------------------------------------------------------------------
(* gitPatchTarget.Inspect of readable files with the recorded prior state. *)
Verdict(p) == CASE p \notin {"none", Files} /\ Files \in Reverse -> "already"
                [] Files \in Forward -> "applicable"
                [] OTHER -> "neither"

(* Every save of the application appends a Run event, which needs an       *)
(* active Room, and requires the entry to be open.                         *)
Save(s) == /\ room = "active" /\ 1 \notin closed
           /\ app' = s
           /\ doubted' = (doubted \/ s = "recovery_required")
           /\ present' = (present \/ (s = "applying" /\ Files \in Reverse))

Commanded == /\ mode = "patch" /\ pj.at = "idle" /\ run = "accepted"
             /\ WithoutClosure
Inspected == [NoPatch EXCEPT !.verdict = Verdict(prior), !.work = Files,
                             !.frozen = co[1].frozen]

(* What follows the "applying" row.                                        *)
Then(job) == [job EXCEPT !.at = CASE job.verdict = "neither" -> "refuse"
                                  [] job.verdict = "already" -> "credit"
                                  [] OTHER -> "check"]

(* The files cannot be inspected: the failure is recorded on its own while *)
(* there is no application, and as a retry that fails when there is one.   *)
PatchUnreadable ==
  /\ Commanded /\ Files = "unsafe"
  /\ \/ /\ app = "none" /\ room = "active"
        /\ refused' = "conflict"
        /\ UNCHANGED <<app, doubted, present, pj>>
     \/ /\ app \in {"conflict", "recovery_required"} /\ Save("applying")
        /\ pj' = [NoPatch EXCEPT !.at = "refuse"]
        /\ UNCHANGED refused
  /\ UNCHANGED <<recordVars, prior, based, writer>>

PatchInserts ==
  /\ Commanded /\ Files # "unsafe" /\ app = "none" /\ Save("applying")
  /\ prior' = Files /\ based' = co[1].frozen
  /\ pj' = Then(Inspected)
  /\ UNCHANGED <<recordVars, refused, writer>>

(* A row that a lost command left applying is first put in recovery.       *)
PatchTakesUp ==
  /\ Commanded /\ Files # "unsafe" /\ app = "applying"
  /\ Save("recovery_required")
  /\ pj' = [Inspected EXCEPT !.at = "retry"]
  /\ UNCHANGED <<recordVars, prior, based, refused, writer>>

(* Retry, unless HEAD moved since the first application.                   *)
PatchRetries ==
  /\ \/ pj.at = "retry" /\ pj' = Then(pj) /\ pj.frozen = based
     \/ /\ Commanded /\ Files # "unsafe" /\ co[1].frozen = based
        /\ app \in {"conflict", "recovery_required"}
        /\ pj' = Then(Inspected)
  /\ Save("applying")
  /\ UNCHANGED <<recordVars, prior, based, refused, writer>>

PatchMovedHead ==
  /\ pj.at = "retry" /\ pj.frozen # based
  /\ pj' = NoPatch
  /\ UNCHANGED <<recordVars, app, prior, based, refused, present, writer,
                 doubted>>

PatchRefuses ==
  /\ pj.at = "refuse" /\ Save("conflict")
  /\ pj' = NoPatch
  /\ UNCHANGED <<recordVars, prior, based, refused, writer>>
-----------------------------------------------------------------------------
(* gitPatchTarget.Apply inspects again, without a prior state.             *)
Same == Files = pj.work /\ Files \in Forward /\ co[1].frozen = pj.frozen

PatchChecks ==
  /\ pj.at = "check"
  /\ \/ /\ Same /\ pj' = [pj EXCEPT !.at = "patch", !.index = co[1].index]
        /\ UNCHANGED <<app, doubted, present>>
     \/ ~Same /\ Save("conflict") /\ pj' = NoPatch
  /\ UNCHANGED <<recordVars, prior, based, refused, writer>>

Writes(w) == /\ co' = [co EXCEPT ![1].work = w]
             /\ writer' = (writer \/ w # Files)
             /\ present' = (present \/ w \in Reverse)

PatchPatches ==
  /\ pj.at = "patch"
  /\ \E w \in GitApply(Files) :
       /\ Writes(w)
       /\ \/ /\ w # Files /\ w = Patched[Files]
             /\ pj' = [pj EXCEPT !.at = "ran"]
          \/ pj' = [pj EXCEPT !.at = "failed"]
  /\ UNCHANGED <<resultVars, budgetVars, app, prior, based, refused, doubted>>

(* A failed git apply left the inspected files alone.                      *)
FailedClean == Files = pj.work

Proven == Files # pj.work /\ Files \in Reverse /\ co[1].index = pj.index

(* The application is saved and the Task closed in one transaction.        *)
PatchApplied ==
  /\ \/ pj.at = "credit"
     \/ pj.at = "ran" /\ Proven
  /\ Save("applied") /\ CloseTask
  /\ pj' = NoPatch
  /\ UNCHANGED <<co, budgetVars, prior, based, refused, writer>>

PatchFails ==
  /\ \/ pj.at = "ran" /\ ~Proven /\ Save("recovery_required")
     \/ /\ pj.at = "failed"
        /\ Save(IF FailedClean THEN "conflict" ELSE "recovery_required")
  /\ pj' = NoPatch
  /\ UNCHANGED <<recordVars, prior, based, refused, writer>>

(* A save fails or the request is cancelled: the row stays as it is.       *)
PatchIsLost ==
  /\ pj.at # "idle" /\ Fault
  /\ pj' = NoPatch
  /\ IF pj.at = "patch" THEN \E w \in GitApply(Files) : Writes(w)
     ELSE UNCHANGED <<co, writer, present>>
  /\ UNCHANGED <<resultVars, edits, app, prior, based, refused, doubted>>

(* The server is lost, git apply with it, and starts again:                *)
(* recoverPatchApplications.                                               *)
PatchRestart ==
  /\ mode = "patch" /\ app = "applying" /\ Fault
  /\ app' = "recovery_required" /\ doubted' = TRUE
  /\ pj' = NoPatch
  /\ IF pj.at = "patch" THEN \E w \in GitApply(Files) : Writes(w)
     ELSE UNCHANGED <<co, writer, present>>
  /\ UNCHANGED <<resultVars, edits, prior, based, refused>>

PatchEdits ==
  /\ mode = "patch" /\ Edit
  /\ \E c \in Checkout :
       /\ Cardinality({f \in DOMAIN c : c[f] # co[1][f]}) = 1
       /\ co' = [co EXCEPT ![1] = c]
       /\ writer' = (writer /\ c.work \notin Forward)
       /\ present' = (present \/ (app # "none" /\ c.work \in Reverse))
  /\ UNCHANGED <<resultVars, faults, app, prior, based, refused, pj, doubted>>

PatchNext == \/ PatchUnreadable \/ PatchInserts \/ PatchTakesUp
             \/ PatchRetries \/ PatchMovedHead \/ PatchRefuses
             \/ PatchChecks \/ PatchPatches \/ PatchApplied \/ PatchFails
             \/ PatchIsLost \/ PatchRestart \/ PatchEdits
=============================================================================
