----------------------- MODULE ResultDeliveryProofs -----------------------
(***************************************************************************)
(* Safety of ResultDelivery for any number of repositories, operations,    *)
(* edits of the person and failing calls.  A Task delivers in one mode, so *)
(* the invariant has a part for each mode, and a step of one mode leaves   *)
(* the parts of the others alone.                                          *)
(***************************************************************************)
EXTENDS ResultDelivery, WellFoundedInduction, FiniteSetTheorems, TLAPS

(* What a checkout holds and what its step says of it.                     *)
CheckoutKnown ==
  \A r \in Repos :
    /\ r \in wrote => /\ step[r] \in {"writing", "uncertain", "applied"}
                      /\ co[r].work \notin Forward
    /\ (step[r] \in {"writing", "uncertain"} /\ co[r].work = "post") =>
         r \in landed
    /\ (step[r] = "applied" /\ r \in changed) => r \in landed

(* What the command relies on at each of its phases.                       *)
ApplyKnows ==
  /\ aj.at # "idle" => mode = "legacy" /\ closed = {}
  /\ aj.at = "preflight" =>
       /\ aj.r \in Repos
       /\ \A q \in Repos : q < aj.r =>
            /\ step[q] # "applied" => q \in changed
            /\ aj.blocked \/ step[q] \in {"applied", "preflight"}
  /\ aj.at \in {"mark", "check", "patch", "ran", "failed"} =>
       \A q \in Pending : q \in changed /\ (q # aj.r => step[q] = "preflight")
  /\ aj.at = "mark" => \A q \in Pending : step[q] = "preflight"
  /\ aj.at \in {"check", "patch", "ran", "failed"} =>
       aj.r \in Repos /\ step[aj.r] = "writing"
  /\ aj.at \in {"check", "patch"} => aj.r \notin wrote

LegacyKnown ==
  /\ mode # "legacy" => wrote = {} /\ step = [r \in Repos |-> "planned"]
  /\ mode = "legacy" =>
       /\ closed \cap wrote = {}
       /\ task = "closed" => changed \subseteq Applied
       /\ room = "archived" =>
            /\ changed \subseteq closed \cup Applied
            /\ \A r \in Repos : step[r] \notin {"writing", "uncertain"}

(* The one application, its row and the files.                             *)
PatchKnows ==
  /\ pj.at # "idle" => mode = "patch" /\ closed = {}
  /\ pj.at = "retry" => app = "recovery_required"
  /\ pj.at \notin {"idle", "retry"} => app = "applying"
  /\ (pj.at \in {"retry", "credit"} /\ pj.verdict = "already") => present
  /\ pj.at = "credit" => pj.verdict = "already"
  /\ (pj.at \in {"refuse", "check", "patch"} /\ writer) => doubted
  /\ pj.at \in {"patch", "ran", "failed"} => pj.work \in Forward

PatchKnown ==
  /\ mode # "patch" => app = "none"
  /\ app = "none" => ~writer /\ ~doubted
  /\ (app = "conflict" /\ writer) => doubted
  /\ app = "recovery_required" => doubted
  /\ writer => Files \notin Forward
  /\ (app # "none" /\ Files \in Reverse) => present
  /\ app = "applied" => present
  /\ mode = "patch" =>
       /\ closed # {} => app \in {"none", "conflict"}
       /\ task = "closed" => app = "applied"
       /\ room = "archived" => app \notin {"applying", "recovery_required"}

(* The operations of a Task branch and the confirmation under way.         *)
Started == {"succeeded"} \cup Unsure

OperationsKnown ==
  /\ \A o \in Ops : \/ ops[o] = NoOp
                    \/ ops[o].kind \in Kinds /\ ops[o].state \in States
  /\ \A o, p \in Uncertain : o = p
  /\ \A o \in Ops : sent[o] <= 1
  /\ \A o \in Ops : ops[o].state \in {"none", "preview"} => sent[o] = 0
  /\ \A o \in Ops : ops[o].state = "failed" =>
       CASE ops[o].kind = "commit" -> o \notin made \ (stirred \cup misread)
         [] ops[o].kind = "push" -> TRUE
         [] OTHER -> sent[o] = 0
  /\ \A o, p \in Ops : (/\ ops[o].kind = "pr" /\ ops[p].kind = "pr"
                        /\ ops[o].state \in Started
                        /\ ops[p].state \in Started) => o = p
  /\ \A o \in Ops :
       /\ ops[o].kind = "push" => Done("commit") # {}
       /\ ops[o].kind \in {"pr", "merge"} => Done("push") # {}
       /\ ops[o].kind \in {"merge", "cleanup"} => Done("pr") # {}

ConfirmKnows ==
  dj.at # "idle" =>
    /\ dj.op \in Ops /\ ops[dj.op].state = "writing" /\ Kind \in Kinds
    /\ Kind = "discard" => closed # {}
    /\ Kind # "discard" => closed = {}
    /\ dj.at \in {"check", "lock", "mutate"} => sent[dj.op] = 0
    /\ dj.at = "lock" => Kind = "commit"
    /\ (Kind = "commit" /\ dj.at # "check" /\ dj.op \notin stirred) => OnBranch
    /\ Kind = "cleanup" => MergedOnHost
    /\ (Kind = "cleanup" /\ dj.at = "mutate") => ref # "base"

(* Where the effects of the operations are found.                          *)
MadeKnown ==
  /\ \A o \in made : ops[o].kind = "commit" /\ sent[o] > 0
  /\ \A o \in made \ stirred : o \in Uncertain => OnBranch /\ ref # "base"

RemoteKnown ==
  /\ \A o \in late : /\ ops[o].kind \in Remotely /\ sent[o] > 0
                     /\ prs[o] = "none"
  /\ \A o \in Ops : prs[o] # "none" => ops[o].kind = "pr" /\ sent[o] > 0
  /\ remote = "commit" => \E o \in Ops : ops[o].kind = "push"

EffectsKnown == MadeKnown /\ RemoteKnown

BranchKnown ==
  /\ mode # "branch" => \A o \in Ops : ops[o] = NoOp
  /\ mode = "branch" => task = "open"
  /\ lost => closed # {}
  /\ \A o \in Ops : ops[o].kind = "discard" => closed # {}
  /\ CleanupKeepsWork
  /\ mode = "branch" /\ closed # {} =>
       \A o \in Ops : /\ ops[o].state \in Unsure => ops[o].kind = "discard"
                      /\ ops[o].state = "succeeded" =>
                           ops[o].kind \in {"cleanup", "discard"}
  /\ room = "archived" => Uncertain = {}

LegacyInvariant == CheckoutKnown /\ ApplyKnows /\ LegacyKnown
PatchInvariant == PatchKnows /\ PatchKnown
BranchInvariant ==
  OperationsKnown /\ ConfirmKnows /\ EffectsKnown /\ BranchKnown

(* Only the scalar mode has Rooms outside a project.                       *)
OwnerKnown == mode # "patch" => owner = "project"

DeliveryInvariant ==
  TypeOK /\ OwnerKnown /\ LegacyInvariant /\ PatchInvariant /\ BranchInvariant
-----------------------------------------------------------------------------
(* The next repository of the apply loop is a pending one.                 *)
LEMMA NextIsPending ==
  ASSUME Pending # {}
  PROVE  NextRepo \in Pending /\ NextRepo \in Repos
<1>1. Pending \subseteq Nat /\ Pending \subseteq Repos
  BY RepoAssumption DEF Pending, Repos
<1>2. PICK r \in Pending : \A q \in Pending : <<q, r>> \notin OpToRel(<, Nat)
  BY <1>1, WFMin, NatLessThanWellFounded
<1>3. \A q \in Pending : r <= q
  <2> SUFFICES ASSUME NEW q \in Pending, q < r PROVE FALSE
    BY <1>1
  <2>1. <<q, r>> \in Nat \X Nat /\ <<q, r>>[1] = q /\ <<q, r>>[2] = r
    BY <1>1
  <2>2. <<q, r>> \in OpToRel(<, Nat)
    BY <2>1, Zenon DEF OpToRel
  <2> QED
    BY <1>2, <2>2
<1> QED
  BY <1>1, <1>3 DEF NextRepo

-----------------------------------------------------------------------------
(***************************************************************************)
(* Domains.                                                                *)
(***************************************************************************)
(* git apply leaves readable files.                                        *)
LEMMA GitApplyType ==
  ASSUME NEW w \in Works, NEW v \in GitApply(w)
  PROVE  v \in Works /\ (v # w => w \in Forward /\ v \notin Forward)
BY DEF GitApply, Works, Forward, Patched

(* A checkout whose files change is a checkout.                            *)
LEMMA CheckoutType ==
  ASSUME co \in [1..RepoCount -> Checkout], NEW r \in 1..RepoCount,
         NEW w \in Works
  PROVE  [co EXCEPT ![r].work = w] \in [1..RepoCount -> Checkout]
BY DEF Checkout

(* The job of the apply command.                                           *)
LEMMA NoApplyType == NoApply \in ApplyJob
<1>1. 0 \in 0..RepoCount /\ [r \in Repos |-> "none"] \in [Repos -> Pre]
  BY RepoAssumption DEF Pre
<1> QED
  BY <1>1 DEF NoApply, ApplyJob

(* The job after one turn of the preflight loop.                           *)
LEMMA PreflightedType ==
  ASSUME NEW job \in ApplyJob, job.r \in Repos
  PROVE  Preflighted(job) \in ApplyJob
<1>1. ASSUME job.r < RepoCount
      PROVE  [job EXCEPT !.r = @ + 1] \in ApplyJob
  <2>1. job.r + 1 \in 0..RepoCount
    BY <1>1, RepoAssumption DEF Repos
  <2> QED
    BY <2>1 DEF ApplyJob
<1>2. NoApply \in ApplyJob
  BY NoApplyType
<1>3. [job EXCEPT !.at = "mark", !.r = 0] \in ApplyJob
  <2>1. 0 \in 0..RepoCount
    BY RepoAssumption
  <2> QED
    BY <2>1 DEF ApplyJob
<1> QED
  BY <1>1, <1>2, <1>3 DEF Preflighted

(* The apply command keeps its job, its steps and the checkouts typed.     *)
LEMMA ApplyTypes ==
  ASSUME RecordsTypeOK, ApplyTypeOK, ApplyKnows, ApplyNext
  PROVE  RecordsTypeOK' /\ ApplyTypeOK'
<1>1. /\ step \in [Repos -> Steps] /\ pre \in [Repos -> Pre]
      /\ aj \in ApplyJob /\ co \in [Repos -> Checkout]
      /\ landed \subseteq Repos /\ wrote \subseteq Repos /\ planned \in BOOLEAN
  BY DEF ApplyTypeOK, RecordsTypeOK, Repos
<1>2. NoApply \in ApplyJob
  BY NoApplyType
<1>4. ASSUME NEW r \in Repos, NEW s \in Steps, Append(r, s)
      PROVE  step' \in [Repos -> Steps]
  BY <1>1, <1>4 DEF Append
<1>5. CASE ApplyBegins
  <2>1. [NoApply EXCEPT !.at = "preflight", !.r = 1] \in ApplyJob
    <3>1. 1 \in 0..RepoCount
      BY RepoAssumption
    <3> QED
      BY <1>2, <3>1 DEF ApplyJob
  <2> QED
    BY <1>1, <1>5, <2>1 DEF ApplyBegins, recordVars, resultVars, budgetVars,
       RecordsTypeOK, ApplyTypeOK, Entries
<1>6. CASE PreflightSkips \/ PreflightNoChange \/ PreflightReconciles
  <2>1. aj.r \in Repos
    BY <1>6 DEF PreflightSkips, PreflightNoChange, PreflightReconciles,
       Inspecting, ApplyKnows
  <2>2. aj' \in ApplyJob
    BY <1>1, <1>6, <2>1, PreflightedType
    DEF PreflightSkips, PreflightNoChange, PreflightReconciles
  <2>3. step' \in [Repos -> Steps]
    BY <1>1, <1>6, <2>1 DEF PreflightSkips, PreflightNoChange,
       PreflightReconciles, Append, Steps
  <2>4. UNCHANGED <<recordVars, planned, pre, landed, wrote>>
    BY <1>6 DEF PreflightSkips, PreflightNoChange, PreflightReconciles
  <2> QED
    BY <1>1, <2>2, <2>3, <2>4 DEF recordVars, resultVars, budgetVars,
       RecordsTypeOK, ApplyTypeOK, Entries
<1>7. CASE PreflightRefuses
  <2>1. aj.r \in Repos
    BY <1>7 DEF PreflightRefuses, Inspecting, ApplyKnows
  <2>2. [aj EXCEPT !.blocked = TRUE] \in ApplyJob
        /\ [aj EXCEPT !.blocked = TRUE].r = aj.r
    BY <1>1 DEF ApplyJob
  <2>3. aj' \in ApplyJob
    BY <1>7, <2>1, <2>2, PreflightedType DEF PreflightRefuses
  <2>4. step' \in [Repos -> Steps]
    BY <1>4, <1>7, <2>1 DEF PreflightRefuses, Refused, Steps
  <2> QED
    BY <1>1, <1>7, <2>3, <2>4 DEF PreflightRefuses, recordVars, resultVars,
       budgetVars, RecordsTypeOK, ApplyTypeOK, Entries
<1>8. CASE PreflightPasses
  <2>1. aj.r \in Repos
    BY <1>8 DEF PreflightPasses, Inspecting, ApplyKnows
  <2>2. co[aj.r].index \in Pre /\ Prior(aj.r) \in Pre
    BY <1>1, <2>1 DEF Checkout, Pre, Prior
  <2> DEFINE job == [aj EXCEPT !.seen[aj.r] = co[aj.r].index,
                               !.prior[aj.r] = Prior(aj.r)]
  <2>3. job \in ApplyJob /\ job.r = aj.r
    BY <1>1, <2>1, <2>2 DEF ApplyJob
  <2>4. aj' \in ApplyJob
    BY <1>8, <2>1, <2>3, PreflightedType DEF PreflightPasses
  <2>5. step' \in [Repos -> Steps] /\ pre' \in [Repos -> Pre]
    BY <1>1, <1>8, <2>1, <2>2 DEF PreflightPasses, Append, Steps
  <2> QED
    BY <1>1, <1>8, <2>4, <2>5 DEF PreflightPasses, recordVars, resultVars,
       budgetVars, RecordsTypeOK, ApplyTypeOK, Entries
<1>9. CASE ApplyMarks
  <2>1. NextRepo \in Repos /\ NextRepo \in 0..RepoCount
    BY <1>9, NextIsPending, RepoAssumption DEF ApplyMarks, Repos
  <2>2. aj.seen[NextRepo] \in Pre
    BY <1>1, <2>1 DEF ApplyJob
  <2>3. [aj EXCEPT !.at = "check", !.r = NextRepo] \in ApplyJob
    BY <1>1, <2>1 DEF ApplyJob
  <2>4. step' \in [Repos -> Steps] /\ pre' \in [Repos -> Pre]
    BY <1>1, <1>9, <2>1, <2>2 DEF ApplyMarks, Append, Steps
  <2>5. landed' \subseteq Repos
    BY <1>1, <1>9, <2>1 DEF ApplyMarks
  <2> QED
    BY <1>1, <1>9, <2>3, <2>4, <2>5 DEF ApplyMarks, recordVars, resultVars,
       budgetVars, RecordsTypeOK, ApplyTypeOK, Entries
<1>10. CASE ApplyChecks
  <2>1. [aj EXCEPT !.at = "patch"] \in ApplyJob
    BY <1>1 DEF ApplyJob
  <2> QED
    BY <1>1, <1>10, <2>1 DEF ApplyChecks, recordVars, resultVars,
       budgetVars, RecordsTypeOK, ApplyTypeOK, Entries
<1>11. CASE ApplyFindsChange
  <2>1. step' \in [Repos -> Steps]
    BY <1>4, <1>11 DEF ApplyFindsChange, ApplyKnows, Steps
  <2> QED
    BY <1>1, <1>2, <1>11, <2>1 DEF ApplyFindsChange, recordVars, resultVars,
       budgetVars, RecordsTypeOK, ApplyTypeOK, Entries
<1>12. ASSUME aj.r \in Repos, NEW w \in GitApply(co[aj.r].work),
              Leaves(aj.r, w)
       PROVE  /\ co' \in [1..RepoCount -> Checkout]
              /\ landed' \subseteq Repos /\ wrote' \subseteq Repos
  <2>1. co[aj.r].work \in Works
    BY <1>1, <1>12 DEF Checkout
  <2>2. w \in Works
    BY <1>12, <2>1, GitApplyType
  <2> QED
    BY <1>1, <1>12, <2>2, CheckoutType DEF Leaves, Repos
<1>13. CASE ApplyPatches
  <2>1. aj' \in ApplyJob
    BY <1>1, <1>13 DEF ApplyPatches, ApplyJob
  <2>2. /\ co' \in [1..RepoCount -> Checkout]
        /\ landed' \subseteq Repos /\ wrote' \subseteq Repos
    BY <1>12, <1>13 DEF ApplyPatches, ApplyKnows
  <2> QED
    BY <1>1, <1>13, <2>1, <2>2 DEF ApplyPatches, resultVars, budgetVars,
       RecordsTypeOK, ApplyTypeOK, Entries
<1>14. CASE ApplySettles
  <2>1. step' \in [Repos -> Steps]
    BY <1>4, <1>14 DEF ApplySettles, ApplyKnows, Outcome, Steps
  <2>2. aj' \in ApplyJob
    BY <1>1, <1>2, <1>14 DEF ApplySettles, ApplyJob
  <2> QED
    BY <1>1, <1>14, <2>1, <2>2 DEF ApplySettles, recordVars, resultVars,
       budgetVars, RecordsTypeOK, ApplyTypeOK, Entries
<1>15. CASE ApplyCloses
  BY <1>1, <1>2, <1>15 DEF ApplyCloses, CloseTask, resultVars, budgetVars,
     RecordsTypeOK, ApplyTypeOK, Entries
<1>16. CASE ApplyIsLost
  <2>1. /\ co' \in [1..RepoCount -> Checkout]
        /\ landed' \subseteq Repos /\ wrote' \subseteq Repos
    <3>1. CASE aj.at = "patch"
      BY <1>12, <1>16, <3>1 DEF ApplyIsLost, ApplyKnows
    <3>2. CASE aj.at # "patch"
      BY <1>1, <1>16, <3>2 DEF ApplyIsLost, Repos
    <3> QED
      BY <3>1, <3>2
  <2>2. faults' \in 0..MaxFaults
    BY <1>16, FaultAssumption DEF ApplyIsLost, Fault, RecordsTypeOK
  <2> QED
    BY <1>1, <1>2, <1>16, <2>1, <2>2 DEF ApplyIsLost, resultVars,
       RecordsTypeOK, ApplyTypeOK, Entries
<1>17. ASSUME NEW r \in Repos, NEW c \in Checkout, LegacyEdit(r, c)
       PROVE  RecordsTypeOK' /\ ApplyTypeOK'
  <2>1. edits' \in 0..MaxEdits
    BY <1>17, FaultAssumption DEF LegacyEdit, Edit, RecordsTypeOK
  <2>2. co' \in [1..RepoCount -> Checkout]
    BY <1>1, <1>17 DEF LegacyEdit, Repos
  <2>3. landed' \subseteq Repos /\ wrote' \subseteq Repos
    BY <1>1, <1>17 DEF LegacyEdit
  <2> QED
    BY <1>1, <1>17, <2>1, <2>2, <2>3 DEF LegacyEdit, resultVars,
       RecordsTypeOK, ApplyTypeOK, Entries
<1>18. LegacyEdits => RecordsTypeOK' /\ ApplyTypeOK'
  BY <1>17 DEF LegacyEdits
<1> QED
  BY <1>5, <1>6, <1>7, <1>8, <1>9, <1>10, <1>11, <1>13, <1>14, <1>15, <1>16,
     <1>18 DEF ApplyNext

(* The job of the patch command.                                           *)
LEMMA PatchTypes ==
  ASSUME RecordsTypeOK, PatchTypeOK, PatchNext
  PROVE  RecordsTypeOK' /\ PatchTypeOK'
<1>1. /\ co \in [1..RepoCount -> Checkout] /\ 1 \in 1..RepoCount
      /\ co[1] \in Checkout /\ Files \in Works
      /\ edits \in 0..MaxEdits /\ faults \in 0..MaxFaults
      /\ co[1].frozen \in BOOLEAN /\ co[1].index \in Indexes
  BY RepoAssumption DEF RecordsTypeOK, Checkout, Files
<1>2. /\ app \in Applications /\ prior \in Seen /\ based \in BOOLEAN
      /\ refused \in {"none", "conflict"} /\ pj \in PatchJob
      /\ present \in BOOLEAN /\ writer \in BOOLEAN /\ doubted \in BOOLEAN
  BY DEF PatchTypeOK
<1>3. NoPatch \in PatchJob /\ [NoPatch EXCEPT !.at = "refuse"] \in PatchJob
  BY DEF NoPatch, PatchJob, Seen, Indexes
<1>4. Verdict(prior) \in {"none", "applicable", "already", "neither"}
  BY DEF Verdict
<1>5. Inspected \in PatchJob
  BY <1>1, <1>4 DEF Inspected, NoPatch, PatchJob, Seen, Indexes
<1>6. [Inspected EXCEPT !.at = "retry"] \in PatchJob
  BY <1>5 DEF PatchJob
<1>7. ASSUME NEW job \in PatchJob
      PROVE  Then(job) \in PatchJob
  BY DEF Then, PatchJob
<1>8. ASSUME NEW s \in Applications, Save(s)
      PROVE  app' \in Applications /\ doubted' \in BOOLEAN
             /\ present' \in BOOLEAN
  BY <1>2, <1>8 DEF Save
<1>9. ASSUME NEW w \in GitApply(Files), Writes(w)
      PROVE  /\ co' \in [1..RepoCount -> Checkout]
             /\ writer' \in BOOLEAN /\ present' \in BOOLEAN
  <2>1. w \in Works
    BY <1>1, <1>9, GitApplyType
  <2> QED
    BY <1>1, <1>2, <1>9, <2>1, CheckoutType DEF Writes
<1>10. ASSUME UNCHANGED recordVars
       PROVE  RecordsTypeOK'
  BY <1>10 DEF recordVars, resultVars, budgetVars, RecordsTypeOK, Entries
<1>11. ASSUME UNCHANGED resultVars, co' \in [1..RepoCount -> Checkout],
              edits' \in 0..MaxEdits, faults' \in 0..MaxFaults
       PROVE  RecordsTypeOK'
  BY <1>11 DEF resultVars, RecordsTypeOK, Entries
<1>12. Fault => faults' \in 0..MaxFaults
  BY <1>1, FaultAssumption DEF Fault
<1>13. CASE PatchUnreadable
  BY <1>2, <1>3, <1>8, <1>10, <1>13 DEF PatchUnreadable, Applications,
     PatchTypeOK
<1>14. CASE PatchInserts
  BY <1>1, <1>2, <1>5, <1>7, <1>8, <1>10, <1>14 DEF PatchInserts,
     Applications, PatchTypeOK, Seen
<1>15. CASE PatchTakesUp
  BY <1>2, <1>6, <1>8, <1>10, <1>15 DEF PatchTakesUp, Applications,
     PatchTypeOK
<1>16. CASE PatchRetries
  BY <1>2, <1>5, <1>7, <1>8, <1>10, <1>16 DEF PatchRetries, Applications,
     PatchTypeOK
<1>17. CASE PatchMovedHead
  BY <1>2, <1>3, <1>10, <1>17 DEF PatchMovedHead, PatchTypeOK
<1>18. CASE PatchRefuses \/ PatchFails
  BY <1>2, <1>3, <1>8, <1>10, <1>18 DEF PatchRefuses, PatchFails,
     Applications, PatchTypeOK
<1>19. CASE PatchChecks
  <2>1. [pj EXCEPT !.at = "patch", !.index = co[1].index] \in PatchJob
    BY <1>1, <1>2 DEF PatchJob
  <2> QED
    BY <1>2, <1>3, <1>8, <1>10, <1>19, <2>1 DEF PatchChecks, Applications,
       PatchTypeOK
<1>20. CASE PatchPatches
  <2>1. pj' \in PatchJob
    BY <1>2, <1>20 DEF PatchPatches, PatchJob
  <2>2. UNCHANGED <<resultVars, budgetVars, app, prior, based, refused, doubted>>
    BY <1>20 DEF PatchPatches
  <2>3. /\ co' \in [1..RepoCount -> Checkout]
        /\ writer' \in BOOLEAN /\ present' \in BOOLEAN
    BY <1>9, <1>20 DEF PatchPatches
  <2>4. RecordsTypeOK'
    BY <1>1, <1>11, <2>2, <2>3 DEF budgetVars
  <2> QED
    BY <1>2, <2>1, <2>2, <2>3, <2>4 DEF PatchTypeOK
<1>21. CASE PatchApplied
  <2>1. RecordsTypeOK'
    BY <1>21 DEF PatchApplied, CloseTask, RecordsTypeOK, budgetVars, Entries
  <2> QED
    BY <1>2, <1>3, <1>8, <1>21, <2>1 DEF PatchApplied, Applications,
       PatchTypeOK
<1>22. CASE PatchIsLost \/ PatchRestart
  <2>1. /\ pj' = NoPatch /\ app' \in Applications /\ doubted' \in BOOLEAN
        /\ UNCHANGED <<resultVars, edits, prior, based, refused>>
        /\ faults' \in 0..MaxFaults
    BY <1>2, <1>12, <1>22 DEF PatchIsLost, PatchRestart, Applications
  <2>2. /\ co' \in [1..RepoCount -> Checkout]
        /\ writer' \in BOOLEAN /\ present' \in BOOLEAN
    <3>1. CASE pj.at = "patch"
      BY <1>9, <1>22, <3>1 DEF PatchIsLost, PatchRestart
    <3>2. CASE pj.at # "patch"
      BY <1>1, <1>2, <1>22, <3>2 DEF PatchIsLost, PatchRestart
    <3> QED
      BY <3>1, <3>2
  <2>3. RecordsTypeOK'
    BY <1>1, <1>11, <2>1, <2>2
  <2> QED
    BY <1>2, <1>3, <2>1, <2>2, <2>3 DEF PatchTypeOK
<1>23. CASE PatchEdits
  <2>1. /\ edits' \in 0..MaxEdits
        /\ UNCHANGED <<resultVars, faults, app, prior, based, refused, pj,
                       doubted>>
    BY <1>1, <1>23, FaultAssumption DEF PatchEdits, Edit
  <2>2. /\ co' \in [1..RepoCount -> Checkout]
        /\ writer' \in BOOLEAN /\ present' \in BOOLEAN
    BY <1>1, <1>2, <1>23 DEF PatchEdits
  <2>3. RecordsTypeOK'
    BY <1>1, <1>11, <2>1, <2>2
  <2> QED
    BY <1>2, <2>1, <2>2, <2>3 DEF PatchTypeOK
<1> QED
  BY <1>13, <1>14, <1>15, <1>16, <1>17, <1>18, <1>19, <1>20, <1>21, <1>22,
     <1>23 DEF PatchNext

(* What a call to the remote may do there.                                 *)
LEMMA EffectCases ==
  ASSUME NEW o \in Ops, Effect(o)
  PROVE  \/ /\ ops[o].kind = "push" /\ remote' = "commit" /\ prs' = prs
         \/ /\ ops[o].kind = "pr" /\ remote' = remote
            /\ prs' = [prs EXCEPT ![o] = "open"]
         \/ /\ ops[o].kind = "merge" /\ remote' = remote
            /\ prs[Creator] = "open" /\ prs' = [prs EXCEPT ![Creator] = "merged"]
         \/ UNCHANGED <<remote, prs>>
<1> USE DEF Effect
<1>1. CASE ops[o].kind = "push" /\ remote = "none"
  BY <1>1
<1>2. CASE /\ ops[o].kind = "pr" /\ remote # "none"
           /\ \A q \in 0..MaxOps : prs[q] # "open"
  BY <1>2
<1>3. CASE /\ ops[o].kind = "merge" /\ remote = "commit"
           /\ prs[Creator] = "open"
  BY <1>3
<1>4. CASE /\ ~(ops[o].kind = "push" /\ remote = "none")
           /\ ~(/\ ops[o].kind = "pr" /\ remote # "none"
                /\ \A q \in 0..MaxOps : prs[q] # "open")
           /\ ~(/\ ops[o].kind = "merge" /\ remote = "commit"
                /\ prs[Creator] = "open")
  BY <1>4
<1> QED
  BY <1>1, <1>2, <1>3, <1>4

(* A call leaves a branch and pull requests at the remote.                 *)
LEMMA EffectType ==
  ASSUME DeliveryTypeOK, NEW o \in Ops, Effect(o)
  PROVE  /\ remote' \in {"none", "commit", "foreign"}
         /\ prs' \in [0..MaxOps -> {"none", "open", "closed", "merged"}]
<1>1. /\ prs \in [0..MaxOps -> {"none", "open", "closed", "merged"}]
      /\ remote \in {"none", "commit", "foreign"} /\ o \in 0..MaxOps
  BY OpsAssumption DEF DeliveryTypeOK, Ops
<1> QED
  BY <1>1, EffectCases

(* An operation that moves on is an operation.                             *)
LEMMA OperationType ==
  ASSUME ops \in [Ops -> Operation], NEW o \in Ops, NEW s \in States,
         NEW b \in BOOLEAN
  PROVE  /\ [ops EXCEPT ![o].state = s] \in [Ops -> Operation]
         /\ [ops EXCEPT ![o].state = s, ![o].merged = b]
              \in [Ops -> Operation]
BY DEF Operation

(* A settled confirmation leaves operations and no job.                    *)
LEMMA SettleType ==
  ASSUME DeliveryTypeOK, dj.op \in Ops, NEW s \in States, Settle(s)
  PROVE  ops' \in [Ops -> Operation] /\ dj' \in Confirm
<1>1. NoConfirm \in Confirm
  BY OpsAssumption DEF NoConfirm, Confirm
<1>2. (s = "succeeded" /\ Recorded(dj.op)) \in BOOLEAN
  OBVIOUS
<1>3. ops' = [ops EXCEPT ![dj.op].state = s,
                ![dj.op].merged = s = "succeeded" /\ Recorded(dj.op)]
  BY DEF Settle
<1>4. ops' \in [Ops -> Operation]
  BY <1>2, <1>3, OperationType DEF DeliveryTypeOK
<1> QED
  BY <1>1, <1>4 DEF Settle

(* A proof of a call is an outcome.                                        *)
LEMMA ProofTypes ==
  /\ CommitProof \in {"failed", "succeeded", "recovery_required"}
  /\ \A o : ops[o].kind \in Remotely =>
       /\ RemoteProof(o) \in {"failed", "succeeded", "recovery_required"}
       /\ ops[o].kind # "push" =>
            RemoteProof(o) \in {"succeeded", "recovery_required"}
  /\ \A o : ops[o].kind \in Kinds \ {"discard"} =>
       /\ Refreshed(o) \in {"failed", "succeeded", "recovery_required"}
       /\ ops[o].kind \notin {"commit", "push"} =>
            Refreshed(o) \in {"succeeded", "recovery_required"}
       /\ (ops[o].kind = "commit" /\ Refreshed(o) = "failed") =>
            CommitProof = "failed"
<1>1. CommitProof \in {"failed", "succeeded", "recovery_required"}
  BY DEF CommitProof
<1>2. ASSUME NEW o, ops[o].kind \in Remotely
      PROVE  /\ RemoteProof(o) \in {"failed", "succeeded", "recovery_required"}
             /\ ops[o].kind # "push" =>
                  RemoteProof(o) \in {"succeeded", "recovery_required"}
  <2>1. CASE ops[o].kind = "push"
    BY <2>1 DEF RemoteProof
  <2>2. CASE ops[o].kind = "pr"
    BY <2>2 DEF RemoteProof
  <2>3. CASE ops[o].kind = "merge"
    BY <2>3 DEF RemoteProof
  <2> QED
    BY <1>2, <2>1, <2>2, <2>3 DEF Remotely
<1>3. ASSUME NEW o, ops[o].kind \in Kinds \ {"discard"}
      PROVE  /\ Refreshed(o) \in {"failed", "succeeded", "recovery_required"}
             /\ ops[o].kind \notin {"commit", "push"} =>
                  Refreshed(o) \in {"succeeded", "recovery_required"}
             /\ (ops[o].kind = "commit" /\ Refreshed(o) = "failed") =>
                  CommitProof = "failed"
  <2>1. CASE ops[o].kind = "commit"
    BY <1>1, <2>1 DEF Refreshed
  <2>2. CASE ops[o].kind = "push"
    BY <2>2 DEF Refreshed
  <2>3. CASE ops[o].kind = "cleanup"
    BY <2>3 DEF Refreshed
  <2>4. CASE ops[o].kind \in {"pr", "merge"}
    BY <1>2, <2>4 DEF Refreshed, Remotely
  <2> QED
    BY <1>3, <2>1, <2>2, <2>3, <2>4 DEF Kinds
<1> QED
  BY <1>1, <1>2, <1>3

(* The person changes the world within its domains.                        *)
LEMMA PersonTypes ==
  ASSUME RecordsTypeOK, DeliveryTypeOK,
         \/ PersonEdits \/ PersonStages \/ PersonSwitches \/ PersonCommits
         \/ PersonUnlocks \/ TargetAdvances \/ RemoteMoves \/ PersonRequests
  PROVE  RecordsTypeOK' /\ DeliveryTypeOK'
<1>1. RecordsTypeOK'
  <2>1. \/ UNCHANGED recordVars
        \/ Edit /\ UNCHANGED <<resultVars, co, faults>>
    BY DEF PersonEdits, PersonStages, PersonSwitches, PersonCommits,
       PersonUnlocks, TargetAdvances, RemoteMoves, PersonRequests, Personal
  <2>2. Edit => edits' \in 0..MaxEdits
    BY FaultAssumption DEF Edit, RecordsTypeOK
  <2> QED
    BY <2>1, <2>2 DEF recordVars, resultVars, budgetVars, RecordsTypeOK,
       Entries
<1> USE DEF DeliveryTypeOK
<1>2. CASE PersonEdits \/ PersonStages
  <2>1. /\ tree' \in {"reviewed", "edited", "gone"}
        /\ idx' \in {"base", "reviewed", "other"}
    BY <1>2 DEF PersonEdits, PersonStages
  <2>2. UNCHANGED <<ops, dj, late, made, sent, misread, lost, head, ref,
                    ilock, ahead, remote, prs, stirred>>
    BY <1>2 DEF PersonEdits, PersonStages, Personal
  <2> QED
    BY <1>1, <2>1, <2>2
<1>3. CASE PersonSwitches \/ PersonCommits
  BY <1>1, <1>3 DEF PersonSwitches, PersonCommits, Personal, Stir,
              Uncertain
<1>4. CASE PersonUnlocks \/ TargetAdvances
  BY <1>1, <1>4 DEF PersonUnlocks, TargetAdvances, Personal, ghostVars
<1>5. CASE RemoteMoves
  BY <1>1, <1>5 DEF RemoteMoves, Personal
<1>6. CASE PersonRequests
  BY <1>1, <1>6 DEF PersonRequests, Personal
<1> QED
  BY <1>1, <1>2, <1>3, <1>4, <1>5, <1>6

(* Operations, the confirmation and the world.                             *)
LEMMA DeliveryTypes ==
  ASSUME RecordsTypeOK, DeliveryTypeOK, BranchInvariant, DeliveryNext
  PROVE  RecordsTypeOK' /\ DeliveryTypeOK'
<1>1. ASSUME UNCHANGED recordVars
      PROVE  RecordsTypeOK'
  BY <1>1 DEF recordVars, resultVars, budgetVars, RecordsTypeOK, Entries
<1>2. ASSUME Fault \/ UNCHANGED faults, UNCHANGED <<resultVars, co, edits>>
      PROVE  RecordsTypeOK'
  <2>1. faults' \in 0..MaxFaults
    BY <1>2, FaultAssumption DEF Fault, RecordsTypeOK
  <2> QED
    BY <1>2, <2>1 DEF resultVars, RecordsTypeOK, Entries
<1>3. NoConfirm \in Confirm
  BY OpsAssumption DEF NoConfirm, Confirm
<1>4. dj.at # "idle" => /\ dj.op \in Ops /\ Kind \in Kinds
                        /\ \A s \in States :
                             Settle(s) => /\ ops' \in [Ops -> Operation]
                                          /\ dj' \in Confirm
  BY SettleType DEF BranchInvariant, ConfirmKnows
<1>5. {"failed", "succeeded", "recovery_required"} \subseteq States
  BY DEF States
<1>6. ASSUME dj.at # "idle", NEW phase \in {"check", "lock", "mutate", "prove"},
             To(phase)
      PROVE  dj' \in Confirm
  BY <1>6 DEF To, DeliveryTypeOK, Confirm
<1>7. ASSUME dj.at # "idle", sent[dj.op] = 0, Starts
      PROVE  sent' \in [Ops -> 0..2]
  <2>1. dj.op \in Ops /\ sent \in [Ops -> 0..2]
    BY <1>4, <1>7 DEF DeliveryTypeOK
  <2>2. sent' = [sent EXCEPT ![dj.op] = 1]
    BY <1>7, <2>1 DEF Starts
  <2> QED
    BY <2>1, <2>2
<1>8. dj.at \in {"check", "lock", "mutate"} => sent[dj.op] = 0
  BY DEF BranchInvariant, ConfirmKnows
<1>9. ASSUME NEW k \in Kinds, Preview(k)
      PROVE  RecordsTypeOK' /\ DeliveryTypeOK'
  <2>1. PICK o \in Ops : ops' = [ops EXCEPT ![o] = [NoOp EXCEPT
                           !.kind = k, !.state = "preview", !.saw = Saw(k)]]
    BY <1>9 DEF Preview
  <2>2. PreviewReady(k)
    BY <1>9 DEF Preview
  <2>3. Saw(k) \in {"none", "base", "reviewed", "commit"}
    <3>1. CASE k = "commit"
      BY <2>2, <3>1 DEF PreviewReady, CommitReady, Staged, Saw
    <3>2. CASE k = "discard"
      BY <2>2, <3>2 DEF PreviewReady, DiscardReady, Staged, Saw
    <3>3. CASE k = "push"
      BY <2>2, <3>3 DEF PreviewReady, PushReady, Saw
    <3>4. CASE k \notin {"commit", "discard", "push"}
      BY <3>4 DEF Saw
    <3> QED
      BY <3>1, <3>2, <3>3, <3>4
  <2>4. [NoOp EXCEPT !.kind = k, !.state = "preview", !.saw = Saw(k)]
          \in Operation
    BY <2>3 DEF NoOp, Operation, States
  <2>5. ops' \in [Ops -> Operation]
    BY <2>1, <2>4 DEF DeliveryTypeOK
  <2>6. UNCHANGED <<recordVars, dj, worldVars, ghostVars>>
    BY <1>9 DEF Preview
  <2> QED
    BY <1>1, <2>5, <2>6 DEF DeliveryTypeOK, worldVars, ghostVars
<1>10. ASSUME NEW o \in Ops, ConfirmMarks(o)
       PROVE  RecordsTypeOK' /\ DeliveryTypeOK'
  <2>1. ops' \in [Ops -> Operation]
    BY <1>10, OperationType DEF ConfirmMarks, DeliveryTypeOK, States
  <2>2. [at |-> "check", op |-> o] \in Confirm
    BY OpsAssumption DEF Confirm, Ops
  <2> QED
    BY <1>1, <1>10, <2>1, <2>2 DEF ConfirmMarks, DeliveryTypeOK, worldVars,
       ghostVars
<1>11. ASSUME NEW o \in Ops, Refresh(o) \/ Reconfirm(o)
       PROVE  RecordsTypeOK' /\ DeliveryTypeOK'
  <2>1. ops' \in [Ops -> Operation]
    <3>1. CASE Reconfirm(o)
      BY <3>1, OperationType DEF Reconfirm, DeliveryTypeOK, States
    <3>2. CASE Refresh(o)
      <4>1. ops[o].kind \in Kinds \ {"discard"}
        BY <3>2 DEF Refresh, Authority, Uncertain, Unsure, BranchInvariant,
           BranchKnown, OperationsKnown, NoOp
      <4>2. /\ Refreshed(o) \in States /\ "recovery_required" \in States
            /\ (Refreshed(o) = "succeeded" /\ Recorded(o)) \in BOOLEAN
            /\ Unread \subseteq States
        BY <4>1, ProofTypes DEF States, Unread
      <4>3. \/ ops' = [ops EXCEPT ![o].state = Refreshed(o), ![o].merged =
                         Refreshed(o) = "succeeded" /\ Recorded(o)]
            \/ \E s \in Unread : ops' = [ops EXCEPT ![o].state = s]
        BY <3>2 DEF Refresh
      <4> DEFINE b == Refreshed(o) = "succeeded" /\ Recorded(o)
      <4>4. /\ \A s \in Unread : [ops EXCEPT ![o].state = s]
                                   \in [Ops -> Operation]
            /\ [ops EXCEPT ![o].state = Refreshed(o), ![o].merged = b]
                 \in [Ops -> Operation]
        <5> HIDE DEF b
        <5>1. b \in BOOLEAN
          BY <4>2 DEF b
        <5> QED
          BY <4>2, <5>1, OperationType DEF DeliveryTypeOK
      <4> QED
        BY <4>3, <4>4
    <3> QED
      BY <1>11, <3>1, <3>2
  <2>2. /\ UNCHANGED <<resultVars, co, edits, dj, worldVars, made, sent,
                        stirred, lost>>
        /\ Fault \/ UNCHANGED faults
        /\ misread' = misread \/ Misreads(o, "failed")
             \/ Misreads(o, "recovery_required")
    BY <1>11 DEF Refresh, Reconfirm, recordVars, budgetVars, ghostVars, Unread
  <2> QED
    BY <1>2, <2>1, <2>2 DEF DeliveryTypeOK, worldVars, Misreads
<1>12. ASSUME NEW o \in Ops, LateEffect(o)
       PROVE  RecordsTypeOK' /\ DeliveryTypeOK'
  <2>1. /\ remote' \in {"none", "commit", "foreign"}
        /\ prs' \in [0..MaxOps -> {"none", "open", "closed", "merged"}]
    BY <1>12, EffectType DEF LateEffect
  <2> QED
    BY <1>1, <1>12, <2>1 DEF LateEffect, DeliveryTypeOK, ghostVars
<1>13. CASE ConfirmChecks \/ CheckFails
  <2>1. ops' \in [Ops -> Operation] /\ dj' \in Confirm
    BY <1>4, <1>5, <1>6, <1>13 DEF ConfirmChecks, CheckFails, Unread,
       DeliveryTypeOK
  <2>2. /\ UNCHANGED <<resultVars, co, edits, worldVars, ghostVars>>
        /\ Fault \/ UNCHANGED faults
    BY <1>13 DEF ConfirmChecks, CheckFails, recordVars, budgetVars
  <2> QED
    BY <1>2, <2>1, <2>2 DEF DeliveryTypeOK, worldVars, ghostVars
<1>14. CASE CommitLocks
  <2>1. ops' \in [Ops -> Operation] /\ dj' \in Confirm /\ ilock' \in BOOLEAN
    BY <1>4, <1>5, <1>6, <1>14 DEF CommitLocks, At, DeliveryTypeOK
  <2> QED
    BY <1>1, <1>14, <2>1 DEF CommitLocks, DeliveryTypeOK, ghostVars
<1>15. ASSUME dj.at # "idle", CommitLands \/ NothingLands
       PROVE  /\ made' \subseteq Ops /\ tree' \in {"reviewed", "edited", "gone"}
              /\ ref' \in {"base", "commit", "foreign"}
  BY <1>4, <1>15 DEF CommitLands, NothingLands, DeliveryTypeOK
<1>16. CASE CommitWrites
  <2>1. dj.at = "mutate" /\ sent' \in [Ops -> 0..2]
    BY <1>7, <1>8, <1>16 DEF CommitWrites, At
  <2>2. ops' \in [Ops -> Operation] /\ dj' \in Confirm /\ ilock' \in BOOLEAN
    BY <1>4, <1>5, <1>6, <1>16, <2>1 DEF CommitWrites, DeliveryTypeOK
  <2>3. /\ made' \subseteq Ops /\ tree' \in {"reviewed", "edited", "gone"}
        /\ ref' \in {"base", "commit", "foreign"}
    BY <1>15, <1>16, <2>1 DEF CommitWrites
  <2> QED
    BY <1>1, <1>16, <2>1, <2>2, <2>3 DEF CommitWrites, DeliveryTypeOK
<1>17. CASE CommitProves
  <2>1. ops' \in [Ops -> Operation] /\ dj' \in Confirm
    BY <1>4, <1>5, <1>17, ProofTypes DEF CommitProves, At
  <2> QED
    BY <1>1, <1>17, <2>1 DEF CommitProves, Published, DeliveryTypeOK, ghostVars
<1>18. ASSUME dj.at = "mutate", Answers(dj.op)
       PROVE  /\ remote' \in {"none", "commit", "foreign"} /\ late' \subseteq Ops
              /\ prs' \in [0..MaxOps -> {"none", "open", "closed", "merged"}]
  BY <1>4, <1>18, EffectType DEF Answers, DeliveryTypeOK
<1>19. CASE RemoteSends
  <2>1. dj.at = "mutate" /\ sent' \in [Ops -> 0..2]
    BY <1>7, <1>8, <1>19 DEF RemoteSends
  <2>2. ops' \in [Ops -> Operation] /\ dj' \in Confirm
    BY <1>4, <1>5, <1>6, <1>19, <2>1 DEF RemoteSends, DeliveryTypeOK
  <2>3. /\ remote' \in {"none", "commit", "foreign"} /\ late' \subseteq Ops
        /\ prs' \in [0..MaxOps -> {"none", "open", "closed", "merged"}]
    BY <1>4, <1>19, <2>1, EffectType DEF RemoteSends, DeliveryTypeOK
  <2> QED
    BY <1>1, <1>19, <2>1, <2>2, <2>3 DEF RemoteSends, DeliveryTypeOK
<1>20. CASE RemoteFails
  <2>1. dj.at = "mutate" /\ sent' \in [Ops -> 0..2]
    BY <1>7, <1>8, <1>20 DEF RemoteFails
  <2>2. ops' \in [Ops -> Operation] /\ dj' \in Confirm
    BY <1>4, <1>5, <1>20, <2>1 DEF RemoteFails
  <2>3. /\ remote' \in {"none", "commit", "foreign"} /\ late' \subseteq Ops
        /\ prs' \in [0..MaxOps -> {"none", "open", "closed", "merged"}]
    BY <1>18, <1>20, <2>1 DEF RemoteFails
  <2> QED
    BY <1>2, <1>20, <2>1, <2>2, <2>3 DEF RemoteFails, DeliveryTypeOK
<1>21. CASE RemoteProves
  <2>1. ops' \in [Ops -> Operation] /\ dj' \in Confirm
    BY <1>4, <1>5, <1>21, ProofTypes DEF RemoteProves, Kind
  <2> QED
    BY <1>1, <1>21, <2>1 DEF RemoteProves, DeliveryTypeOK, worldVars, ghostVars
<1>22. CASE CleanupRemoves
  <2>1. dj.at = "mutate" /\ sent' \in [Ops -> 0..2]
    BY <1>7, <1>8, <1>22 DEF CleanupRemoves
  <2>2. ops' \in [Ops -> Operation] /\ dj' \in Confirm
    BY <1>4, <1>5, <1>6, <1>22, <2>1 DEF CleanupRemoves, DeliveryTypeOK
  <2>3. tree' \in {"reviewed", "edited", "gone"} /\ lost' \in BOOLEAN
    BY <1>22 DEF CleanupRemoves, Removes, DeliveryTypeOK
  <2> QED
    BY <1>1, <1>22, <2>1, <2>2, <2>3 DEF CleanupRemoves, DeliveryTypeOK
<1>23. CASE CleanupProves
  <2>1. ops' \in [Ops -> Operation] /\ dj' \in Confirm
    BY <1>4, <1>5, <1>23 DEF CleanupProves
  <2> QED
    BY <1>1, <1>23, <2>1 DEF CleanupProves, DeliveryTypeOK, worldVars, ghostVars
<1>24. CASE ConfirmIsLost
  <2>1. /\ dj.at # "idle" /\ dj' = NoConfirm /\ Fault
        /\ UNCHANGED <<resultVars, co, edits, ops>>
        /\ LostBefore \/ LostCommit \/ LostCall \/ LostCleanup
    BY <1>24 DEF ConfirmIsLost
  <2>2. sent' \in [Ops -> 0..2]
    BY <1>7, <1>8, <2>1 DEF LostBefore, LostCommit, LostCall, LostCleanup, At,
       ghostVars, DeliveryTypeOK
  <2>3. /\ made' \subseteq Ops /\ tree' \in {"reviewed", "edited", "gone"}
        /\ ref' \in {"base", "commit", "foreign"} /\ stirred' \subseteq Ops
        /\ misread' \subseteq Ops /\ lost' \in BOOLEAN
        /\ head' \in {"task", "other"}
    BY <1>15, <2>1 DEF LostBefore, LostCommit, LostCall, LostCleanup, Removes,
       worldVars, ghostVars, DeliveryTypeOK
  <2>4. /\ remote' \in {"none", "commit", "foreign"} /\ late' \subseteq Ops
        /\ prs' \in [0..MaxOps -> {"none", "open", "closed", "merged"}]
    BY <1>18, <2>1 DEF LostBefore, LostCommit, LostCall, LostCleanup,
       worldVars, DeliveryTypeOK
  <2>5. /\ idx' \in {"base", "reviewed", "other"} /\ ilock' \in BOOLEAN
        /\ ahead' \in BOOLEAN
    BY <2>1 DEF LostBefore, LostCommit, LostCall, LostCleanup, Published,
       worldVars, DeliveryTypeOK
  <2> QED
    BY <1>2, <1>3, <2>1, <2>2, <2>3, <2>4, <2>5 DEF DeliveryTypeOK
<1>25. CASE RemovalFails
  <2>1. dj.at = "mutate" /\ sent' \in [Ops -> 0..2]
    BY <1>7, <1>8, <1>25 DEF RemovalFails
  <2>2. ops' \in [Ops -> Operation] /\ dj' \in Confirm
    BY <1>4, <1>5, <1>25, <2>1 DEF RemovalFails
  <2>3. tree' \in {"reviewed", "edited", "gone"} /\ lost' \in BOOLEAN
    BY <1>25 DEF RemovalFails, Removes, DeliveryTypeOK
  <2> QED
    BY <1>2, <1>25, <2>1, <2>2, <2>3 DEF RemovalFails, DeliveryTypeOK
<1>26. CASE ProofFails
  <2>1. PICK s \in Unread : Settle(s) /\ Misreads(dj.op, s)
    BY <1>26 DEF ProofFails
  <2>2. ops' \in [Ops -> Operation] /\ dj' \in Confirm
    BY <1>4, <1>5, <1>26, <2>1 DEF ProofFails, Unread
  <2>3. misread' \subseteq Ops /\ ilock' \in BOOLEAN
    BY <1>4, <1>26, <2>1 DEF ProofFails, Misreads, DeliveryTypeOK
  <2> QED
    BY <1>2, <1>26, <2>2, <2>3 DEF ProofFails, DeliveryTypeOK
<1> QED
  BY <1>9, <1>10, <1>11, <1>12, <1>13, <1>14, <1>16, <1>17, <1>19, <1>20,
     <1>21, <1>22, <1>23, <1>24, <1>25, <1>26, PersonTypes DEF DeliveryNext
-----------------------------------------------------------------------------
(***************************************************************************)
(* A step of one mode leaves the other modes alone.                        *)
(***************************************************************************)
(* The legacy part does not hear of steps of other modes.                  *)
LEMMA LegacyFrame ==
  ASSUME LegacyInvariant, UNCHANGED <<mode, changed, applyVars>>,
         mode # "legacy" \/ UNCHANGED <<closed, task, room, co>>
  PROVE  LegacyInvariant'
<1>1. CASE mode # "legacy"
  <2>1. wrote = {} /\ \A r \in Repos : step[r] = "planned"
    BY <1>1 DEF LegacyInvariant, LegacyKnown
  <2>2. CheckoutKnown'
    BY <2>1 DEF CheckoutKnown, applyVars
  <2>3. aj.at = "idle"
    BY <1>1 DEF LegacyInvariant, ApplyKnows
  <2>4. ApplyKnows'
    BY <2>3 DEF ApplyKnows, applyVars
  <2>5. LegacyKnown'
    BY <1>1 DEF LegacyInvariant, LegacyKnown, applyVars
  <2> QED
    BY <2>2, <2>4, <2>5 DEF LegacyInvariant
<1>2. CASE UNCHANGED <<closed, task, room, co>>
  BY <1>2 DEF LegacyInvariant, CheckoutKnown, ApplyKnows, LegacyKnown, Applied,
     Pending, applyVars
<1> QED
  BY <1>1, <1>2

(* Nor does the patch part.                                                *)
LEMMA PatchFrame ==
  ASSUME PatchInvariant, UNCHANGED <<mode, patchVars>>,
         mode # "patch" \/ UNCHANGED <<closed, task, room, co>>
  PROVE  PatchInvariant'
<1>1. CASE mode # "patch"
  <2>1. app = "none" /\ ~writer /\ ~doubted /\ pj.at = "idle"
    BY <1>1 DEF PatchInvariant, PatchKnown, PatchKnows
  <2> QED
    BY <1>1, <2>1 DEF PatchInvariant, PatchKnown, PatchKnows, patchVars
<1>2. CASE UNCHANGED <<closed, task, room, co>>
  BY <1>2 DEF PatchInvariant, PatchKnown, PatchKnows, Files, patchVars
<1> QED
  BY <1>1, <1>2

(* Nor does the branch part.                                               *)
LEMMA BranchFrame ==
  ASSUME BranchInvariant, UNCHANGED <<mode, deliveryVars>>,
         \/ mode # "branch" /\ (closed # {} => closed' # {})
         \/ UNCHANGED <<closed, task, room>>
  PROVE  BranchInvariant'
<1> USE DEF BranchInvariant, deliveryVars, worldVars, ghostVars
<1>1. OperationsKnown' /\ EffectsKnown'
  BY DEF OperationsKnown, EffectsKnown, MadeKnown, RemoteKnown, Uncertain,
         Done, Is, Started, OnBranch, Remotely
<1>2. CASE mode # "branch" /\ (closed # {} => closed' # {})
  <2>1. \A o \in Ops : ops[o] = NoOp
    BY <1>2 DEF BranchKnown
  <2>2. dj.at = "idle"
    BY <2>1 DEF ConfirmKnows, NoOp
  <2>3. ConfirmKnows'
    BY <2>2 DEF ConfirmKnows
  <2>4. Uncertain' = {}
    BY <2>1 DEF Uncertain, Unsure, NoOp
  <2>5. CleanupKeepsWork'
    BY <1>2 DEF BranchKnown, CleanupKeepsWork, MergedOnHost
  <2>6. BranchKnown'
    BY <1>2, <2>1, <2>4, <2>5 DEF BranchKnown, NoOp
  <2> QED
    BY <1>1, <2>3, <2>6
<1>3. CASE UNCHANGED <<closed, task, room>>
  <2>1. ConfirmKnows'
    BY <1>3 DEF ConfirmKnows, Kind, OnBranch, MergedOnHost
  <2>2. BranchKnown'
    BY <1>3 DEF BranchKnown, CleanupKeepsWork, MergedOnHost, Uncertain
  <2> QED
    BY <1>1, <2>1, <2>2
<1> QED
  BY <1>2, <1>3
-----------------------------------------------------------------------------
(***************************************************************************)
(* The apply operation over several repositories.                          *)
(***************************************************************************)
(* A new step of one repository.                                           *)
LEMMA AppendKeeps ==
  ASSUME ApplyTypeOK, CheckoutKnown, LegacyKnown, mode = "legacy",
         NEW r \in Repos, NEW s \in Steps, Append(r, s),
         UNCHANGED <<recordVars, wrote>>, landed \subseteq landed',
         r \in wrote => s \in {"writing", "uncertain", "applied"},
         (s \in {"writing", "uncertain"} /\ co[r].work = "post") =>
            r \in landed',
         (s = "applied" /\ r \in changed) => r \in landed',
         room = "archived" => s \notin {"writing", "uncertain"}
  PROVE  CheckoutKnown' /\ LegacyKnown'
<1>1. /\ step \in [Repos -> Steps] /\ step' = [step EXCEPT ![r] = s]
      /\ step[r] # "applied"
  BY DEF ApplyTypeOK, Append
<1>2. UNCHANGED <<co, changed, mode, closed, task, room, wrote>>
  BY DEF recordVars, resultVars
<1>3. CheckoutKnown'
  <2> SUFFICES ASSUME NEW q \in Repos
               PROVE  /\ q \in wrote' =>
                           /\ step'[q] \in {"writing", "uncertain", "applied"}
                           /\ co'[q].work \notin Forward
                      /\ (step'[q] \in {"writing", "uncertain"}
                            /\ co'[q].work = "post") => q \in landed'
                      /\ (step'[q] = "applied" /\ q \in changed') =>
                           q \in landed'
    BY DEF CheckoutKnown
  <2>1. CASE q = r
    BY <1>1, <1>2, <2>1 DEF CheckoutKnown
  <2>2. CASE q # r
    BY <1>1, <1>2, <2>2 DEF CheckoutKnown
  <2> QED
    BY <2>1, <2>2
<1>4. Applied \subseteq Applied'
  BY <1>1 DEF Applied
<1>5. LegacyKnown'
  BY <1>1, <1>2, <1>4 DEF LegacyKnown
<1> QED
  BY <1>3, <1>5

(* The preflight of one repository.                                        *)
LEMMA PreflightedKnows ==
  ASSUME ApplyTypeOK, ApplyKnows, aj.at = "preflight", UNCHANGED recordVars,
         NEW job, job.at = "preflight", job.r = aj.r,
         job.blocked \in BOOLEAN, aj.blocked => job.blocked,
         \A q \in Repos : q # aj.r => step'[q] = step[q],
         step'[aj.r] # "applied" => aj.r \in changed,
         job.blocked \/ step'[aj.r] \in {"applied", "preflight"},
         aj' = Preflighted(job), job \in ApplyJob
  PROVE  ApplyKnows'
<1>1. /\ mode' = "legacy" /\ closed' = {} /\ changed' = changed
      /\ aj.r \in Repos
  BY DEF ApplyKnows, recordVars, resultVars
<1>2. ASSUME NEW q \in Repos, q <= aj.r
      PROVE  /\ step'[q] # "applied" => q \in changed
             /\ job.blocked \/ step'[q] \in {"applied", "preflight"}
  <2>1. CASE q = aj.r
    BY <2>1
  <2>2. CASE q # aj.r
    <3>1. q < aj.r
      BY <1>1, <1>2, <2>2, RepoAssumption DEF Repos
    <3> QED
      BY <2>2, <3>1 DEF ApplyKnows
  <2> QED
    BY <2>1, <2>2
<1>3. CASE job.r < RepoCount
  <2>1. aj' = [job EXCEPT !.r = job.r + 1]
    BY <1>3 DEF Preflighted
  <2>2. /\ aj'.at = "preflight" /\ aj'.r = aj.r + 1 /\ aj'.r \in Repos
        /\ aj'.blocked = job.blocked
    BY <1>1, <1>3, <2>1, RepoAssumption DEF Repos, ApplyJob
  <2>3. \A q \in Repos : q < aj'.r => q <= aj.r
    BY <1>1, <2>2, RepoAssumption DEF Repos
  <2> QED
    BY <1>1, <1>2, <2>2, <2>3 DEF ApplyKnows
<1>4. CASE ~(job.r < RepoCount) /\ job.blocked
  BY <1>4 DEF Preflighted, ApplyKnows, NoApply
<1>5. CASE ~(job.r < RepoCount) /\ ~job.blocked
  <2>1. aj' = [job EXCEPT !.at = "mark", !.r = 0]
    BY <1>5 DEF Preflighted
  <2>2. aj'.at = "mark"
    BY <2>1 DEF ApplyJob
  <2>3. \A q \in Repos : q <= aj.r
    BY <1>1, <1>5, RepoAssumption DEF Repos
  <2>4. \A q \in Pending' : q \in changed /\ step'[q] = "preflight"
    BY <1>2, <1>5, <2>3 DEF Pending
  <2> QED
    BY <1>1, <2>2, <2>4 DEF ApplyKnows
<1> QED
  BY <1>3, <1>4, <1>5

(* What git apply leaves behind.                                           *)
LEMMA LeavesKeeps ==
  ASSUME RecordsTypeOK, ApplyTypeOK, CheckoutKnown, NEW r \in Repos,
         step[r] = "writing", NEW w \in GitApply(co[r].work), Leaves(r, w),
         UNCHANGED <<step, changed>>
  PROVE  CheckoutKnown'
<1>1. /\ co \in [Repos -> Checkout] /\ co[r].work \in Works
      /\ co' = [co EXCEPT ![r].work = w]
  BY DEF RecordsTypeOK, Repos, Checkout, Leaves
<1>2. w # co[r].work => w \notin Forward
  BY <1>1, GitApplyType
<1>3. co'[r].work = w /\ \A q \in Repos : q # r => co'[q] = co[q]
  BY <1>1 DEF Checkout
<1>4. /\ wrote' = IF w # co[r].work THEN wrote \cup {r} ELSE wrote
      /\ landed' = IF w = "post" THEN landed \cup {r} ELSE landed
  BY DEF Leaves
<1> SUFFICES ASSUME NEW q \in Repos
             PROVE  /\ q \in wrote' =>
                         /\ step[q] \in {"writing", "uncertain", "applied"}
                         /\ co'[q].work \notin Forward
                    /\ (step[q] \in {"writing", "uncertain"}
                          /\ co'[q].work = "post") => q \in landed'
                    /\ (step[q] = "applied" /\ q \in changed) => q \in landed'
  BY DEF CheckoutKnown
<1>5. CASE q = r
  BY <1>2, <1>3, <1>4, <1>5 DEF CheckoutKnown
<1>6. CASE q # r
  BY <1>3, <1>4, <1>6 DEF CheckoutKnown
<1> QED
  BY <1>5, <1>6

(* The first half of the command: the operation and its preflight.         *)
LEMMA PreflightKeeps ==
  ASSUME RecordsTypeOK, ApplyTypeOK, LegacyInvariant,
         \/ ApplyBegins \/ PreflightSkips \/ PreflightNoChange
         \/ PreflightReconciles \/ PreflightRefuses \/ PreflightPasses
  PROVE  mode = "legacy" /\ UNCHANGED recordVars /\ LegacyInvariant'
<1> USE DEF LegacyInvariant
<1>1. /\ step \in [Repos -> Steps] /\ aj \in ApplyJob
      /\ co \in [Repos -> Checkout]
  BY DEF ApplyTypeOK, RecordsTypeOK, Repos
<1>2. CASE ApplyBegins
  <2>1. /\ mode = "legacy" /\ closed = {}
        /\ UNCHANGED <<recordVars, step, pre, landed, wrote>>
        /\ aj' = [NoApply EXCEPT !.at = "preflight", !.r = 1]
    BY <1>2 DEF ApplyBegins, WithoutClosure
  <2>2. aj'.at = "preflight" /\ aj'.r = 1
    BY <2>1 DEF NoApply
  <2>3. CheckoutKnown' /\ LegacyKnown'
    BY <2>1 DEF CheckoutKnown, LegacyKnown, recordVars, resultVars, Applied
  <2>4. ApplyKnows'
    BY <2>1, <2>2, RepoAssumption DEF ApplyKnows, recordVars, resultVars, Repos
  <2> QED
    BY <2>1, <2>3, <2>4
<1>3. ASSUME aj.at = "preflight"
      PROVE  mode = "legacy" /\ closed = {} /\ aj.r \in Repos
  BY <1>3 DEF ApplyKnows
<1>4. ASSUME aj.at = "preflight", step[aj.r] # "applied", aj.r \in changed
      PROVE  room # "archived"
  BY <1>3, <1>4 DEF LegacyKnown, Applied
<1>5. aj.at = "preflight" => aj.blocked \in BOOLEAN
  BY <1>1 DEF ApplyJob
<1>6. ASSUME NEW s, aj.at = "preflight", Append(aj.r, s)
      PROVE  /\ step'[aj.r] = s
             /\ \A q \in Repos : q # aj.r => step'[q] = step[q]
  BY <1>1, <1>3, <1>6 DEF Append
<1>7. CASE PreflightSkips
  <2>1. /\ aj.at = "preflight" /\ step[aj.r] = "applied"
        /\ aj' = Preflighted(aj)
        /\ UNCHANGED <<recordVars, planned, step, pre, landed, wrote>>
    BY <1>7 DEF PreflightSkips
  <2>2. ApplyKnows'
    BY <1>1, <1>3, <1>5, <2>1, PreflightedKnows
  <2>3. CheckoutKnown' /\ LegacyKnown'
    BY <2>1 DEF CheckoutKnown, LegacyKnown, recordVars, resultVars, Applied
  <2> QED
    BY <1>3, <2>1, <2>2, <2>3
<1>8. CASE PreflightNoChange
  <2>1. /\ aj.at = "preflight" /\ aj.r \notin changed
        /\ Append(aj.r, "applied") /\ aj' = Preflighted(aj)
        /\ UNCHANGED <<recordVars, planned, pre, landed, wrote>>
    BY <1>8 DEF PreflightNoChange
  <2>2. ApplyKnows'
    BY <1>1, <1>5, <1>6, <2>1, PreflightedKnows
  <2>3. CheckoutKnown' /\ LegacyKnown'
    BY <1>3, <2>1, AppendKeeps DEF Steps
  <2> QED
    BY <1>3, <2>1, <2>2, <2>3
<1>9. CASE PreflightReconciles
  <2>1. /\ aj.at = "preflight" /\ aj.r \in changed
        /\ Inspect(aj.r, Prior(aj.r)) = "already"
        /\ Append(aj.r, "applied") /\ aj' = Preflighted(aj)
        /\ UNCHANGED <<recordVars, planned, pre, landed, wrote>>
    BY <1>9 DEF PreflightReconciles, Inspecting
  <2>2. ApplyKnows'
    BY <1>1, <1>5, <1>6, <2>1, PreflightedKnows
  <2>3. step[aj.r] \in {"writing", "uncertain"} /\ co[aj.r].work = "post"
    BY <2>1 DEF Inspect, Prior
  <2>4. aj.r \in landed
    BY <1>3, <2>1, <2>3 DEF CheckoutKnown
  <2>5. CheckoutKnown' /\ LegacyKnown'
    BY <1>3, <2>1, <2>4, AppendKeeps DEF Steps
  <2> QED
    BY <1>3, <2>1, <2>2, <2>5
<1>10. CASE PreflightRefuses
  <2>1. /\ aj.at = "preflight" /\ aj.r \in changed /\ step[aj.r] # "applied"
        /\ Append(aj.r, Refused(step[aj.r]))
        /\ aj' = Preflighted([aj EXCEPT !.blocked = TRUE])
        /\ UNCHANGED <<recordVars, planned, pre, landed, wrote>>
    BY <1>10 DEF PreflightRefuses, Inspecting
  <2> DEFINE job == [aj EXCEPT !.blocked = TRUE]
  <2>2. /\ job \in ApplyJob /\ job.at = "preflight" /\ job.r = aj.r
        /\ job.blocked = TRUE
    BY <1>1, <2>1 DEF ApplyJob
  <2>3. ApplyKnows'
    <3> HIDE DEF job
    <3> QED
      BY <1>6, <2>1, <2>2, PreflightedKnows DEF job
  <2>4. CASE step[aj.r] \in {"writing", "uncertain"}
    <3>1. Append(aj.r, "uncertain")
      BY <2>1, <2>4 DEF Refused
    <3>2. co[aj.r].work = "post" => aj.r \in landed
      BY <1>3, <2>1, <2>4 DEF CheckoutKnown
    <3> QED
      BY <1>3, <1>4, <2>1, <2>3, <3>1, <3>2, AppendKeeps DEF Steps
  <2>5. CASE step[aj.r] \notin {"writing", "uncertain"}
    <3>1. Append(aj.r, "conflict")
      BY <2>1, <2>5 DEF Refused
    <3>2. aj.r \notin wrote
      BY <1>3, <2>1, <2>5 DEF CheckoutKnown
    <3> QED
      BY <1>3, <2>1, <2>3, <3>1, <3>2, AppendKeeps DEF Steps
  <2> QED
    BY <2>4, <2>5
<1>11. CASE PreflightPasses
  <2> DEFINE job == [aj EXCEPT !.seen[aj.r] = co[aj.r].index,
                               !.prior[aj.r] = Prior(aj.r)]
  <2>1. /\ aj.at = "preflight" /\ aj.r \in changed
        /\ Inspect(aj.r, Prior(aj.r)) = "applicable"
        /\ Append(aj.r, "preflight")
        /\ aj' = Preflighted(job)
        /\ UNCHANGED <<recordVars, planned, landed, wrote>>
    BY <1>11 DEF PreflightPasses, Inspecting
  <2>2. co[aj.r].index \in Pre /\ Prior(aj.r) \in Pre
    BY <1>1, <1>3, <2>1 DEF Checkout, Pre, Prior, ApplyTypeOK
  <2>3. /\ job \in ApplyJob /\ job.at = "preflight" /\ job.r = aj.r
        /\ job.blocked = aj.blocked
    BY <1>1, <1>3, <2>1, <2>2 DEF ApplyJob
  <2>4. ApplyKnows'
    <3> HIDE DEF job
    <3> QED
      BY <1>5, <1>6, <2>1, <2>3, PreflightedKnows
  <2>5. co[aj.r].work = "base"
    BY <2>1 DEF Inspect
  <2>6. aj.r \notin wrote
    BY <1>3, <2>1, <2>5 DEF CheckoutKnown, Forward
  <2>7. CheckoutKnown' /\ LegacyKnown'
    BY <1>3, <2>1, <2>6, AppendKeeps DEF Steps
  <2> QED
    BY <1>3, <2>1, <2>4, <2>7
<1> QED
  BY <1>2, <1>7, <1>8, <1>9, <1>10, <1>11

(* The second half: the announced writes, the close of the Task, and the   *)
(* person's edits.                                                         *)
LEMMA WritesKeep ==
  ASSUME RecordsTypeOK, ApplyTypeOK, LegacyInvariant,
         \/ ApplyMarks \/ ApplyChecks \/ ApplyFindsChange \/ ApplyPatches
         \/ ApplySettles \/ ApplyCloses \/ ApplyIsLost \/ LegacyEdits
  PROVE  mode = "legacy" /\ UNCHANGED <<mode, closed, room>> /\ LegacyInvariant'
<1> USE DEF LegacyInvariant
<1>1. /\ step \in [Repos -> Steps] /\ aj \in ApplyJob
      /\ co \in [Repos -> Checkout]
  BY DEF ApplyTypeOK, RecordsTypeOK, Repos
<1>2. aj.at # "idle" => mode = "legacy" /\ closed = {}
  BY DEF ApplyKnows
<1>3. aj.at \in {"check", "patch", "ran", "failed"} =>
        /\ aj.r \in Repos /\ step[aj.r] = "writing" /\ room # "archived"
        /\ co[aj.r].work = "post" => aj.r \in landed
        /\ \A q \in Pending : q \in changed /\ (q # aj.r => step[q] = "preflight")
  BY <1>2 DEF ApplyKnows, LegacyKnown, CheckoutKnown
<1>4. aj' = NoApply => ApplyKnows'
  BY DEF ApplyKnows, NoApply
<1>5. UNCHANGED recordVars =>
        UNCHANGED <<mode, changed, closed, task, room, co>>
  BY DEF recordVars, resultVars
<1>6. CASE ApplyMarks
  <2> DEFINE r == NextRepo
  <2>1. /\ aj.at = "mark" /\ Append(r, "writing")
        /\ aj' = [aj EXCEPT !.at = "check", !.r = r]
        /\ landed' = IF co[r].work = "post" THEN landed \cup {r} ELSE landed
        /\ UNCHANGED <<recordVars, planned, wrote>>
    BY <1>6 DEF ApplyMarks
  <2>2. r \in Pending /\ r \in Repos
    BY <1>6, NextIsPending DEF ApplyMarks
  <2> HIDE DEF r
  <2>3. step[r] = "preflight" /\ r \in changed
    BY <2>1, <2>2 DEF ApplyKnows
  <2>4. r \notin wrote
    BY <2>2, <2>3 DEF CheckoutKnown
  <2>5. room # "archived"
    BY <1>2, <2>1, <2>2, <2>3 DEF LegacyKnown, Applied
  <2>6. CheckoutKnown' /\ LegacyKnown'
    BY <1>2, <2>1, <2>2, <2>4, <2>5, AppendKeeps DEF Steps
  <2>7. aj'.at = "check" /\ aj'.r = r
    BY <1>1, <2>1 DEF ApplyJob
  <2>8. step' = [step EXCEPT ![r] = "writing"]
    BY <2>1 DEF Append
  <2>9. \A q \in Pending' : /\ q \in Pending
                            /\ q # r => step'[q] = step[q]
    BY <1>1, <2>2, <2>3, <2>8 DEF Pending
  <2>10. step'[r] = "writing"
    BY <1>1, <2>2, <2>8
  <2>11. ApplyKnows'
    BY <1>2, <1>5, <2>1, <2>2, <2>4, <2>7, <2>9, <2>10 DEF ApplyKnows
  <2> QED
    BY <1>2, <1>5, <2>1, <2>6, <2>11
<1>7. CASE ApplyChecks
  <2>1. /\ aj.at = "check" /\ aj' = [aj EXCEPT !.at = "patch"]
        /\ UNCHANGED <<recordVars, planned, step, pre, landed, wrote>>
    BY <1>7 DEF ApplyChecks
  <2>2. aj'.at = "patch" /\ aj'.r = aj.r
    BY <1>1, <2>1 DEF ApplyJob
  <2>3. ApplyKnows'
    BY <1>5, <2>1, <2>2 DEF ApplyKnows, Pending
  <2>4. CheckoutKnown' /\ LegacyKnown'
    BY <1>5, <2>1 DEF CheckoutKnown, LegacyKnown, Applied
  <2> QED
    BY <1>2, <1>5, <2>1, <2>3, <2>4
<1>8. CASE ApplyFindsChange
  <2>1. /\ aj.at = "check" /\ aj' = NoApply
        /\ Append(aj.r, "uncertain") \/ Append(aj.r, "conflict")
        /\ UNCHANGED <<recordVars, planned, pre, landed, wrote>>
    BY <1>8 DEF ApplyFindsChange
  <2>2. aj.r \notin wrote
    BY <2>1 DEF ApplyKnows
  <2>3. CheckoutKnown' /\ LegacyKnown'
    BY <1>2, <1>3, <2>1, <2>2, AppendKeeps DEF Steps
  <2> QED
    BY <1>2, <1>4, <1>5, <2>1, <2>3
<1>9. ASSUME aj.at = "patch", NEW w \in GitApply(co[aj.r].work),
             Leaves(aj.r, w), UNCHANGED <<resultVars, step>>
      PROVE  CheckoutKnown' /\ LegacyKnown'
  <2>1. CheckoutKnown'
    BY <1>3, <1>9, LeavesKeeps DEF resultVars
  <2>2. LegacyKnown'
    BY <1>2, <1>9, <1>3 DEF LegacyKnown, Applied, resultVars
  <2> QED
    BY <2>1, <2>2
<1>10. CASE ApplyPatches
  <2>1. /\ aj.at = "patch" /\ UNCHANGED <<resultVars, step>>
        /\ aj' \in {[aj EXCEPT !.at = "ran"], [aj EXCEPT !.at = "failed"]}
    BY <1>10 DEF ApplyPatches
  <2>2. aj'.at \in {"ran", "failed"} /\ aj'.r = aj.r
    BY <1>1, <2>1 DEF ApplyJob
  <2>3. ApplyKnows'
    BY <1>2, <1>3, <2>1, <2>2 DEF ApplyKnows, Pending, resultVars
  <2>4. CheckoutKnown' /\ LegacyKnown'
    BY <1>9, <1>10, <2>1 DEF ApplyPatches
  <2> QED
    BY <1>2, <2>1, <2>3, <2>4 DEF resultVars
<1>11. CASE ApplySettles
  <2> DEFINE s == Outcome(aj.r)
  <2>1. /\ aj.at \in {"ran", "failed"} /\ Append(aj.r, s)
        /\ aj' = IF step'[aj.r] = "applied" THEN [aj EXCEPT !.at = "mark"]
                 ELSE NoApply
        /\ UNCHANGED <<recordVars, planned, pre, landed, wrote>>
    BY <1>11 DEF ApplySettles
  <2>2. /\ s \in {"applied", "conflict", "uncertain"}
        /\ s = "applied" => co[aj.r].work = "post"
        /\ s = "conflict" => co[aj.r].work = "base"
    BY DEF Outcome, IsExactly
  <2> HIDE DEF s
  <2>3. s = "conflict" => aj.r \notin wrote
    BY <1>3, <2>1, <2>2 DEF CheckoutKnown, Forward
  <2>4. CheckoutKnown' /\ LegacyKnown'
    BY <1>2, <1>3, <2>1, <2>2, <2>3, AppendKeeps DEF Steps
  <2>5. step' = [step EXCEPT ![aj.r] = s] /\ step'[aj.r] = s
    BY <1>1, <1>3, <2>1 DEF Append
  <2>6. CASE s = "applied"
    <3>1. aj'.at = "mark"
      BY <1>1, <2>1, <2>5, <2>6 DEF ApplyJob
    <3>2. \A q \in Pending' : q \in Pending /\ q # aj.r /\ step'[q] = step[q]
      BY <1>1, <2>5, <2>6 DEF Pending
    <3>3. ApplyKnows'
      BY <1>2, <1>3, <1>5, <2>1, <3>1, <3>2 DEF ApplyKnows
    <3> QED
      BY <1>2, <1>5, <2>1, <2>4, <3>3
  <2>7. CASE s # "applied"
    BY <1>2, <1>4, <1>5, <2>1, <2>4, <2>5, <2>7
  <2> QED
    BY <2>6, <2>7
<1>12. CASE ApplyCloses
  <2>1. /\ aj.at = "mark" /\ Pending = {} /\ aj' = NoApply
        /\ UNCHANGED <<mode, changed, closed, room, co, step, landed, wrote>>
    BY <1>12 DEF ApplyCloses, CloseTask, resultVars
  <2>2. changed \subseteq Applied
    BY <1>2, <2>1 DEF RecordsTypeOK, Entries, Pending, Applied, Repos
  <2>3. CheckoutKnown' /\ LegacyKnown'
    BY <2>1, <2>2 DEF CheckoutKnown, LegacyKnown, Applied
  <2> QED
    BY <1>2, <1>4, <2>1, <2>3
<1>13. CASE ApplyIsLost
  <2>1. aj.at # "idle" /\ aj' = NoApply /\ UNCHANGED <<resultVars, step>>
    BY <1>13 DEF ApplyIsLost
  <2>2. CheckoutKnown' /\ LegacyKnown'
    <3>1. CASE aj.at = "patch"
      BY <1>9, <1>13, <2>1, <3>1 DEF ApplyIsLost
    <3>2. CASE aj.at # "patch"
      BY <1>13, <2>1, <3>2 DEF ApplyIsLost, CheckoutKnown, LegacyKnown,
         Applied, resultVars
    <3> QED
      BY <3>1, <3>2
  <2> QED
    BY <1>2, <1>4, <2>1, <2>2 DEF resultVars
<1>14. ASSUME NEW r \in Repos, NEW c \in Checkout, LegacyEdit(r, c)
       PROVE  mode = "legacy" /\ UNCHANGED <<mode, closed, room>>
              /\ LegacyInvariant'
  <2>1. /\ mode = "legacy" /\ co' = [co EXCEPT ![r] = c]
        /\ UNCHANGED <<mode, changed, closed, task, room, step, aj>>
        /\ wrote' = IF c.work \in Forward THEN wrote \ {r} ELSE wrote
        /\ landed' = IF c.work = "post" /\ step[r] \in {"writing", "uncertain"}
                     THEN landed \cup {r} ELSE landed
    BY <1>14 DEF LegacyEdit, resultVars
  <2>2. co'[r] = c /\ \A q \in Repos : q # r => co'[q] = co[q]
    BY <1>1, <2>1
  <2>3. CheckoutKnown'
    <3> SUFFICES ASSUME NEW q \in Repos
                 PROVE  /\ q \in wrote' =>
                             /\ step[q] \in {"writing", "uncertain", "applied"}
                             /\ co'[q].work \notin Forward
                        /\ (step[q] \in {"writing", "uncertain"}
                              /\ co'[q].work = "post") => q \in landed'
                        /\ (step[q] = "applied" /\ q \in changed) =>
                             q \in landed'
      BY <2>1 DEF CheckoutKnown
    <3>1. CASE q = r
      BY <2>1, <2>2, <3>1 DEF CheckoutKnown
    <3>2. CASE q # r
      BY <2>1, <2>2, <3>2 DEF CheckoutKnown
    <3> QED
      BY <3>1, <3>2
  <2>4. wrote' \subseteq wrote
    BY <2>1
  <2>5. ApplyKnows'
    BY <2>1, <2>4 DEF ApplyKnows, Pending
  <2>6. LegacyKnown'
    BY <2>1, <2>4 DEF LegacyKnown, Applied
  <2> QED
    BY <2>1, <2>3, <2>5, <2>6
<1>15. CASE LegacyEdits
  BY <1>14, <1>15 DEF LegacyEdits
<1> QED
  BY <1>6, <1>7, <1>8, <1>10, <1>11, <1>12, <1>13, <1>15
-----------------------------------------------------------------------------
(***************************************************************************)
(* The one patch application.                                              *)
(***************************************************************************)
(* A save of the application.                                              *)
LEMMA SaveKeeps ==
  ASSUME PatchTypeOK, PatchKnown, mode = "patch", closed = {},
         UNCHANGED <<mode, closed, room, co, writer>>,
         NEW s \in Applications \ {"none"}, Save(s),
         app = "none" => s = "applying",
         s = "applied" => present,
         (s = "conflict" /\ writer) => doubted,
         task' = "closed" => s = "applied"
  PROVE  PatchKnown'
<1>1. /\ app' = s /\ doubted' = (doubted \/ s = "recovery_required")
      /\ present' = (present \/ (s = "applying" /\ Files \in Reverse))
      /\ room = "active" /\ Files' = Files
  BY DEF Save, Files
<1>2. app = "none" => ~writer /\ ~doubted
  BY DEF PatchKnown
<1>3. (app # "none" /\ Files \in Reverse) => present
  BY DEF PatchKnown
<1>4. writer => Files \notin Forward
  BY DEF PatchKnown
<1> QED
  BY <1>1, <1>2, <1>3, <1>4 DEF PatchKnown, PatchTypeOK

(* What git apply leaves behind.                                           *)
LEMMA PatchWritesKeep ==
  ASSUME RecordsTypeOK, PatchTypeOK, PatchKnown, PatchKnows, mode = "patch",
         pj.at = "patch", NEW w \in GitApply(Files), Writes(w),
         UNCHANGED resultVars, app' \in {app, "recovery_required"},
         doubted' = (doubted \/ app' = "recovery_required")
  PROVE  PatchKnown'
<1>1. /\ Files \in Works /\ 1 \in 1..RepoCount
      /\ co \in [1..RepoCount -> Checkout]
  BY RepoAssumption DEF RecordsTypeOK, Checkout, Files
<1>2. co' = [co EXCEPT ![1].work = w]
  BY DEF Writes
<1>3. Files' = w
  BY <1>1, <1>2 DEF Files, Checkout
<1>4. w # Files => w \notin Forward
  BY <1>1, GitApplyType
<1>5. app = "applying" /\ closed = {}
  BY DEF PatchKnows
<1>6. task # "closed" /\ room # "archived"
  BY <1>5 DEF PatchKnown
<1>7. /\ writer' = (writer \/ w # Files)
      /\ present' = (present \/ w \in Reverse)
      /\ UNCHANGED <<mode, closed, room, task>>
  BY DEF Writes, resultVars
<1> QED
  BY <1>3, <1>4, <1>5, <1>6, <1>7 DEF PatchKnown, PatchTypeOK

(* The command, its loss and the person's edits.                           *)
LEMMA PatchKeeps ==
  ASSUME RecordsTypeOK, PatchTypeOK, PatchInvariant, PatchNext
  PROVE  /\ mode = "patch" /\ UNCHANGED <<mode, changed, owner, closed, room>>
         /\ PatchInvariant'
<1> USE DEF PatchInvariant
<1>1. /\ Files \in Works /\ 1 \in 1..RepoCount
      /\ co \in [1..RepoCount -> Checkout] /\ pj \in PatchJob
      /\ app \in Applications /\ writer \in BOOLEAN /\ present \in BOOLEAN
      /\ doubted \in BOOLEAN
  BY RepoAssumption DEF RecordsTypeOK, PatchTypeOK, Checkout, Files
<1>2. UNCHANGED recordVars =>
        /\ UNCHANGED <<mode, changed, owner, closed, room, task, co>>
        /\ Files' = Files
  BY DEF recordVars, resultVars, Files
<1>3. pj.at # "idle" => mode = "patch" /\ closed = {} /\ app # "none"
                        /\ task # "closed" /\ room # "archived"
  <2>1. pj.at # "idle" => mode = "patch" /\ closed = {}
                          /\ app \in {"applying", "recovery_required"}
    BY DEF PatchKnows
  <2> QED
    BY <2>1 DEF PatchKnown
<1>4. pj' = NoPatch => PatchKnows'
  BY DEF PatchKnows, NoPatch
<1>5. Commanded => mode = "patch" /\ closed = {} /\ pj.at = "idle"
  BY DEF Commanded, WithoutClosure
<1>6. /\ Inspected \in [at : {"idle"}, verdict : {Verdict(prior)},
                        work : {Files}, frozen : {co[1].frozen},
                        index : {"base"}]
      /\ Verdict(prior) = "already" => Files \in Reverse
  BY DEF Inspected, NoPatch, Verdict
<1>7. ASSUME NEW job, job.verdict = "already" => present',
             job \in [at : {"idle", "retry"}, verdict : {"none", "applicable",
                      "already", "neither"}, work : Seen, frozen : BOOLEAN,
                      index : Indexes],
             pj' = Then(job), app' = "applying", mode' = "patch", closed' = {},
             writer' => doubted'
      PROVE  PatchKnows'
  <2>1. /\ pj'.at \in {"refuse", "credit", "check"}
        /\ pj'.at = "credit" => job.verdict = "already"
        /\ pj'.verdict = job.verdict
    BY <1>7 DEF Then
  <2> QED
    BY <1>7, <2>1 DEF PatchKnows
<1>8. Save("applying") => /\ app' = "applying" /\ (doubted => doubted')
                          /\ (Files \in Reverse \/ present) => present'
  BY DEF Save
<1>9. CASE PatchUnreadable
  <2>1. /\ Commanded /\ UNCHANGED <<recordVars, prior, based, writer>>
    BY <1>9 DEF PatchUnreadable
  <2>2. CASE UNCHANGED <<app, doubted, present, pj>>
    <3>1. PatchKnows' /\ PatchKnown'
      BY <1>2, <1>5, <2>1, <2>2 DEF PatchKnows, PatchKnown
    <3> QED
      BY <1>2, <1>5, <2>1, <3>1
  <2>3. CASE /\ app \in {"conflict", "recovery_required"} /\ Save("applying")
             /\ pj' = [NoPatch EXCEPT !.at = "refuse"]
    <3>1. task # "closed" /\ (writer => doubted)
      BY <1>5, <2>1, <2>3 DEF PatchKnown
    <3>2. PatchKnown'
      BY <1>2, <1>5, <2>1, <2>3, <3>1, SaveKeeps DEF Applications
    <3>3. pj'.at = "refuse"
      BY <2>3 DEF NoPatch
    <3>4. PatchKnows'
      BY <1>2, <1>5, <1>8, <2>1, <2>3, <3>1, <3>3 DEF PatchKnows
    <3> QED
      BY <1>2, <1>5, <2>1, <3>2, <3>4
  <2> QED
    BY <1>9, <2>2, <2>3 DEF PatchUnreadable
<1>10. Inspected \in [at : {"idle", "retry"}, verdict : {"none", "applicable",
                      "already", "neither"}, work : Seen, frozen : BOOLEAN,
                      index : Indexes]
       /\ Inspected.verdict = Verdict(prior)
  <2>1. Verdict(prior) \in {"none", "applicable", "already", "neither"}
    BY DEF Verdict
  <2>2. co[1].frozen \in BOOLEAN
    BY <1>1 DEF Checkout
  <2> QED
    BY <1>1, <2>1, <2>2 DEF Inspected, NoPatch, Seen, Indexes
<1>11. CASE PatchInserts
  <2>1. /\ Commanded /\ app = "none" /\ Save("applying")
        /\ pj' = Then(Inspected) /\ UNCHANGED <<recordVars, refused, writer>>
    BY <1>11 DEF PatchInserts
  <2>2. task # "closed" /\ ~writer
    BY <1>5, <2>1 DEF PatchKnown
  <2>3. PatchKnown'
    BY <1>2, <1>5, <2>1, <2>2, SaveKeeps DEF Applications
  <2>4. PatchKnows'
    BY <1>2, <1>5, <1>6, <1>7, <1>8, <1>10, <2>1, <2>2
  <2> QED
    BY <1>2, <1>5, <2>1, <2>3, <2>4
<1>12. CASE PatchTakesUp
  <2>1. /\ Commanded /\ app = "applying" /\ Save("recovery_required")
        /\ pj' = [Inspected EXCEPT !.at = "retry"]
        /\ UNCHANGED <<recordVars, prior, based, refused, writer>>
    BY <1>12 DEF PatchTakesUp
  <2>2. task # "closed"
    BY <1>5, <2>1 DEF PatchKnown
  <2>3. PatchKnown'
    BY <1>2, <1>5, <2>1, <2>2, SaveKeeps DEF Applications
  <2>4. /\ pj'.at = "retry" /\ pj'.verdict = Verdict(prior)
        /\ app' = "recovery_required" /\ (present => present')
    BY <1>10, <2>1 DEF Save
  <2>5. Verdict(prior) = "already" => present
    BY <1>6, <2>1 DEF PatchKnown
  <2>6. PatchKnows'
    BY <1>2, <1>5, <2>1, <2>4, <2>5 DEF PatchKnows
  <2> QED
    BY <1>2, <1>5, <2>1, <2>3, <2>6
<1>13. CASE PatchRetries
  <2>1. /\ Save("applying")
        /\ UNCHANGED <<recordVars, prior, based, refused, writer>>
        /\ \/ pj.at = "retry" /\ pj' = Then(pj)
           \/ /\ Commanded /\ app \in {"conflict", "recovery_required"}
              /\ pj' = Then(Inspected)
    BY <1>13 DEF PatchRetries
  <2>2. /\ mode = "patch" /\ closed = {}
        /\ app \in {"conflict", "recovery_required"}
    BY <1>3, <1>5, <2>1 DEF PatchKnows
  <2>3. task # "closed" /\ (writer => doubted)
    BY <2>2 DEF PatchKnown
  <2>4. PatchKnown'
    BY <1>2, <2>1, <2>2, <2>3, SaveKeeps DEF Applications
  <2>5. CASE pj.at = "retry" /\ pj' = Then(pj)
    <3>1. pj.verdict = "already" => present
      BY <2>5 DEF PatchKnows
    <3>2. pj \in [at : {"idle", "retry"}, verdict : {"none", "applicable",
                  "already", "neither"}, work : Seen, frozen : BOOLEAN,
                  index : Indexes]
      BY <1>1, <2>5 DEF PatchJob
    <3> QED
      BY <1>2, <1>7, <1>8, <2>1, <2>2, <2>3, <2>4, <2>5, <3>1, <3>2
  <2>6. CASE pj' = Then(Inspected)
    BY <1>2, <1>6, <1>7, <1>8, <1>10, <2>1, <2>2, <2>3, <2>4, <2>6
  <2> QED
    BY <2>1, <2>5, <2>6
<1>14. CASE PatchMovedHead
  <2>1. /\ pj.at = "retry" /\ pj' = NoPatch
        /\ UNCHANGED <<recordVars, app, writer, present, doubted>>
    BY <1>14 DEF PatchMovedHead
  <2>2. PatchKnown'
    BY <1>2, <2>1 DEF PatchKnown
  <2> QED
    BY <1>2, <1>3, <1>4, <2>1, <2>2
<1>15. CASE PatchRefuses
  <2>1. /\ pj.at = "refuse" /\ Save("conflict") /\ pj' = NoPatch
        /\ UNCHANGED <<recordVars, writer>>
    BY <1>15 DEF PatchRefuses
  <2>2. writer => doubted
    BY <2>1 DEF PatchKnows
  <2>3. PatchKnown'
    BY <1>2, <1>3, <2>1, <2>2, SaveKeeps DEF Applications
  <2> QED
    BY <1>2, <1>3, <1>4, <2>1, <2>3
<1>16. CASE PatchChecks
  <2>1. pj.at = "check" /\ UNCHANGED <<recordVars, writer>>
    BY <1>16 DEF PatchChecks
  <2>2. writer => doubted
    BY <2>1 DEF PatchKnows
  <2>3. CASE /\ Same /\ pj' = [pj EXCEPT !.at = "patch", !.index = co[1].index]
             /\ UNCHANGED <<app, doubted, present>>
    <3>1. pj'.at = "patch" /\ pj'.work = pj.work
      BY <1>1, <2>3 DEF PatchJob
    <3>2. app = "applying" /\ pj.work \in Forward
      BY <2>1, <2>3 DEF Same, PatchKnows
    <3>3. PatchKnows'
      BY <1>2, <1>3, <2>1, <2>2, <2>3, <3>1, <3>2 DEF PatchKnows
    <3>4. PatchKnown'
      BY <1>2, <2>1, <2>3 DEF PatchKnown
    <3> QED
      BY <1>2, <1>3, <2>1, <3>3, <3>4
  <2>4. CASE Save("conflict") /\ pj' = NoPatch
    <3>1. PatchKnown'
      BY <1>2, <1>3, <2>1, <2>2, <2>4, SaveKeeps DEF Applications
    <3> QED
      BY <1>2, <1>3, <1>4, <2>1, <2>4, <3>1
  <2> QED
    BY <1>16, <2>3, <2>4 DEF PatchChecks
<1>17. CASE PatchPatches
  <2>1. /\ pj.at = "patch" /\ UNCHANGED <<resultVars, app, doubted>>
        /\ pj' \in {[pj EXCEPT !.at = "ran"], [pj EXCEPT !.at = "failed"]}
    BY <1>17 DEF PatchPatches
  <2>2. app = "applying"
    BY <2>1 DEF PatchKnows
  <2>3. PatchKnown'
    <3>1. app' # "recovery_required"
      BY <2>1, <2>2
    <3>2. doubted' = (doubted \/ app' = "recovery_required")
      BY <1>1, <2>1, <3>1, Zenon
    <3> QED
      BY <1>3, <1>17, <2>1, <3>2, PatchWritesKeep DEF PatchPatches
  <2>4. pj'.at \in {"ran", "failed"} /\ pj'.work = pj.work
    BY <1>1, <2>1 DEF PatchJob
  <2>5. PatchKnows'
    BY <1>3, <2>1, <2>2, <2>4 DEF PatchKnows, resultVars
  <2> QED
    BY <1>3, <2>1, <2>3, <2>5 DEF resultVars
<1>18. CASE PatchApplied
  <2>1. /\ pj.at \in {"credit", "ran"} /\ Save("applied") /\ CloseTask
        /\ pj.at = "ran" => Proven
        /\ pj' = NoPatch /\ UNCHANGED <<co, writer>>
    BY <1>18 DEF PatchApplied
  <2>2. UNCHANGED <<mode, changed, owner, closed, room>>
    BY <2>1 DEF CloseTask
  <2>3. pj.at = "credit" => present
    BY DEF PatchKnows
  <2>4. pj.at = "ran" => present
    BY <1>3, <2>1 DEF Proven, PatchKnown
  <2>5. present
    BY <2>1, <2>3, <2>4
  <2>6. PatchKnown'
    BY <1>3, <2>1, <2>2, <2>5, SaveKeeps DEF Applications
  <2> QED
    BY <1>3, <1>4, <2>1, <2>2, <2>6
<1>19. CASE PatchFails
  <2>1. /\ pj.at \in {"ran", "failed"} /\ pj' = NoPatch
        /\ UNCHANGED <<recordVars, writer>>
        /\ Save("recovery_required") \/ (FailedClean /\ Save("conflict"))
    BY <1>19 DEF PatchFails
  <2>2. FailedClean => ~writer
    BY <2>1 DEF FailedClean, PatchKnows, PatchKnown
  <2>3. PatchKnown'
    BY <1>2, <1>3, <2>1, <2>2, SaveKeeps DEF Applications
  <2> QED
    BY <1>2, <1>3, <1>4, <2>1, <2>3
<1>20. CASE PatchIsLost
  <2>1. /\ pj.at # "idle" /\ pj' = NoPatch
        /\ UNCHANGED <<resultVars, app, doubted>>
    BY <1>20 DEF PatchIsLost
  <2>2. CASE pj.at = "patch"
    <3>1. app = "applying"
      BY <2>2 DEF PatchKnows
    <3>2. app' # "recovery_required"
      BY <2>1, <3>1
    <3>3. doubted' = (doubted \/ app' = "recovery_required")
      BY <1>1, <2>1, <3>2, Zenon
    <3>4. PatchKnown'
      BY <1>3, <1>20, <2>1, <2>2, <3>3, PatchWritesKeep DEF PatchIsLost
    <3> QED
      BY <1>3, <1>4, <2>1, <3>4 DEF resultVars
  <2>3. CASE pj.at # "patch"
    <3>1. UNCHANGED <<co, writer, present>>
      BY <1>20, <2>3 DEF PatchIsLost
    <3>2. PatchKnown'
      BY <2>1, <3>1 DEF PatchKnown, resultVars, Files
    <3> QED
      BY <1>3, <1>4, <2>1, <3>2 DEF resultVars
  <2> QED
    BY <2>2, <2>3
<1>21. CASE PatchRestart
  <2>1. /\ mode = "patch" /\ app = "applying" /\ pj' = NoPatch
        /\ app' = "recovery_required" /\ doubted' = TRUE /\ UNCHANGED resultVars
    BY <1>21 DEF PatchRestart
  <2>2. CASE pj.at = "patch"
    <3>1. PatchKnown'
      BY <1>21, <2>1, <2>2, PatchWritesKeep DEF PatchRestart
    <3> QED
      BY <1>4, <2>1, <3>1 DEF resultVars
  <2>3. CASE pj.at # "patch"
    <3>1. UNCHANGED <<co, writer, present>>
      BY <1>21, <2>3 DEF PatchRestart
    <3>2. PatchKnown'
      BY <2>1, <3>1 DEF PatchKnown, resultVars, Files
    <3> QED
      BY <1>4, <2>1, <3>2 DEF resultVars
  <2> QED
    BY <2>2, <2>3
<1>22. CASE PatchEdits
  <2>1. /\ mode = "patch"
        /\ UNCHANGED <<resultVars, app, pj, doubted>>
    BY <1>22 DEF PatchEdits
  <2>2. PICK c \in Checkout :
          /\ co' = [co EXCEPT ![1] = c]
          /\ writer' = (writer /\ c.work \notin Forward)
          /\ present' = (present \/ (app # "none" /\ c.work \in Reverse))
    BY <1>22 DEF PatchEdits
  <2>3. Files' = c.work
    BY <1>1, <2>2 DEF Files
  <2>4. PatchKnown'
    BY <2>1, <2>2, <2>3 DEF PatchKnown, resultVars
  <2>5. PatchKnows'
    BY <2>1, <2>2 DEF PatchKnows, resultVars
  <2> QED
    BY <2>1, <2>4, <2>5 DEF resultVars
<1> QED
  BY <1>9, <1>11, <1>12, <1>13, <1>14, <1>15, <1>16, <1>17, <1>18, <1>19,
     <1>20, <1>21, <1>22 DEF PatchNext
-----------------------------------------------------------------------------
(***************************************************************************)
(* Delivery from the Task branch.                                          *)
(***************************************************************************)
(* A successful operation stays one while an uncertain one moves.          *)
LEMMA DoneGrows ==
  ASSUME NEW o \in Uncertain, \A p \in Ops : ops'[p].kind = ops[p].kind,
         \A p \in Ops \ {o} : ops'[p] = ops[p], NEW k
  PROVE  Done(k) \subseteq Done(k)'
BY DEF Done, Is, Uncertain, Unsure

(* An uncertain operation starts its side effect, stays open or is settled.*)
LEMMA OperationMoves ==
  ASSUME OperationsKnown, NEW o \in Uncertain,
         \A p \in Ops : ops'[p].kind = ops[p].kind,
         \A p \in Ops \ {o} : ops'[p] = ops[p] /\ sent'[p] = sent[p],
         ops'[o].state \in Unsure \cup {"succeeded", "failed"},
         sent'[o] <= 1, made' \subseteq made \cup {o}, UNCHANGED stirred,
         misread \subseteq misread',
         ops'[o].state = "failed" =>
           CASE ops[o].kind = "commit" -> o \notin made' \ (stirred \cup misread')
             [] ops[o].kind = "push" -> TRUE
             [] OTHER -> sent'[o] = 0
  PROVE  OperationsKnown' /\ Uncertain' \subseteq Uncertain
<1>1. o \in Ops /\ ops[o].state \in Unsure
  BY DEF Uncertain
<1>2. \A k : Done(k) \subseteq Done(k)'
  BY DoneGrows
<1>3. Uncertain' \subseteq Uncertain
  BY <1>1 DEF Uncertain
<1>4. \A p, q \in Uncertain' : p = q
  BY <1>3 DEF OperationsKnown
<1>5. \A p \in Ops : \/ ops'[p] = NoOp
                     \/ ops'[p].kind \in Kinds /\ ops'[p].state \in States
  <2>1. ops'[o].kind \in Kinds /\ ops'[o].state \in States
    BY <1>1 DEF OperationsKnown, Unsure, States, NoOp
  <2> QED
    BY <2>1 DEF OperationsKnown
<1>6. /\ \A p \in Ops : sent'[p] <= 1
      /\ \A p \in Ops : ops'[p].state \in {"none", "preview"} => sent'[p] = 0
  BY <1>1 DEF OperationsKnown, Unsure
<1>7. \A p \in Ops : ops'[p].state = "failed" =>
        CASE ops'[p].kind = "commit" -> p \notin made' \ (stirred \cup misread)'
          [] ops'[p].kind = "push" -> TRUE
          [] OTHER -> sent'[p] = 0
  <2> SUFFICES ASSUME NEW p \in Ops, ops'[p].state = "failed"
               PROVE  CASE ops'[p].kind = "commit" -> p \notin made' \ (stirred \cup misread)'
                        [] ops'[p].kind = "push" -> TRUE
                        [] OTHER -> sent'[p] = 0
    OBVIOUS
  <2>1. CASE p = o
    BY <2>1
  <2>2. CASE p # o
    <3>1. /\ ops[p].state = "failed" /\ ops[p].kind = ops'[p].kind
          /\ sent'[p] = sent[p] /\ (p \in made' => p \in made)
      BY <2>2
    <3>2. (CASE ops[p].kind = "commit" -> p \notin made \ (stirred \cup misread)
             [] ops[p].kind = "push" -> TRUE
             [] OTHER -> sent[p] = 0)
      BY <3>1 DEF OperationsKnown
    <3> QED
      BY <3>1, <3>2
  <2> QED
    BY <2>1, <2>2
<1>8. \A p, q \in Ops : (/\ ops'[p].kind = "pr" /\ ops'[q].kind = "pr"
                         /\ ops'[p].state \in Started
                         /\ ops'[q].state \in Started) => p = q
  <2>1. ops[o].state \in Started
    BY <1>1 DEF Started
  <2>2. \A p \in Ops : ops'[p].state \in Started => ops[p].state \in Started
    BY <2>1
  <2> QED
    BY <2>2 DEF OperationsKnown
<1>9. \A p \in Ops :
        /\ ops'[p].kind = "push" => Done("commit")' # {}
        /\ ops'[p].kind \in {"pr", "merge"} => Done("push")' # {}
        /\ ops'[p].kind \in {"merge", "cleanup"} => Done("pr")' # {}
  BY <1>2 DEF OperationsKnown
<1> QED
  BY <1>3, <1>4, <1>5, <1>6, <1>7, <1>8, <1>9 DEF OperationsKnown

(* What the Room and the closure say of the operations.                    *)
LEMMA BranchKeeps ==
  ASSUME BranchKnown, mode = "branch", UNCHANGED resultVars,
         \A p \in Ops : ops'[p].kind = ops[p].kind,
         \A p \in Ops : ops'[p].state = ops[p].state \/ ops[p].state \in Unsure,
         Uncertain' \subseteq Uncertain,
         lost' => lost \/ closed # {},
         MergedOnHost => MergedOnHost', ref # "base" => ref' # "base",
         tree' = "gone" /\ closed = {} =>
           tree = "gone" \/ (MergedOnHost /\ ref # "base")
  PROVE  BranchKnown'
<1>1. UNCHANGED <<mode, task, room, closed>>
  BY DEF resultVars
<1>2. /\ lost' => closed # {}
      /\ \A o \in Ops : ops'[o].kind = "discard" => closed # {}
      /\ task = "open" /\ (room = "archived" => Uncertain' = {})
  BY DEF BranchKnown
<1>3. CleanupKeepsWork'
  BY <1>1, <1>2 DEF BranchKnown, CleanupKeepsWork
<1>4. closed # {} =>
       \A o \in Ops : /\ ops'[o].state \in Unsure => ops'[o].kind = "discard"
                      /\ ops'[o].state = "succeeded" =>
                           ops'[o].kind \in {"cleanup", "discard"}
  <2> SUFFICES ASSUME closed # {}, NEW o \in Ops
               PROVE  /\ ops'[o].state \in Unsure => ops'[o].kind = "discard"
                      /\ ops'[o].state = "succeeded" =>
                           ops'[o].kind \in {"cleanup", "discard"}
    OBVIOUS
  <2>1. /\ ops[o].state \in Unsure => ops[o].kind = "discard"
        /\ ops[o].state = "succeeded" => ops[o].kind \in {"cleanup", "discard"}
    BY DEF BranchKnown
  <2> QED
    BY <2>1
<1> QED
  BY <1>1, <1>2, <1>3, <1>4 DEF BranchKnown

(* The effect of a call at the remote.                                     *)
LEMMA EffectKeeps ==
  ASSUME DeliveryTypeOK, OperationsKnown, RemoteKnown, NEW o \in Ops,
         Effect(o), prs[o] = "none", sent'[o] > 0,
         \A p \in Ops : ops'[p].kind = ops[p].kind,
         \A p \in Ops \ {o} : sent'[p] = sent[p],
         late' \subseteq late \ {o}
  PROVE  RemoteKnown' /\ (MergedOnHost => MergedOnHost')
<1>1. /\ prs \in [0..MaxOps -> {"none", "open", "closed", "merged"}]
      /\ Ops \subseteq 0..MaxOps /\ 0 \in 0..MaxOps
      /\ late \subseteq Ops
  BY OpsAssumption DEF DeliveryTypeOK, Ops
<1>2. \A p \in Ops : sent[p] > 0 => sent'[p] > 0
  OBVIOUS
<1>3. \A p \in late' : /\ p \in Ops \ {o} /\ prs[p] = "none"
                       /\ ops'[p].kind \in Remotely /\ sent'[p] > 0
  <2> SUFFICES ASSUME NEW p \in late'
               PROVE  /\ p \in Ops \ {o} /\ prs[p] = "none"
                      /\ ops'[p].kind \in Remotely /\ sent'[p] > 0
    OBVIOUS
  <2>1. p \in late /\ p # o /\ p \in Ops
    BY <1>1
  <2> QED
    BY <1>2, <2>1 DEF RemoteKnown
<1>4. \A p \in Ops : prs[p] # "none" => ops'[p].kind = "pr" /\ sent'[p] > 0
  BY <1>2 DEF RemoteKnown
<1>5. (\E p \in Ops : ops[p].kind = "push") =>
        \E p \in Ops : ops'[p].kind = "push"
  OBVIOUS
<1>6. CASE UNCHANGED <<remote, prs>>
  BY <1>6, <1>3, <1>4, <1>5 DEF RemoteKnown, MergedOnHost
<1>7. CASE ops[o].kind = "push" /\ remote' = "commit" /\ prs' = prs
  BY <1>7, <1>3, <1>4, <1>5 DEF RemoteKnown, MergedOnHost
<1>8. CASE /\ ops[o].kind = "pr" /\ remote' = remote
           /\ prs' = [prs EXCEPT ![o] = "open"]
  <2>1. prs'[o] = "open" /\ \A p \in (0..MaxOps) \ {o} : prs'[p] = prs[p]
    BY <1>1, <1>8
  <2>2. RemoteKnown'
    BY <1>1, <1>8, <1>3, <1>4, <1>5, <2>1 DEF RemoteKnown
  <2>3. MergedOnHost => MergedOnHost'
    BY <1>1, <2>1 DEF MergedOnHost
  <2> QED
    BY <2>2, <2>3
<1>9. CASE /\ ops[o].kind = "merge" /\ remote' = remote
           /\ prs[Creator] = "open" /\ prs' = [prs EXCEPT ![Creator] = "merged"]
  <2>1. Done("pr") # {}
    BY <1>9 DEF OperationsKnown
  <2>2. Creator \in Ops
    BY <2>1 DEF Creator, Done
  <2> DEFINE c == Creator
  <2> HIDE DEF c
  <2>3. /\ c \in Ops /\ prs[c] = "open" /\ prs'[c] = "merged"
        /\ \A p \in (0..MaxOps) \ {c} : prs'[p] = prs[p]
    BY <1>1, <1>9, <2>2 DEF c
  <2>4. RemoteKnown'
    BY <1>1, <1>9, <1>3, <1>4, <1>5, <2>3 DEF RemoteKnown
  <2>5. MergedOnHost'
    BY <1>1, <2>3 DEF MergedOnHost
  <2> QED
    BY <2>4, <2>5
<1> QED
  BY <1>6, <1>7, <1>8, <1>9, EffectCases

(* The remote is not touched.                                              *)
LEMMA RemoteStays ==
  ASSUME DeliveryTypeOK, RemoteKnown, UNCHANGED <<remote, prs>>,
         \A p \in Ops : ops'[p].kind = ops[p].kind,
         \A p \in Ops : sent[p] > 0 => sent'[p] > 0,
         \A p \in late' \ late : /\ ops[p].kind \in Remotely /\ sent'[p] > 0
                                 /\ prs[p] = "none",
         late' \subseteq Ops
  PROVE  RemoteKnown' /\ (MergedOnHost => MergedOnHost')
BY DEF RemoteKnown, MergedOnHost, DeliveryTypeOK

(* One uncertain operation moves, and with it what it did.                 *)
Moves(o) ==
  /\ \A p \in Ops : ops'[p].kind = ops[p].kind
  /\ \A p \in Ops \ {o} : ops'[p] = ops[p] /\ sent'[p] = sent[p]
  /\ ops'[o].state \in Unsure \cup {"succeeded", "failed"}
  /\ sent'[o] <= 1 /\ (sent[o] > 0 => sent'[o] > 0)
  /\ UNCHANGED stirred /\ misread \subseteq misread'
  /\ ops'[o].state = "failed" =>
       CASE ops[o].kind = "commit" -> o \notin made' \ (stirred \cup misread')
         [] ops[o].kind = "push" -> TRUE
         [] OTHER -> sent'[o] = 0

(* The branch part after such a move, given what it did to the world.      *)
LEMMA MoveKeeps ==
  ASSUME DeliveryTypeOK, BranchInvariant, mode = "branch", UNCHANGED resultVars,
         NEW o \in Uncertain, Moves(o), ConfirmKnows', RemoteKnown',
         \/ UNCHANGED made
         \/ made' = made \cup {o} /\ ops[o].kind = "commit" /\ sent'[o] > 0,
         (o \in made' \ stirred /\ o \in Uncertain') => OnBranch' /\ ref' # "base",
         lost' => lost \/ closed # {},
         MergedOnHost => MergedOnHost', ref # "base" => ref' # "base",
         tree' = "gone" /\ closed = {} =>
           tree = "gone" \/ (MergedOnHost /\ ref # "base")
  PROVE  BranchInvariant'
<1> USE DEF BranchInvariant
<1>1. OperationsKnown' /\ Uncertain' \subseteq Uncertain
  BY OperationMoves DEF Moves
<1>2. o \in Ops /\ ops[o].state \in Unsure
  BY DEF Uncertain
<1>3. BranchKnown'
  BY <1>1, <1>2, BranchKeeps DEF Moves
<1>4. MadeKnown'
  <2>1. \A p \in made' : ops'[p].kind = "commit" /\ sent'[p] > 0
    <3> SUFFICES ASSUME NEW p \in made'
                 PROVE  ops'[p].kind = "commit" /\ sent'[p] > 0
      OBVIOUS
    <3>1. p \in Ops
      BY <1>2 DEF DeliveryTypeOK
    <3>2. CASE p = o
      BY <1>2, <3>2 DEF Moves, EffectsKnown, MadeKnown
    <3>3. CASE p # o
      BY <3>1, <3>3 DEF Moves, EffectsKnown, MadeKnown
    <3> QED
      BY <3>2, <3>3
  <2>2. \A p \in Uncertain' : p = o
    BY <1>1 DEF OperationsKnown
  <2>3. stirred' = stirred
    BY DEF Moves
  <2> QED
    BY <2>1, <2>2, <2>3 DEF MadeKnown
<1> QED
  BY <1>1, <1>3, <1>4 DEF EffectsKnown

(* The confirmation under way and its settlement.                          *)
LEMMA ConfirmIsUncertain ==
  ASSUME BranchInvariant, dj.at # "idle"
  PROVE  /\ dj.op \in Ops /\ dj.op \in Uncertain /\ mode = "branch"
         /\ Kind \in Kinds /\ ops[dj.op].state = "writing"
<1>1. /\ dj.op \in Ops /\ Kind \in Kinds /\ ops[dj.op].state = "writing"
  BY DEF BranchInvariant, ConfirmKnows
<1>2. mode = "branch"
  BY <1>1 DEF BranchInvariant, BranchKnown, NoOp
<1> QED
  BY <1>1, <1>2 DEF Uncertain, Unsure

(* Settling changes the one operation and ends the confirmation.           *)
LEMMA SettleMoves ==
  ASSUME DeliveryTypeOK, dj.op \in Ops, NEW s, Settle(s)
  PROVE  /\ \A p \in Ops : ops'[p].kind = ops[p].kind
         /\ \A p \in Ops \ {dj.op} : ops'[p] = ops[p]
         /\ ops'[dj.op].state = s /\ ConfirmKnows'
<1>1. ops \in [Ops -> Operation] /\ dj'.at = "idle"
  BY DEF DeliveryTypeOK, Settle, NoConfirm
<1>2. ops' = [ops EXCEPT ![dj.op].state = s,
                ![dj.op].merged = s = "succeeded" /\ Recorded(dj.op)]
  BY DEF Settle
<1> DEFINE b == s = "succeeded" /\ Recorded(dj.op)
<1> HIDE DEF b
<1>3. ops' = [ops EXCEPT ![dj.op].state = s, ![dj.op].merged = b]
  BY <1>2 DEF b
<1>4. /\ \A p \in Ops : ops'[p].kind = ops[p].kind
      /\ \A p \in Ops \ {dj.op} : ops'[p] = ops[p]
      /\ ops'[dj.op].state = s
  BY <1>1, <1>3 DEF Operation
<1> QED
  BY <1>1, <1>4 DEF ConfirmKnows

(* The effect has been started.                                            *)
LEMMA StartsOnce ==
  ASSUME DeliveryTypeOK, dj.op \in Ops, sent[dj.op] = 0, Starts
  PROVE  /\ sent'[dj.op] = 1
         /\ \A p \in Ops \ {dj.op} : sent'[p] = sent[p]
BY DEF DeliveryTypeOK, Starts

(* The checks before the side effect.                                      *)
LEMMA ChecksKeep ==
  ASSUME DeliveryTypeOK, BranchInvariant,
         ConfirmChecks \/ CheckFails \/ CommitLocks
  PROVE  mode = "branch" /\ UNCHANGED resultVars /\ BranchInvariant'
<1> DEFINE o == dj.op
<1>1. dj.at \in {"check", "lock"}
  BY DEF ConfirmChecks, CheckFails, CommitLocks, At
<1>2. /\ o \in Uncertain /\ o \in Ops /\ mode = "branch" /\ Kind \in Kinds
      /\ ops[o].state = "writing"
  BY <1>1, ConfirmIsUncertain
<1>3. sent[o] = 0
  BY <1>1 DEF BranchInvariant, ConfirmKnows
<1>4. o \notin made
  BY <1>3 DEF BranchInvariant, EffectsKnown, MadeKnown
<1>5. UNCHANGED <<resultVars, tree, head, ref, idx, remote, prs, late, ghostVars>>
  BY DEF ConfirmChecks, CheckFails, CommitLocks, recordVars, worldVars
<1>6. RemoteKnown' /\ (MergedOnHost => MergedOnHost')
  <2>1. \A p \in Ops : ops'[p].kind = ops[p].kind
    BY <1>2, SettleMoves DEF ConfirmChecks, CheckFails, CommitLocks
  <2> QED
    BY <1>5, <2>1, RemoteStays DEF ghostVars, BranchInvariant, EffectsKnown,
       DeliveryTypeOK
<1>7. ASSUME /\ \A p \in Ops : ops'[p].kind = ops[p].kind
             /\ \A p \in Ops \ {o} : ops'[p] = ops[p]
             /\ ops'[o].state \in Unsure \cup {"succeeded", "failed"}
             /\ ConfirmKnows'
      PROVE  BranchInvariant'
  <2>1. Moves(o)
    BY <1>3, <1>4, <1>5, <1>7 DEF Moves, ghostVars
  <2> QED
    BY <1>2, <1>4, <1>5, <1>6, <1>7, <2>1, MoveKeeps DEF ghostVars
<1>8. ASSUME NEW s \in {"failed", "succeeded", "recovery_required"}, Settle(s)
      PROVE  BranchInvariant'
  BY <1>2, <1>7, <1>8, SettleMoves DEF Unsure
<1>9. ASSUME UNCHANGED ops, NEW phase \in {"lock", "mutate"}, To(phase),
             phase = "lock" => Kind = "commit", Kind = "commit" => OnBranch,
             Kind = "cleanup" => ref # "base"
      PROVE  BranchInvariant'
  <2>1. dj'.at = phase /\ dj'.op = dj.op
    BY <1>9 DEF To, DeliveryTypeOK, Confirm
  <2>2. /\ Kind = "discard" => closed # {}
        /\ Kind # "discard" => closed = {}
        /\ Kind = "cleanup" => MergedOnHost
    BY <1>1 DEF BranchInvariant, ConfirmKnows
  <2>3. Kind' = Kind /\ OnBranch' = OnBranch
    BY <1>5, <1>9, <2>1 DEF Kind, OnBranch
  <2>4. ConfirmKnows'
    BY <1>2, <1>3, <1>5, <1>6, <1>9, <2>1, <2>2, <2>3
    DEF ConfirmKnows, ghostVars, resultVars
  <2> QED
    BY <1>2, <1>7, <1>9, <2>4 DEF Unsure
<1>10. CASE ConfirmChecks
  <2>1. CASE Settle("failed") \/ Settle("succeeded")
    BY <1>2, <1>5, <1>8, <2>1
  <2>2. CASE /\ Fresh(dj.op) /\ To(IF Kind = "commit" THEN "lock" ELSE "mutate")
             /\ UNCHANGED ops
    <3>1. Kind = "commit" => OnBranch
      BY <2>2 DEF Fresh, Kind, CommitReady, Reviewed
    <3>2. Kind = "cleanup" => ref # "base"
      BY <2>2 DEF Fresh, Kind, CleanupReady
    <3> QED
      BY <1>2, <1>5, <1>9, <2>2, <3>1, <3>2
  <2> QED
    BY <1>10, <2>1, <2>2 DEF ConfirmChecks
<1>11. CASE CheckFails
  BY <1>2, <1>5, <1>8, <1>11 DEF CheckFails, Unread
<1>12. CASE CommitLocks
  <2>1. dj.at = "lock" /\ Kind = "commit"
    BY <1>12 DEF CommitLocks, At
  <2>2. CASE Settle("failed")
    BY <1>2, <1>5, <1>8, <2>2
  <2>3. CASE To("mutate") /\ UNCHANGED ops
    <3>1. dj'.at = "mutate" /\ dj'.op = dj.op
      BY <2>3 DEF To, DeliveryTypeOK, Confirm
    <3>2. Kind' = "commit" /\ OnBranch' = OnBranch
      BY <1>5, <2>1, <2>3, <3>1 DEF Kind, OnBranch
    <3>3. closed = {} /\ (o \notin stirred => OnBranch)
      BY <2>1 DEF BranchInvariant, ConfirmKnows
    <3>4. ConfirmKnows'
      BY <1>2, <1>3, <1>5, <2>1, <2>3, <3>1, <3>2, <3>3
      DEF ConfirmKnows, ghostVars, resultVars
    <3> QED
      BY <1>2, <1>5, <1>7, <2>3, <3>4 DEF Unsure
  <2> QED
    BY <1>12, <2>2, <2>3 DEF CommitLocks
<1> QED
  BY <1>10, <1>11, <1>12

(* git commit, its proof, and the loss of either.                          *)
LEMMA CommitKeeps ==
  ASSUME DeliveryTypeOK, BranchInvariant,
         CommitWrites \/ CommitProves \/ (ConfirmIsLost /\ LostCommit)
  PROVE  mode = "branch" /\ UNCHANGED resultVars /\ BranchInvariant'
<1> DEFINE o == dj.op
<1>1. dj.at \in {"mutate", "prove"} /\ Kind = "commit"
  BY DEF CommitWrites, CommitProves, LostCommit, At
<1>2. /\ o \in Uncertain /\ o \in Ops /\ mode = "branch"
      /\ ops[o].state = "writing" /\ ops[o].kind = "commit"
  BY <1>1, ConfirmIsUncertain DEF Kind
<1>3. /\ closed = {} /\ (o \notin stirred => OnBranch)
      /\ dj.at = "mutate" => sent[o] = 0
  BY <1>1 DEF BranchInvariant, ConfirmKnows
<1>4. UNCHANGED <<resultVars, head, remote, prs, late, stirred, misread, lost>>
  BY DEF CommitWrites, CommitProves, ConfirmIsLost, LostCommit, recordVars,
     ghostVars
<1>5. ASSUME /\ \A p \in Ops : ops'[p].kind = ops[p].kind
             /\ \A p \in Ops \ {o} : ops'[p] = ops[p]
             /\ ConfirmKnows'
             /\ ops'[o].state \in Unsure \cup {"succeeded", "failed"}
             /\ ops'[o].state = "failed" => o \notin made' \ stirred
             /\ \A p \in Ops \ {o} : sent'[p] = sent[p]
             /\ sent'[o] <= 1 /\ (sent[o] > 0 => sent'[o] > 0)
             /\ UNCHANGED made \/ (made' = made \cup {o} /\ sent'[o] > 0)
             /\ o \in made' \ stirred => OnBranch' /\ ref' # "base"
             /\ ref # "base" => ref' # "base"
             /\ tree' = "gone" => tree = "gone"
      PROVE  BranchInvariant'
  <2>1. \A p \in Ops : sent[p] > 0 => sent'[p] > 0
    BY <1>5
  <2>2. RemoteKnown' /\ (MergedOnHost => MergedOnHost')
    BY <1>4, <1>5, <2>1, RemoteStays DEF BranchInvariant, EffectsKnown,
       DeliveryTypeOK
  <2>3. Moves(o)
    BY <1>2, <1>4, <1>5 DEF Moves
  <2> QED
    BY <1>2, <1>4, <1>5, <2>2, <2>3, MoveKeeps
<1>6. ASSUME dj.at = "mutate", CommitLands \/ NothingLands
      PROVE  /\ o \notin made
             /\ UNCHANGED made \/ made' = made \cup {o}
             /\ o \in made' \ stirred => OnBranch' /\ ref' # "base"
             /\ ref # "base" => ref' # "base"
             /\ tree' = "gone" => tree = "gone"
  <2>1. o \notin made
    BY <1>3, <1>6 DEF BranchInvariant, EffectsKnown, MadeKnown
  <2>2. CASE NothingLands
    BY <2>1, <2>2 DEF NothingLands
  <2>3. CASE CommitLands
    BY <1>3, <1>4, <2>1, <2>3 DEF CommitLands, OnBranch
  <2> QED
    BY <1>6, <2>1, <2>2, <2>3
<1>7. ASSUME dj.at = "mutate", Starts
      PROVE  sent'[o] = 1 /\ \A p \in Ops \ {o} : sent'[p] = sent[p]
  BY <1>2, <1>3, <1>7, StartsOnce
<1>8. CASE CommitWrites
  <2>1. /\ dj.at = "mutate" /\ Starts /\ (CommitLands \/ NothingLands)
    BY <1>8 DEF CommitWrites, At
  <2>2. CASE Settle("recovery_required")
    BY <1>2, <1>4, <1>5, <1>6, <1>7, <2>1, <2>2, SettleMoves DEF Unsure
  <2>3. CASE UNCHANGED ops /\ To("prove")
    <3>1. dj'.at = "prove" /\ dj'.op = dj.op
      BY <2>3 DEF To, DeliveryTypeOK, Confirm
    <3>2. Kind' = "commit"
      BY <1>1, <2>3, <3>1 DEF Kind
    <3>3. o \notin stirred => OnBranch'
      BY <1>3, <1>4, <2>1 DEF CommitLands, NothingLands, OnBranch
    <3>4. ConfirmKnows'
      BY <1>2, <1>3, <1>4, <2>3, <3>1, <3>2, <3>3
      DEF ConfirmKnows, Kinds, resultVars
    <3> QED
      BY <1>2, <1>4, <1>5, <1>6, <1>7, <2>1, <2>3, <3>4 DEF Unsure
  <2> QED
    BY <1>8, <2>2, <2>3 DEF CommitWrites
<1>9. (dj.at = "prove" /\ UNCHANGED <<sent, made, ref, tree>>) =>
        /\ o \in made' \ stirred => /\ OnBranch' /\ ref' # "base"
                                    /\ OnBranch /\ ref # "base"
        /\ sent'[o] <= 1
  BY <1>2, <1>4 DEF BranchInvariant, EffectsKnown, MadeKnown, OnBranch,
     OperationsKnown
<1>10. CASE CommitProves
  <2>1. /\ dj.at = "prove" /\ UNCHANGED <<sent, made, ref, tree>>
        /\ Settle(CommitProof)
    BY <1>10 DEF CommitProves, At, ghostVars
  <2>2. CommitProof = "failed" => ~OnBranch \/ ref = "base"
    BY DEF CommitProof
  <2> QED
    BY <1>2, <1>4, <1>5, <1>9, <2>1, <2>2, SettleMoves, ProofTypes DEF Unsure
<1>11. CASE ConfirmIsLost /\ LostCommit
  <2>1. dj' = NoConfirm /\ UNCHANGED ops
    BY <1>11 DEF ConfirmIsLost
  <2>2. ConfirmKnows'
    BY <2>1 DEF ConfirmKnows, NoConfirm
  <2>3. CASE dj.at = "mutate"
    BY <1>2, <1>4, <1>5, <1>6, <1>7, <1>11, <2>1, <2>2, <2>3
    DEF LostCommit, At, Unsure
  <2>4. CASE dj.at = "prove"
    BY <1>2, <1>4, <1>5, <1>9, <1>11, <2>1, <2>2, <2>4
    DEF LostCommit, At, Unsure
  <2> QED
    BY <1>1, <2>3, <2>4
<1> QED
  BY <1>8, <1>10, <1>11

(* A call to the remote, its proof, and the loss of either.                *)
LEMMA RemoteKeeps ==
  ASSUME DeliveryTypeOK, BranchInvariant,
         \/ RemoteSends \/ RemoteFails \/ RemoteProves
         \/ ConfirmIsLost /\ LostCall
  PROVE  mode = "branch" /\ UNCHANGED resultVars /\ BranchInvariant'
<1> DEFINE o == dj.op
<1>1. dj.at \in {"mutate", "prove"} /\ Kind \in Remotely
  BY DEF RemoteSends, RemoteFails, RemoteProves, LostCall
<1>2. /\ o \in Uncertain /\ o \in Ops /\ mode = "branch"
      /\ ops[o].state = "writing" /\ ops[o].kind \in Remotely
  BY <1>1, ConfirmIsUncertain DEF Kind
<1>3. /\ closed = {} /\ (dj.at = "mutate" => sent[o] = 0)
  BY <1>1 DEF BranchInvariant, ConfirmKnows, Remotely
<1>4. UNCHANGED <<resultVars, tree, head, ref, made, stirred, misread, lost>>
  BY DEF RemoteSends, RemoteFails, RemoteProves, ConfirmIsLost, LostCall,
     recordVars, worldVars, ghostVars
<1>5. ASSUME /\ \A p \in Ops : ops'[p].kind = ops[p].kind
             /\ \A p \in Ops \ {o} : ops'[p] = ops[p]
             /\ ConfirmKnows'
             /\ ops'[o].state \in Unsure \cup {"succeeded", "failed"}
             /\ ops'[o].state = "failed" => ops[o].kind = "push"
             /\ \A p \in Ops \ {o} : sent'[p] = sent[p]
             /\ sent'[o] <= 1 /\ (sent[o] > 0 => sent'[o] > 0)
             /\ RemoteKnown' /\ (MergedOnHost => MergedOnHost')
      PROVE  BranchInvariant'
  <2>1. o \notin made
    BY <1>2 DEF BranchInvariant, EffectsKnown, MadeKnown, Remotely
  <2>2. Moves(o)
    BY <1>2, <1>4, <1>5 DEF Moves
  <2> QED
    BY <1>2, <1>4, <1>5, <2>1, <2>2, MoveKeeps
<1>6. ASSUME dj.at = "mutate", Starts,
             \A p \in Ops : ops'[p].kind = ops[p].kind,
             Answers(o)
      PROVE  /\ RemoteKnown' /\ (MergedOnHost => MergedOnHost')
             /\ \A p \in Ops \ {o} : sent'[p] = sent[p]
             /\ sent'[o] <= 1 /\ (sent[o] > 0 => sent'[o] > 0)
  <2>1. sent'[o] = 1 /\ \A p \in Ops \ {o} : sent'[p] = sent[p]
    BY <1>2, <1>3, <1>6, StartsOnce
  <2>2. prs[o] = "none" /\ o \notin late
    BY <1>2, <1>3, <1>6 DEF BranchInvariant, EffectsKnown, RemoteKnown
  <2>3. late \subseteq Ops
    BY DEF DeliveryTypeOK
  <2>4. CASE Effect(o) /\ UNCHANGED late
    BY <1>2, <1>6, <2>1, <2>2, <2>4, EffectKeeps
    DEF BranchInvariant, EffectsKnown
  <2>5. CASE UNCHANGED <<remote, prs>> /\ late' \in {late, late \cup {o}}
    <3>1. \A p \in Ops : sent[p] > 0 => sent'[p] > 0
      BY <2>1
    <3> QED
      BY <1>2, <1>6, <2>1, <2>2, <2>3, <2>5, <3>1, RemoteStays
      DEF BranchInvariant, EffectsKnown
  <2> QED
    BY <1>3, <1>6, <2>1, <2>4, <2>5 DEF Answers
<1>7. ASSUME \A p \in Ops : ops'[p].kind = ops[p].kind,
             UNCHANGED <<sent, remote, prs, late>>
      PROVE  /\ RemoteKnown' /\ (MergedOnHost => MergedOnHost')
             /\ \A p \in Ops \ {o} : sent'[p] = sent[p]
             /\ sent'[o] <= 1 /\ (sent[o] > 0 => sent'[o] > 0)
  <2>1. RemoteKnown' /\ (MergedOnHost => MergedOnHost')
    BY <1>7, RemoteStays DEF BranchInvariant, EffectsKnown, DeliveryTypeOK
  <2>2. sent[o] <= 1
    BY <1>2 DEF BranchInvariant, OperationsKnown
  <2> QED
    BY <1>7, <2>1, <2>2
<1>8. CASE RemoteSends
  <2>1. dj.at = "mutate" /\ Starts
    BY <1>8 DEF RemoteSends
  <2>2. CASE Effect(o) /\ To("prove") /\ UNCHANGED <<ops, late>>
    <3>1. dj'.at = "prove" /\ dj'.op = dj.op
      BY <2>2 DEF To, DeliveryTypeOK, Confirm
    <3>2. Kind' = Kind /\ Kind \notin {"commit", "cleanup", "discard"}
          /\ Kind \in Kinds
      BY <1>1, <2>2, <3>1 DEF Kind, Remotely, Kinds
    <3>3. ConfirmKnows'
      BY <1>2, <1>3, <1>4, <2>2, <3>1, <3>2 DEF ConfirmKnows, resultVars
    <3>4. Answers(o)
      BY <2>2 DEF Answers
    <3> QED
      BY <1>2, <1>4, <1>5, <1>6, <2>1, <2>2, <3>3, <3>4 DEF Unsure
  <2>3. CASE Settle("recovery_required") /\ UNCHANGED <<remote, prs, late>>
    <3>1. Answers(o)
      BY <2>3 DEF Answers
    <3> QED
      BY <1>2, <1>4, <1>5, <1>6, <2>1, <2>3, <3>1, SettleMoves DEF Unsure
  <2> QED
    BY <1>8, <2>2, <2>3 DEF RemoteSends
<1>9. CASE RemoteFails
  <2>1. /\ dj.at = "mutate" /\ Starts /\ Settle("recovery_required")
        /\ Answers(o)
    BY <1>9 DEF RemoteFails
  <2> QED
    BY <1>2, <1>4, <1>5, <1>6, <2>1, SettleMoves DEF Unsure
<1>10. CASE RemoteProves
  <2>1. /\ Settle(RemoteProof(o)) /\ UNCHANGED <<sent, remote, prs, late>>
    BY <1>10 DEF RemoteProves, worldVars, ghostVars
  <2>2. /\ RemoteProof(o) \in {"failed", "succeeded", "recovery_required"}
        /\ RemoteProof(o) = "failed" => ops[o].kind = "push"
    BY <1>2, ProofTypes
  <2> QED
    BY <1>2, <1>4, <1>5, <1>7, <2>1, <2>2, SettleMoves DEF Unsure
<1>11. CASE ConfirmIsLost /\ LostCall
  <2>1. dj' = NoConfirm /\ UNCHANGED ops
    BY <1>11 DEF ConfirmIsLost
  <2>2. ConfirmKnows'
    BY <2>1 DEF ConfirmKnows, NoConfirm
  <2>3. CASE dj.at = "mutate" /\ Starts /\ Answers(o)
    BY <1>2, <1>4, <1>5, <1>6, <2>1, <2>2, <2>3 DEF Unsure
  <2>4. CASE UNCHANGED <<sent, remote, prs, late>>
    BY <1>2, <1>4, <1>5, <1>7, <2>1, <2>2, <2>4 DEF Unsure
  <2> QED
    BY <1>11, <2>3, <2>4 DEF LostCall
<1> QED
  BY <1>8, <1>9, <1>10, <1>11

(* The removal of the worktree, its proof, and the loss of a confirmation. *)
LEMMA CleanupKeeps ==
  ASSUME DeliveryTypeOK, BranchInvariant,
         \/ CleanupRemoves \/ RemovalFails \/ CleanupProves
         \/ ConfirmIsLost /\ (LostBefore \/ LostCleanup)
  PROVE  mode = "branch" /\ UNCHANGED resultVars /\ BranchInvariant'
<1> DEFINE o == dj.op
<1>1. /\ dj.at # "idle"
      /\ \/ Kind \in {"cleanup", "discard"}
         \/ ConfirmIsLost /\ LostBefore
  BY DEF CleanupRemoves, RemovalFails, CleanupProves, ConfirmIsLost, LostCleanup
<1>2. /\ o \in Uncertain /\ o \in Ops /\ mode = "branch"
      /\ ops[o].state = "writing" /\ ops[o].kind = Kind
  BY <1>1, ConfirmIsUncertain DEF Kind
<1>3. UNCHANGED <<resultVars, head, ref, remote, prs, late, made, stirred,
                  misread>>
  BY DEF CleanupRemoves, RemovalFails, CleanupProves, ConfirmIsLost, LostBefore,
     LostCleanup, recordVars, worldVars, ghostVars
<1>4. dj.at \in {"check", "lock", "mutate"} => sent[o] = 0
  BY DEF BranchInvariant, ConfirmKnows
<1>5. sent[o] <= 1
  BY <1>2 DEF BranchInvariant, OperationsKnown
<1>6. ASSUME /\ \A p \in Ops : ops'[p].kind = ops[p].kind
             /\ \A p \in Ops \ {o} : ops'[p] = ops[p]
             /\ ConfirmKnows'
             /\ ops'[o].state \in Unsure \cup {"succeeded"}
             /\ \A p \in Ops \ {o} : sent'[p] = sent[p]
             /\ sent'[o] <= 1 /\ (sent[o] > 0 => sent'[o] > 0)
             /\ UNCHANGED tree \/ Kind \in {"cleanup", "discard"}
             /\ lost' => lost \/ closed # {}
             /\ tree' = "gone" /\ closed = {} =>
                  tree = "gone" \/ (MergedOnHost /\ ref # "base")
      PROVE  BranchInvariant'
  <2>1. (o \in made' \ stirred /\ o \in Uncertain') => OnBranch' /\ ref' # "base"
    <3> SUFFICES ASSUME o \in made \ stirred PROVE OnBranch' /\ ref' # "base"
      BY <1>3
    <3>1. ops[o].kind = "commit" /\ OnBranch /\ ref # "base"
      BY <1>2 DEF BranchInvariant, EffectsKnown, MadeKnown
    <3> QED
      BY <1>2, <1>3, <1>6, <3>1 DEF OnBranch
  <2>2. \A p \in Ops : sent[p] > 0 => sent'[p] > 0
    BY <1>6
  <2>3. RemoteKnown' /\ (MergedOnHost => MergedOnHost')
    BY <1>3, <1>6, <2>2, RemoteStays DEF BranchInvariant, EffectsKnown,
       DeliveryTypeOK
  <2>4. Moves(o)
    BY <1>2, <1>3, <1>6 DEF Moves, Unsure
  <2> QED
    BY <1>2, <1>3, <1>6, <2>1, <2>3, <2>4, MoveKeeps
<1>7. ASSUME dj.at = "mutate", Starts
      PROVE  sent'[o] = 1 /\ \A p \in Ops \ {o} : sent'[p] = sent[p]
  BY <1>2, <1>4, <1>7, StartsOnce
<1>8. ASSUME dj.at = "mutate", Kind \in {"cleanup", "discard"},
             \/ Removable /\ Removes
             \/ UNCHANGED <<tree, lost>>
      PROVE  /\ lost' => lost \/ closed # {}
             /\ tree' = "gone" /\ closed = {} =>
                  tree = "gone" \/ (MergedOnHost /\ ref # "base")
  <2>1. CASE Kind = "discard"
    <3>1. closed # {}
      BY <1>8, <2>1 DEF BranchInvariant, ConfirmKnows
    <3> QED
      BY <3>1
  <2>2. CASE Kind = "cleanup"
    <3>1. MergedOnHost /\ ref # "base"
      BY <1>8, <2>2 DEF BranchInvariant, ConfirmKnows
    <3>2. lost' => lost
      BY <1>8, <2>2 DEF Removable, Removes
    <3> QED
      BY <3>1, <3>2
  <2> QED
    BY <1>8, <2>1, <2>2
<1>9. CASE CleanupRemoves
  <2>1. /\ dj.at = "mutate" /\ Kind \in {"cleanup", "discard"} /\ Starts
    BY <1>9 DEF CleanupRemoves
  <2>2. CASE ~Removable /\ Settle("recovery_required") /\ UNCHANGED <<tree, lost>>
    BY <1>2, <1>3, <1>6, <1>7, <1>8, <2>1, <2>2, SettleMoves DEF Unsure
  <2>3. CASE Removable /\ Removes /\ To("prove") /\ UNCHANGED ops
    <3>1. dj'.at = "prove" /\ dj'.op = dj.op
      BY <2>3 DEF To, DeliveryTypeOK, Confirm
    <3>2. Kind' = Kind /\ Kind \in Kinds /\ (MergedOnHost => MergedOnHost')
      BY <1>3, <2>1, <2>3, <3>1 DEF Kind, Kinds, MergedOnHost
    <3>3. /\ Kind = "discard" => closed # {}
          /\ Kind # "discard" => closed = {}
          /\ Kind = "cleanup" => MergedOnHost
      BY <1>1 DEF BranchInvariant, ConfirmKnows
    <3>4. ConfirmKnows'
      BY <1>2, <1>3, <2>1, <2>3, <3>1, <3>2, <3>3 DEF ConfirmKnows, resultVars
    <3> QED
      BY <1>2, <1>3, <1>6, <1>7, <1>8, <2>1, <2>3, <3>4 DEF Unsure
  <2> QED
    BY <1>9, <2>2, <2>3 DEF CleanupRemoves
<1>12. CASE RemovalFails
  <2>1. /\ dj.at = "mutate" /\ Kind \in {"cleanup", "discard"} /\ Starts
        /\ Settle("recovery_required")
        /\ (Removable /\ Removes) \/ UNCHANGED <<tree, lost>>
    BY <1>12 DEF RemovalFails
  <2> QED
    BY <1>2, <1>3, <1>6, <1>7, <1>8, <2>1, SettleMoves DEF Unsure
<1>10. CASE CleanupProves
  <2>1. /\ UNCHANGED <<sent, tree, lost>>
        /\ Settle("succeeded") \/ Settle("recovery_required")
    BY <1>10 DEF CleanupProves, worldVars, ghostVars
  <2> QED
    BY <1>2, <1>3, <1>5, <1>6, <2>1, SettleMoves DEF Unsure
<1>11. CASE ConfirmIsLost /\ (LostBefore \/ LostCleanup)
  <2>1. dj' = NoConfirm /\ UNCHANGED ops
    BY <1>11 DEF ConfirmIsLost
  <2>2. ConfirmKnows'
    BY <2>1 DEF ConfirmKnows, NoConfirm
  <2>3. CASE LostBefore
    BY <1>2, <1>3, <1>5, <1>6, <2>1, <2>2, <2>3
    DEF LostBefore, worldVars, ghostVars, Unsure
  <2>4. CASE LostCleanup /\ dj.at = "mutate"
    BY <1>2, <1>3, <1>6, <1>7, <1>8, <2>1, <2>2, <2>4 DEF LostCleanup, Unsure
  <2>5. CASE LostCleanup /\ dj.at = "prove"
    BY <1>2, <1>3, <1>5, <1>6, <2>1, <2>2, <2>5 DEF LostCleanup, Unsure
  <2> QED
    BY <1>11, <2>3, <2>4, <2>5 DEF LostCleanup
<1> QED
  BY <1>9, <1>10, <1>11, <1>12

(* What was done cannot be read back: a commit that fails now is recorded  *)
(* as misread, and nothing else of the branch changes.                     *)
LEMMA ProofFailsKeeps ==
  ASSUME DeliveryTypeOK, BranchInvariant, ProofFails
  PROVE  mode = "branch" /\ UNCHANGED resultVars /\ BranchInvariant'
<1> DEFINE o == dj.op
<1>1. dj.at = "prove"
  BY DEF ProofFails
<1>2. o \in Uncertain /\ o \in Ops /\ mode = "branch"
  BY <1>1, ConfirmIsUncertain
<1>3. PICK s \in Unread : /\ s = "failed" => Kind \in {"commit", "push"}
                          /\ Settle(s) /\ Misreads(o, s)
  BY DEF ProofFails
<1>4. UNCHANGED <<resultVars, tree, head, ref, remote, prs, late, made, sent,
                  stirred, lost>>
  BY DEF ProofFails
<1>5. /\ \A p \in Ops : ops'[p].kind = ops[p].kind
      /\ \A p \in Ops \ {o} : ops'[p] = ops[p]
      /\ ops'[o].state = s /\ ConfirmKnows'
  BY <1>2, <1>3, SettleMoves
<1>6. RemoteKnown' /\ (MergedOnHost => MergedOnHost')
  BY <1>4, <1>5, RemoteStays DEF BranchInvariant, EffectsKnown, DeliveryTypeOK
<1>7. Moves(o)
  <2>1. /\ misread \subseteq misread'
        /\ (ops[o].kind = "commit" /\ s = "failed") => o \in misread'
    BY <1>3 DEF Misreads
  <2>2. sent[o] <= 1
    BY <1>2 DEF BranchInvariant, OperationsKnown
  <2>3. s \in Unsure \cup {"failed"}
    BY <1>3 DEF Unread, Unsure
  <2>4. s = "failed" =>
          CASE ops[o].kind = "commit" -> o \notin made' \ (stirred \cup misread')
            [] ops[o].kind = "push" -> TRUE
            [] OTHER -> sent'[o] = 0
    BY <1>3, <2>1 DEF Kind
  <2> QED
    BY <1>4, <1>5, <2>1, <2>2, <2>3, <2>4 DEF Moves
<1>8. o \in made' \ stirred => OnBranch' /\ ref' # "base"
  BY <1>2, <1>4 DEF BranchInvariant, EffectsKnown, MadeKnown, OnBranch
<1> QED
  BY <1>2, <1>4, <1>5, <1>6, <1>7, <1>8, MoveKeeps

(* A refresh only reads, and a second confirmation of a discard too.       *)
LEMMA RefreshKeeps ==
  ASSUME DeliveryTypeOK, BranchInvariant, NEW o \in Ops,
         Refresh(o) \/ Reconfirm(o)
  PROVE  mode = "branch" /\ UNCHANGED resultVars /\ BranchInvariant'
<1>1. /\ mode = "branch" /\ dj.at = "idle" /\ o \in Uncertain
      /\ UNCHANGED <<resultVars, dj, worldVars, made, sent, stirred, lost>>
  BY DEF Refresh, Reconfirm, Authority, recordVars, ghostVars
<1>2. ConfirmKnows'
  BY <1>1 DEF ConfirmKnows
<1>3. sent[o] <= 1 /\ ops[o].kind \in Kinds
  BY <1>1 DEF BranchInvariant, OperationsKnown, Uncertain, Unsure, NoOp
<1>4. o \in made \ stirred => OnBranch /\ ref # "base"
  BY <1>1 DEF BranchInvariant, EffectsKnown, MadeKnown
<1>5. ASSUME NEW s \in Unsure \cup {"succeeded", "failed"},
             \/ \E b : ops' = [ops EXCEPT ![o].state = s, ![o].merged = b]
             \/ ops' = [ops EXCEPT ![o].state = s],
             misread \subseteq misread',
             s = "failed" =>
               \/ ops[o].kind = "push"
               \/ ops[o].kind = "commit" /\ o \notin made \ (stirred \cup misread')
      PROVE  BranchInvariant'
  <2>1. /\ \A p \in Ops : ops'[p].kind = ops[p].kind
        /\ \A p \in Ops \ {o} : ops'[p] = ops[p]
        /\ ops'[o].state = s
    BY <1>5 DEF DeliveryTypeOK, Operation
  <2>2. RemoteKnown' /\ (MergedOnHost => MergedOnHost')
    BY <1>1, <2>1, RemoteStays DEF BranchInvariant, EffectsKnown,
       DeliveryTypeOK, worldVars
  <2>3. Moves(o)
    BY <1>1, <1>3, <1>5, <2>1 DEF Moves
  <2>4. OnBranch' = OnBranch
    BY <1>1 DEF OnBranch, worldVars
  <2>5. UNCHANGED <<resultVars, tree, ref, made, stirred, lost>>
    BY <1>1 DEF worldVars
  <2>6. o \in made' \ stirred => OnBranch' /\ ref' # "base"
    BY <1>4, <2>4, <2>5
  <2> QED
    BY <1>1, <1>2, <2>2, <2>3, <2>5, <2>6, MoveKeeps
<1>6. CASE Reconfirm(o)
  BY <1>1, <1>5, <1>6 DEF Reconfirm, ghostVars
<1>7. CASE Refresh(o)
  <2>1. ops[o].kind \in Kinds \ {"discard"}
    BY <1>3, <1>7 DEF Refresh, Authority, BranchInvariant, BranchKnown
  <2>2. /\ Refreshed(o) \in {"failed", "succeeded", "recovery_required"}
        /\ Refreshed(o) = "failed" => \/ ops[o].kind = "push"
                                      \/ ops[o].kind = "commit"
                                         /\ o \notin made \ stirred
    <3>1. CommitProof = "failed" => ~OnBranch \/ ref = "base"
      BY DEF CommitProof
    <3> QED
      BY <1>4, <2>1, <3>1, ProofTypes
  <2>3. ASSUME NEW s \in Unread, s = "failed" => ops[o].kind = "commit",
               ops' = [ops EXCEPT ![o].state = s], Misreads(o, s)
        PROVE  BranchInvariant'
    <3>1. /\ misread \subseteq misread'
          /\ (ops[o].kind = "commit" /\ s = "failed") => o \in misread'
      BY <2>3 DEF Misreads
    <3> QED
      BY <1>5, <2>3, <3>1 DEF Unread, Unsure
  <2> DEFINE b == Refreshed(o) = "succeeded" /\ Recorded(o)
  <2> HIDE DEF b
  <2>4. CASE /\ ops' = [ops EXCEPT ![o].state = Refreshed(o), ![o].merged = b]
             /\ UNCHANGED misread
    BY <1>1, <1>5, <2>2, <2>4 DEF Unsure
  <2> QED
    BY <1>1, <1>7, <2>3, <2>4 DEF Refresh, b
<1> QED
  BY <1>6, <1>7

(* A preview is a record that nothing has been done for.                   *)
LEMMA PreviewKeeps ==
  ASSUME DeliveryTypeOK, BranchInvariant, NEW k \in Kinds, Preview(k)
  PROVE  mode = "branch" /\ UNCHANGED resultVars /\ BranchInvariant'
<1>1. /\ mode = "branch" /\ dj.at = "idle" /\ Uncertain = {}
      /\ IF k = "discard" THEN closed # {} ELSE closed = {}
      /\ PreviewReady(k)
      /\ UNCHANGED <<recordVars, dj, worldVars, ghostVars>>
  BY DEF Preview, Authority
<1>2. PICK o \in Ops : /\ ops[o] = NoOp
                       /\ ops' = [ops EXCEPT ![o] = [NoOp EXCEPT
                            !.kind = k, !.state = "preview", !.saw = Saw(k)]]
  BY DEF Preview
<1>3. /\ \A p \in Ops \ {o} : ops'[p] = ops[p]
      /\ ops'[o].kind = k /\ ops'[o].state = "preview"
      /\ ops[o].kind = "none" /\ ops[o].state = "none"
  BY <1>2 DEF DeliveryTypeOK, NoOp
<1>4. Uncertain' = {} /\ \A q : Done(q)' = Done(q)
  BY <1>1, <1>3 DEF Uncertain, Unsure, Done, Is
<1>5. UNCHANGED <<resultVars, tree, head, ref, remote, prs, late, made, sent,
                  stirred, misread, lost>>
  BY <1>1 DEF recordVars, worldVars, ghostVars
<1>6. /\ k = "push" => Done("commit") # {}
      /\ k \in {"pr", "merge"} => Done("push") # {}
      /\ k \in {"merge", "cleanup"} => Done("pr") # {}
  BY <1>1 DEF PreviewReady, HostingReady, Merged
<1>7. OperationsKnown'
  <2>1. /\ \A p \in Ops : \/ ops'[p] = NoOp
                          \/ ops'[p].kind \in Kinds /\ ops'[p].state \in States
        /\ \A p \in Ops : sent'[p] <= 1
        /\ \A p \in Ops : ops'[p].state \in {"none", "preview"} => sent'[p] = 0
    BY <1>3, <1>5 DEF BranchInvariant, OperationsKnown, States
  <2>2. \A p \in Ops : ops'[p].state = "failed" =>
          CASE ops'[p].kind = "commit" -> p \notin made' \ (stirred \cup misread)'
            [] ops'[p].kind = "push" -> TRUE
            [] OTHER -> sent'[p] = 0
    <3> SUFFICES ASSUME NEW p \in Ops, ops'[p].state = "failed"
                 PROVE  CASE ops'[p].kind = "commit" -> p \notin made' \ (stirred \cup misread)'
                          [] ops'[p].kind = "push" -> TRUE
                          [] OTHER -> sent'[p] = 0
      OBVIOUS
    <3>1. p # o /\ ops'[p] = ops[p]
      BY <1>3
    <3> QED
      BY <1>5, <3>1 DEF BranchInvariant, OperationsKnown
  <2>3. \A p, q \in Ops : (/\ ops'[p].kind = "pr" /\ ops'[q].kind = "pr"
                           /\ ops'[p].state \in Started
                           /\ ops'[q].state \in Started) => p = q
    BY <1>3 DEF BranchInvariant, OperationsKnown, Started, Unsure
  <2>4. \A p \in Ops :
          /\ ops'[p].kind = "push" => Done("commit")' # {}
          /\ ops'[p].kind \in {"pr", "merge"} => Done("push")' # {}
          /\ ops'[p].kind \in {"merge", "cleanup"} => Done("pr")' # {}
    BY <1>3, <1>4, <1>6 DEF BranchInvariant, OperationsKnown
  <2> QED
    BY <1>4, <2>1, <2>2, <2>3, <2>4 DEF OperationsKnown
<1>8. EffectsKnown'
  <2>1. o \notin made /\ o \notin late /\ prs[o] = "none"
    BY <1>3 DEF BranchInvariant, EffectsKnown, MadeKnown, RemoteKnown, Remotely
  <2>2. made \subseteq Ops /\ late \subseteq Ops
    BY DEF DeliveryTypeOK
  <2>3. MadeKnown'
    BY <1>3, <1>4, <1>5, <2>1, <2>2 DEF BranchInvariant, EffectsKnown, MadeKnown
  <2>4. RemoteKnown'
    BY <1>3, <1>5, <2>1, <2>2 DEF BranchInvariant, EffectsKnown, RemoteKnown
  <2> QED
    BY <2>3, <2>4 DEF EffectsKnown
<1>9. ConfirmKnows'
  BY <1>1 DEF ConfirmKnows
<1>10. BranchKnown'
  <2>1. CleanupKeepsWork'
    BY <1>5 DEF BranchInvariant, BranchKnown, CleanupKeepsWork, MergedOnHost,
       resultVars
  <2>2. \A p \in Ops : /\ ops'[p].state \in Unsure \cup {"succeeded"} =>
                            ops'[p] = ops[p]
                       /\ ops'[p].kind = "discard" => closed # {}
    BY <1>1, <1>3 DEF BranchInvariant, BranchKnown, Unsure
  <2> QED
    BY <1>1, <1>4, <1>5, <2>1, <2>2
    DEF BranchInvariant, BranchKnown, resultVars
<1> QED
  BY <1>1, <1>5, <1>7, <1>8, <1>9, <1>10 DEF BranchInvariant

(* A confirmation is announced before anything is done.                    *)
LEMMA MarksKeep ==
  ASSUME DeliveryTypeOK, BranchInvariant, NEW o \in Ops, ConfirmMarks(o)
  PROVE  mode = "branch" /\ UNCHANGED resultVars /\ BranchInvariant'
<1>1. /\ mode = "branch" /\ dj.at = "idle" /\ room = "active"
      /\ IF ops[o].kind = "discard" THEN closed # {} ELSE closed = {}
      /\ ops[o].state = "preview" /\ Undisturbed(o) /\ ConfirmReady(o)
      /\ ops' = [ops EXCEPT ![o].state = "writing"]
      /\ dj' = [at |-> "check", op |-> o]
      /\ UNCHANGED <<recordVars, worldVars, ghostVars>>
  BY DEF ConfirmMarks, Authority
<1>2. /\ \A p \in Ops : ops'[p].kind = ops[p].kind
      /\ \A p \in Ops \ {o} : ops'[p] = ops[p]
      /\ ops'[o].state = "writing"
  BY <1>1 DEF DeliveryTypeOK, Operation
<1>3. /\ ops[o].kind \in Kinds /\ sent[o] = 0 /\ o \notin Uncertain
      /\ \A q : o \notin Done(q)
  BY <1>1 DEF BranchInvariant, OperationsKnown, NoOp, Uncertain, Unsure, Done,
     Is
<1>4. Uncertain' = {o} /\ Uncertain = {}
  BY <1>1, <1>2, <1>3 DEF Undisturbed, Uncertain, Unsure
<1>5. \A q : Done(q) \subseteq Done(q)'
  BY <1>2, <1>3 DEF Done, Is
<1>6. UNCHANGED <<resultVars, tree, head, ref, remote, prs, late, made, sent,
                  stirred, misread, lost>>
  BY <1>1 DEF recordVars, worldVars, ghostVars
<1>7. OperationsKnown'
  <2>1. /\ \A p \in Ops : \/ ops'[p] = NoOp
                          \/ ops'[p].kind \in Kinds /\ ops'[p].state \in States
        /\ \A p \in Ops : sent'[p] <= 1
        /\ \A p \in Ops : ops'[p].state \in {"none", "preview"} => sent'[p] = 0
    BY <1>2, <1>3, <1>6 DEF BranchInvariant, OperationsKnown, States
  <2>2. \A p \in Ops : ops'[p].state = "failed" =>
          CASE ops'[p].kind = "commit" -> p \notin made' \ (stirred \cup misread)'
            [] ops'[p].kind = "push" -> TRUE
            [] OTHER -> sent'[p] = 0
    <3> SUFFICES ASSUME NEW p \in Ops, ops'[p].state = "failed"
                 PROVE  CASE ops'[p].kind = "commit" -> p \notin made' \ (stirred \cup misread)'
                          [] ops'[p].kind = "push" -> TRUE
                          [] OTHER -> sent'[p] = 0
      OBVIOUS
    <3>1. p # o /\ ops'[p] = ops[p]
      BY <1>2
    <3> QED
      BY <1>6, <3>1 DEF BranchInvariant, OperationsKnown
  <2>3. \A p, q \in Ops : (/\ ops'[p].kind = "pr" /\ ops'[q].kind = "pr"
                           /\ ops'[p].state \in Started
                           /\ ops'[q].state \in Started) => p = q
    <3>1. ops[o].kind = "pr" => \A p \in Ops \ {o} :
                                  ops[p].kind = "pr" => ops[p].state \notin Started
      BY <1>1 DEF Undisturbed, Started
    <3> QED
      BY <1>2, <3>1 DEF BranchInvariant, OperationsKnown
  <2>4. \A p \in Ops :
          /\ ops'[p].kind = "push" => Done("commit")' # {}
          /\ ops'[p].kind \in {"pr", "merge"} => Done("push")' # {}
          /\ ops'[p].kind \in {"merge", "cleanup"} => Done("pr")' # {}
    BY <1>2, <1>5 DEF BranchInvariant, OperationsKnown
  <2> QED
    BY <1>4, <2>1, <2>2, <2>3, <2>4 DEF OperationsKnown
<1>8. EffectsKnown'
  <2>1. o \notin made /\ made \subseteq Ops /\ late \subseteq Ops
    BY <1>3 DEF BranchInvariant, EffectsKnown, MadeKnown, DeliveryTypeOK
  <2>2. MadeKnown'
    BY <1>2, <1>4, <1>6, <2>1 DEF BranchInvariant, EffectsKnown, MadeKnown
  <2>3. RemoteKnown'
    BY <1>2, <1>6, <2>1 DEF BranchInvariant, EffectsKnown, RemoteKnown
  <2> QED
    BY <2>2, <2>3 DEF EffectsKnown
<1>9. ops[o].kind = "cleanup" => MergedOnHost
  <2> SUFFICES ASSUME ops[o].kind = "cleanup" PROVE MergedOnHost
    OBVIOUS
  <2>1. Done("pr") # {} /\ prs[Creator] = "merged"
    BY <1>1 DEF ConfirmReady, Merged
  <2>2. Creator \in 0..MaxOps
    <3>1. Creator \in Ops
      BY <2>1 DEF Creator, Done
    <3> QED
      BY <3>1, OpsAssumption DEF Ops
  <2> QED
    BY <2>1, <2>2 DEF MergedOnHost
<1>10. ConfirmKnows'
  <2>1. dj'.at = "check" /\ dj'.op = o /\ Kind' = ops[o].kind
    BY <1>1, <1>2 DEF Kind
  <2>2. MergedOnHost' = MergedOnHost
    BY <1>6 DEF MergedOnHost
  <2> QED
    BY <1>1, <1>2, <1>3, <1>6, <1>9, <2>1, <2>2 DEF ConfirmKnows, resultVars
<1>11. BranchKnown'
  <2>1. CleanupKeepsWork'
    BY <1>6 DEF BranchInvariant, BranchKnown, CleanupKeepsWork, MergedOnHost,
       resultVars
  <2>2. \A p \in Ops : ops'[p].kind = "discard" => closed # {}
    BY <1>2 DEF BranchInvariant, BranchKnown
  <2>3. closed # {} =>
          \A p \in Ops : /\ ops'[p].state \in Unsure => ops'[p].kind = "discard"
                         /\ ops'[p].state = "succeeded" =>
                              ops'[p].kind \in {"cleanup", "discard"}
    <3> SUFFICES ASSUME closed # {}, NEW p \in Ops
                 PROVE  /\ ops'[p].state \in Unsure => ops'[p].kind = "discard"
                        /\ ops'[p].state = "succeeded" =>
                             ops'[p].kind \in {"cleanup", "discard"}
      OBVIOUS
    <3>1. CASE p = o
      BY <1>1, <1>2, <3>1
    <3>2. CASE p # o
      BY <1>1, <1>2, <3>2 DEF BranchInvariant, BranchKnown
    <3> QED
      BY <3>1, <3>2
  <2> QED
    BY <1>1, <1>6, <2>1, <2>2, <2>3
    DEF BranchInvariant, BranchKnown, resultVars
<1> QED
  BY <1>1, <1>6, <1>7, <1>8, <1>10, <1>11 DEF BranchInvariant

(* The world moves on while the records stand.                             *)
LEMMA WorldKeeps ==
  ASSUME DeliveryTypeOK, BranchInvariant, mode = "branch",
         UNCHANGED <<resultVars, ops, dj, made, sent, misread, lost>>,
         RemoteKnown', MergedOnHost => MergedOnHost', stirred \subseteq stirred',
         \A o \in Uncertain \ stirred' :
           ops[o].kind = "commit" => (OnBranch => OnBranch'),
         ref # "base" => ref' # "base", tree' = "gone" => tree = "gone"
  PROVE  BranchInvariant'
<1> USE DEF BranchInvariant
<1>1. Uncertain' = Uncertain /\ \A k : Done(k)' = Done(k)
  BY DEF Uncertain, Done, Is
<1>2. OperationsKnown'
  <2>1. \A p \in Ops : ops[p].state = "failed" =>
          CASE ops[p].kind = "commit" -> p \notin made \ (stirred' \cup misread)
            [] ops[p].kind = "push" -> TRUE
            [] OTHER -> sent[p] = 0
    <3> SUFFICES ASSUME NEW p \in Ops, ops[p].state = "failed"
                 PROVE  CASE ops[p].kind = "commit" -> p \notin made \ (stirred' \cup misread)
                          [] ops[p].kind = "push" -> TRUE
                          [] OTHER -> sent[p] = 0
      OBVIOUS
    <3>1. (CASE ops[p].kind = "commit" -> p \notin made \ (stirred \cup misread)
             [] ops[p].kind = "push" -> TRUE
             [] OTHER -> sent[p] = 0)
      BY DEF OperationsKnown
    <3> QED
      BY <3>1
  <2> QED
    BY <1>1, <2>1 DEF OperationsKnown
<1>3. EffectsKnown'
  <2>1. made \subseteq Ops
    BY DEF DeliveryTypeOK
  <2>2. MadeKnown'
    BY <1>1, <2>1 DEF EffectsKnown, MadeKnown
  <2> QED
    BY <2>2 DEF EffectsKnown
<1>4. ConfirmKnows'
  <2>1. CASE dj.at = "idle"
    BY <2>1 DEF ConfirmKnows
  <2>2. CASE dj.at # "idle"
    <3>1. dj.op \in Uncertain
      BY <2>2, ConfirmIsUncertain
    <3>2. Kind' = Kind
      BY DEF Kind
    <3>3. (Kind = "commit" /\ dj.at # "check" /\ dj.op \notin stirred') =>
            OnBranch'
      BY <2>2, <3>1 DEF ConfirmKnows, Kind
    <3> QED
      BY <2>2, <3>2, <3>3 DEF ConfirmKnows, resultVars
  <2> QED
    BY <2>1, <2>2
<1>5. BranchKnown'
  BY <1>1, BranchKeeps
<1> QED
  BY <1>2, <1>3, <1>4, <1>5

(* A call that was given up for lost is carried out.                       *)
LEMMA LateKeeps ==
  ASSUME DeliveryTypeOK, BranchInvariant, NEW o \in Ops, LateEffect(o)
  PROVE  mode = "branch" /\ UNCHANGED resultVars /\ BranchInvariant'
<1>1. /\ o \in late /\ late' = late \ {o} /\ Effect(o)
      /\ UNCHANGED <<resultVars, ops, dj, tree, head, ref, made, sent, stirred,
                     misread, lost>>
  BY DEF LateEffect, recordVars, ghostVars
<1>2. prs[o] = "none" /\ sent[o] > 0 /\ ops[o].kind \in Remotely
  BY <1>1 DEF BranchInvariant, EffectsKnown, RemoteKnown
<1>3. mode = "branch"
  BY <1>2 DEF BranchInvariant, BranchKnown, NoOp, Remotely
<1>4. RemoteKnown' /\ (MergedOnHost => MergedOnHost')
  BY <1>1, <1>2, EffectKeeps DEF BranchInvariant, EffectsKnown
<1>5. OnBranch' = OnBranch
  BY <1>1 DEF OnBranch
<1> QED
  BY <1>1, <1>3, <1>4, <1>5, WorldKeeps

(* The person works in the worktree and at the remote.                     *)
LEMMA PersonKeeps ==
  ASSUME DeliveryTypeOK, BranchInvariant,
         \/ PersonEdits \/ PersonStages \/ PersonSwitches \/ PersonCommits
         \/ PersonUnlocks \/ TargetAdvances \/ RemoteMoves \/ PersonRequests
  PROVE  mode = "branch" /\ UNCHANGED resultVars /\ BranchInvariant'
<1>1. /\ mode = "branch"
      /\ UNCHANGED <<resultVars, ops, dj, late, made, sent, misread, lost>>
  BY DEF PersonEdits, PersonStages, PersonSwitches, PersonCommits,
     PersonUnlocks, TargetAdvances, RemoteMoves, PersonRequests, Personal,
     recordVars, ghostVars
<1>2. /\ prs \in [0..MaxOps -> {"none", "open", "closed", "merged"}]
      /\ Ops \subseteq 0..MaxOps /\ 0 \in 0..MaxOps /\ 0 \notin Ops
      /\ late \subseteq Ops
  BY OpsAssumption DEF DeliveryTypeOK, Ops
<1>3. /\ ref # "base" => ref' # "base"
      /\ tree' = "gone" => tree = "gone"
  BY DEF PersonEdits, PersonStages, PersonSwitches, PersonCommits,
     PersonUnlocks, TargetAdvances, RemoteMoves, PersonRequests
<1>4. /\ stirred \subseteq stirred'
      /\ \A o \in Uncertain \ stirred' :
           ops[o].kind = "commit" => (OnBranch => OnBranch')
  <2>1. CASE PersonSwitches \/ PersonCommits
    BY <2>1 DEF PersonSwitches, PersonCommits, Stir
  <2>2. CASE ~(PersonSwitches \/ PersonCommits)
    <3>1. /\ UNCHANGED <<stirred, head>>
          /\ tree' = tree \/ (tree # "gone" /\ tree' # "gone")
      BY <2>2 DEF PersonEdits, PersonStages, PersonUnlocks, TargetAdvances,
         RemoteMoves, PersonRequests, ghostVars
    <3> QED
      BY <3>1 DEF OnBranch
  <2> QED
    BY <2>1, <2>2
<1>5. RemoteKnown' /\ (MergedOnHost => MergedOnHost')
  <2>1. CASE UNCHANGED <<remote, prs>>
    BY <1>1, <1>2, <2>1, RemoteStays DEF BranchInvariant, EffectsKnown
  <2>2. CASE RemoteMoves
    <3>1. /\ remote' # "commit"
          /\ \A p \in 0..MaxOps : /\ prs'[p] # "none" => prs[p] # "none"
                                  /\ prs[p] = "merged" => prs'[p] = "merged"
      BY <2>2 DEF RemoteMoves
    <3> QED
      BY <1>1, <1>2, <3>1 DEF BranchInvariant, EffectsKnown, RemoteKnown,
         MergedOnHost
  <2>3. CASE PersonRequests
    <3>1. remote' = remote
      BY <2>3 DEF PersonRequests
    <3>2. \A p \in 0..MaxOps :
            /\ (prs'[p] # "none" /\ p # 0) => prs[p] # "none"
            /\ prs[p] = "merged" => prs'[p] = "merged"
      BY <1>2, <2>3 DEF PersonRequests
    <3> QED
      BY <1>1, <1>2, <3>1, <3>2 DEF BranchInvariant, EffectsKnown, RemoteKnown,
         MergedOnHost
  <2>4. CASE ~RemoteMoves /\ ~PersonRequests
    <3>1. UNCHANGED <<remote, prs>>
      BY <2>4 DEF PersonEdits, PersonStages, PersonSwitches, PersonCommits,
         PersonUnlocks, TargetAdvances
    <3> QED
      BY <2>1, <3>1
  <2> QED
    BY <2>2, <2>3, <2>4
<1> QED
  BY <1>1, <1>3, <1>4, <1>5, WorldKeeps

(* Every step of a Task branch.                                            *)
LEMMA DeliveryKeeps ==
  ASSUME DeliveryTypeOK, BranchInvariant, DeliveryNext
  PROVE  mode = "branch" /\ UNCHANGED resultVars /\ BranchInvariant'
<1>1. CASE ConfirmIsLost
  BY <1>1, CleanupKeeps, CommitKeeps, RemoteKeeps DEF ConfirmIsLost
<1> QED
  BY <1>1, PreviewKeeps, MarksKeep, RefreshKeeps, LateKeeps, ChecksKeep,
     CommitKeeps, RemoteKeeps, CleanupKeeps, ProofFailsKeeps, PersonKeeps
  DEF DeliveryNext
-----------------------------------------------------------------------------
(***************************************************************************)
(* The three modes together.                                               *)
(***************************************************************************)
(* Nothing is delivered yet.                                               *)
LEMMA InitHolds ==
  ASSUME Init
  PROVE  DeliveryInvariant
<1>1. /\ mode \in Modes /\ changed \in (SUBSET Entries) \ {{}}
      /\ task = "open" /\ room = "active" /\ closed = {}
      /\ run = "awaiting_review" /\ edits = 0 /\ faults = 0
      /\ co = [e \in 1..RepoCount |-> Untouched]
      /\ owner \in {"project", "other"} /\ (mode # "patch" => owner = "project")
  BY DEF Init, RecordsInit
<1>2. RecordsTypeOK
  <2>1. Untouched \in Checkout
    BY DEF Untouched, Checkout, Works, Indexes
  <2>2. co \in [1..RepoCount -> Checkout]
    BY <1>1, <2>1
  <2>3. edits \in 0..MaxEdits /\ faults \in 0..MaxFaults
    BY <1>1, FaultAssumption
  <2> QED
    BY <1>1, <2>2, <2>3 DEF RecordsTypeOK
<1>3. /\ planned = FALSE /\ step = [r \in Repos |-> "planned"]
      /\ pre = [r \in Repos |-> "none"] /\ aj = NoApply
      /\ landed = {} /\ wrote = {}
  BY DEF Init, ApplyInit
<1>4. ApplyTypeOK
  BY <1>3, NoApplyType DEF ApplyTypeOK, Steps, Pre
<1>5. LegacyInvariant
  BY <1>1, <1>3 DEF LegacyInvariant, CheckoutKnown, ApplyKnows, LegacyKnown,
     NoApply
<1>6. Files = "base"
  BY <1>1, RepoAssumption DEF Files, Untouched
<1>7. PatchTypeOK /\ PatchInvariant
  BY <1>1, <1>6 DEF Init, PatchInit, PatchTypeOK, PatchInvariant, PatchKnows,
     PatchKnown, NoPatch, PatchJob, Applications, Seen, Indexes, Works, Reverse
<1>8. /\ ops = [o \in Ops |-> NoOp] /\ dj = NoConfirm
      /\ tree = "reviewed" /\ head = "task" /\ ref = "base" /\ idx = "base"
      /\ ilock = FALSE /\ ahead = FALSE /\ remote = "none"
      /\ prs = [o \in 0..MaxOps |-> "none"] /\ late = {}
      /\ made = {} /\ sent = [o \in Ops |-> 0] /\ stirred = {}
      /\ misread = {} /\ lost = FALSE
  BY DEF Init, DeliveryInit
<1>9. DeliveryTypeOK
  <2>1. NoOp \in Operation
    BY DEF NoOp, Operation
  <2>2. NoConfirm \in Confirm
    BY OpsAssumption DEF NoConfirm, Confirm
  <2>3. ops \in [Ops -> Operation] /\ sent \in [Ops -> 0..2]
    BY <1>8, <2>1
  <2> QED
    BY <1>8, <2>2, <2>3 DEF DeliveryTypeOK
<1>10. Uncertain = {}
  BY <1>8 DEF Uncertain, Unsure, NoOp
<1>11. Ops \subseteq 0..MaxOps
  BY OpsAssumption DEF Ops
<1>12. OperationsKnown
  BY <1>8, <1>10 DEF OperationsKnown, NoOp, Started, Unsure
<1>13. EffectsKnown /\ ConfirmKnows
  BY <1>8, <1>11 DEF EffectsKnown, MadeKnown, RemoteKnown, ConfirmKnows,
     NoConfirm
<1>14. BranchKnown
  BY <1>1, <1>8, <1>10 DEF BranchKnown, NoOp, CleanupKeepsWork
<1> QED
  BY <1>1, <1>2, <1>4, <1>5, <1>7, <1>9, <1>12, <1>13, <1>14
  DEF DeliveryInvariant, TypeOK, OwnerKnown, BranchInvariant

(* The acceptance of the Result, and the Room taken out of the archive.    *)
LEMMA AcceptKeeps ==
  ASSUME DeliveryInvariant, AcceptResult \/ RestoreRoom
  PROVE  DeliveryInvariant'
<1> USE DEF DeliveryInvariant, TypeOK
<1>1. /\ UNCHANGED <<mode, changed, task, owner, closed, workVars, faults>>
      /\ room' \in {room, "active"}
  BY DEF AcceptResult, Accept, RestoreRoom, budgetVars
<1>2. RecordsTypeOK'
  BY <1>1, FaultAssumption DEF AcceptResult, Accept, RestoreRoom, Edit,
     RecordsTypeOK, Entries, workVars, budgetVars
<1>3. UNCHANGED <<co, applyVars, patchVars, deliveryVars>>
  BY <1>1 DEF workVars
<1>4. ApplyTypeOK' /\ PatchTypeOK' /\ DeliveryTypeOK'
  BY <1>3 DEF ApplyTypeOK, PatchTypeOK, DeliveryTypeOK, applyVars, patchVars,
     deliveryVars, worldVars, ghostVars
<1>5. CASE room' = room
  BY <1>1, <1>2, <1>3, <1>4, <1>5, LegacyFrame, PatchFrame, BranchFrame
  DEF OwnerKnown
<1>6. CASE room' = "active"
  <2>1. LegacyInvariant'
    BY <1>1, <1>3, <1>6 DEF LegacyInvariant, CheckoutKnown, ApplyKnows,
       LegacyKnown, Applied, Pending, applyVars
  <2>2. PatchInvariant'
    BY <1>1, <1>3, <1>6 DEF PatchInvariant, PatchKnown, PatchKnows, Files,
       patchVars
  <2>3. ConfirmKnows' /\ OperationsKnown' /\ EffectsKnown'
    BY <1>1, <1>3 DEF BranchInvariant, ConfirmKnows, OperationsKnown,
       EffectsKnown, MadeKnown, RemoteKnown, Kind, OnBranch, MergedOnHost,
       Uncertain, Done, Is, deliveryVars, worldVars, ghostVars
  <2>4. BranchKnown'
    BY <1>1, <1>3, <1>6 DEF BranchInvariant, BranchKnown, CleanupKeepsWork,
       MergedOnHost, deliveryVars, worldVars, ghostVars
  <2> QED
    BY <1>1, <1>2, <1>4, <2>1, <2>2, <2>3, <2>4 DEF BranchInvariant, OwnerKnown
<1> QED
  BY <1>1, <1>5, <1>6

(* A Result is closed while nothing is under way or in doubt.              *)
LEMMA CloseKeeps ==
  ASSUME DeliveryInvariant, CloseResult
  PROVE  DeliveryInvariant'
<1> USE DEF DeliveryInvariant, TypeOK
<1>1. /\ aj.at = "idle" /\ pj.at = "idle" /\ dj.at = "idle"
      /\ room = "active" /\ closed = {} /\ ~Unresolved
      /\ Entries \ Retained # {} /\ closed' = Entries \ Retained
      /\ UNCHANGED <<mode, changed, run, task, room, owner, workVars, edits,
                     faults>>
  BY DEF CloseResult, Idle, budgetVars
<1>2. UNCHANGED <<co, applyVars, patchVars, deliveryVars>>
  BY <1>1 DEF workVars
<1>3. RecordsTypeOK'
  BY <1>1, <1>2 DEF RecordsTypeOK, Entries
<1>4. ApplyTypeOK' /\ PatchTypeOK' /\ DeliveryTypeOK'
  BY <1>2 DEF ApplyTypeOK, PatchTypeOK, DeliveryTypeOK, applyVars, patchVars,
     deliveryVars, worldVars, ghostVars
<1>5. LegacyInvariant'
  <2>1. CASE mode # "legacy"
    BY <1>1, <1>2, <2>1, LegacyFrame
  <2>2. CASE mode = "legacy"
    <3>1. CheckoutKnown' /\ ApplyKnows'
      BY <1>1, <1>2 DEF LegacyInvariant, CheckoutKnown, ApplyKnows, applyVars
    <3>2. closed' \cap wrote = {}
      BY <1>1, <2>2 DEF LegacyInvariant, CheckoutKnown, Unresolved, Retained,
         Applied, Entries, Repos
    <3>3. LegacyKnown'
      BY <1>1, <1>2, <2>2, <3>2 DEF LegacyInvariant, LegacyKnown, Applied,
         applyVars
    <3> QED
      BY <3>1, <3>3 DEF LegacyInvariant
  <2> QED
    BY <2>1, <2>2
<1>6. PatchInvariant'
  <2>1. CASE mode # "patch"
    BY <1>1, <1>2, <2>1, PatchFrame
  <2>2. CASE mode = "patch"
    <3>1. app \in {"none", "conflict"}
      <4>1. app \notin {"applying", "recovery_required"}
        BY <1>1 DEF Unresolved
      <4>2. app # "applied"
        BY <1>1, <2>2 DEF Retained, Entries
      <4> QED
        BY <4>1, <4>2 DEF PatchTypeOK, Applications
    <3> QED
      BY <1>1, <1>2, <2>2, <3>1 DEF PatchInvariant, PatchKnown, PatchKnows,
         Files, patchVars
  <2> QED
    BY <2>1, <2>2
<1>7. BranchInvariant'
  <2>1. CASE mode # "branch"
    BY <1>1, <1>2, <2>1, BranchFrame
  <2>2. CASE mode = "branch"
    <3>1. Uncertain = {}
      BY <1>1 DEF Unresolved
    <3>2. \A o \in Ops : ops[o].state = "succeeded" =>
                           ops[o].kind \in {"cleanup", "discard"}
      BY <1>1, <2>2 DEF Retained, Entries
    <3>3. ConfirmKnows' /\ OperationsKnown' /\ EffectsKnown'
      BY <1>1, <1>2 DEF BranchInvariant, ConfirmKnows, OperationsKnown,
         EffectsKnown, MadeKnown, RemoteKnown, OnBranch, Uncertain, Done, Is,
         deliveryVars, worldVars, ghostVars
    <3>4. BranchKnown'
      BY <1>1, <1>2, <2>2, <3>1, <3>2 DEF BranchInvariant, BranchKnown,
         CleanupKeepsWork, Uncertain, deliveryVars, worldVars, ghostVars
    <3> QED
      BY <3>3, <3>4 DEF BranchInvariant
  <2> QED
    BY <2>1, <2>2
<1> QED
  BY <1>1, <1>3, <1>4, <1>5, <1>6, <1>7 DEF OwnerKnown

(* A Room is archived while nothing is in doubt, a project's one only when *)
(* everything is closed or delivered.                                      *)
LEMMA ArchiveKeeps ==
  ASSUME DeliveryInvariant, ArchiveRoom
  PROVE  DeliveryInvariant'
<1> USE DEF DeliveryInvariant, TypeOK
<1>1. /\ ~Unresolved /\ (owner = "project" => ~Unfinished)
      /\ room' = "archived"
      /\ UNCHANGED <<mode, changed, run, task, owner, closed, workVars, edits,
                     faults>>
  BY DEF ArchiveRoom, budgetVars
<1>2. UNCHANGED <<co, applyVars, patchVars, deliveryVars>>
  BY <1>1 DEF workVars
<1>3. RecordsTypeOK'
  BY <1>1, <1>2 DEF RecordsTypeOK, Entries
<1>4. ApplyTypeOK' /\ PatchTypeOK' /\ DeliveryTypeOK'
  BY <1>2 DEF ApplyTypeOK, PatchTypeOK, DeliveryTypeOK, applyVars, patchVars,
     deliveryVars, worldVars, ghostVars
<1>5. LegacyInvariant'
  <2>1. CheckoutKnown' /\ ApplyKnows'
    BY <1>1, <1>2 DEF LegacyInvariant, CheckoutKnown, ApplyKnows, Pending,
       applyVars
  <2>2. mode = "legacy" =>
          /\ changed \subseteq closed \cup Applied
          /\ \A r \in Repos : step[r] \notin {"writing", "uncertain"}
    BY <1>1 DEF OwnerKnown, Unfinished, Unresolved
  <2>3. LegacyKnown'
    BY <1>1, <1>2, <2>2 DEF LegacyInvariant, LegacyKnown, Applied, applyVars
  <2> QED
    BY <2>1, <2>3 DEF LegacyInvariant
<1>6. PatchInvariant'
  BY <1>1, <1>2 DEF PatchInvariant, PatchKnown, PatchKnows, Files, Unresolved,
     patchVars
<1>7. BranchInvariant'
  <2>1. Uncertain' = {}
    BY <1>1, <1>2 DEF Unresolved, Uncertain, deliveryVars
  <2>2. ConfirmKnows' /\ OperationsKnown' /\ EffectsKnown'
    BY <1>1, <1>2 DEF BranchInvariant, ConfirmKnows, OperationsKnown,
       EffectsKnown, MadeKnown, RemoteKnown, Kind, OnBranch, MergedOnHost,
       Uncertain, Done, Is, deliveryVars, worldVars, ghostVars
  <2>3. BranchKnown'
    BY <1>1, <1>2, <2>1 DEF BranchInvariant, BranchKnown, CleanupKeepsWork,
       MergedOnHost, deliveryVars, worldVars, ghostVars
  <2> QED
    BY <2>2, <2>3 DEF BranchInvariant
<1> QED
  BY <1>1, <1>3, <1>4, <1>5, <1>6, <1>7 DEF OwnerKnown

(* A step of one mode.                                                     *)
LEMMA ModesKeep ==
  ASSUME DeliveryInvariant,
         \/ ApplyNext /\ UNCHANGED <<patchVars, deliveryVars>>
         \/ PatchNext /\ UNCHANGED <<applyVars, deliveryVars>>
         \/ DeliveryNext /\ UNCHANGED <<applyVars, patchVars>>
  PROVE  DeliveryInvariant'
<1> USE DEF DeliveryInvariant, TypeOK
<1>1. ASSUME UNCHANGED applyVars
      PROVE  ApplyTypeOK'
  BY <1>1 DEF ApplyTypeOK, applyVars
<1>2. ASSUME UNCHANGED patchVars
      PROVE  PatchTypeOK'
  BY <1>2 DEF PatchTypeOK, patchVars
<1>3. ASSUME UNCHANGED deliveryVars
      PROVE  DeliveryTypeOK'
  BY <1>3 DEF DeliveryTypeOK, deliveryVars, worldVars, ghostVars
<1>4. CASE ApplyNext /\ UNCHANGED <<patchVars, deliveryVars>>
  <2>1. RecordsTypeOK' /\ ApplyTypeOK'
    BY <1>4, ApplyTypes DEF LegacyInvariant
  <2>2. mode = "legacy" /\ UNCHANGED <<mode, closed, room>> /\ LegacyInvariant'
    <3>1. CASE \/ ApplyBegins \/ PreflightSkips \/ PreflightNoChange
               \/ PreflightReconciles \/ PreflightRefuses \/ PreflightPasses
      BY <3>1, PreflightKeeps DEF recordVars, resultVars
    <3>2. CASE \/ ApplyMarks \/ ApplyChecks \/ ApplyFindsChange \/ ApplyPatches
               \/ ApplySettles \/ ApplyCloses \/ ApplyIsLost \/ LegacyEdits
      BY <3>2, WritesKeep
    <3> QED
      BY <1>4, <3>1, <3>2 DEF ApplyNext
  <2>3. owner' = owner
    BY <1>4 DEF ApplyNext, ApplyBegins, PreflightSkips, PreflightNoChange,
       PreflightReconciles, PreflightRefuses, PreflightPasses, ApplyMarks,
       ApplyChecks, ApplyFindsChange, ApplyPatches, ApplySettles, ApplyCloses,
       CloseTask, ApplyIsLost, LegacyEdits, LegacyEdit, recordVars, resultVars
  <2>4. PatchInvariant' /\ BranchInvariant'
    BY <1>4, <2>2, PatchFrame, BranchFrame
  <2> QED
    BY <1>2, <1>3, <1>4, <2>1, <2>2, <2>3, <2>4 DEF OwnerKnown
<1>5. CASE PatchNext /\ UNCHANGED <<applyVars, deliveryVars>>
  <2>1. RecordsTypeOK' /\ PatchTypeOK'
    BY <1>5, PatchTypes
  <2>2. /\ mode = "patch" /\ UNCHANGED <<mode, changed, owner, closed, room>>
        /\ PatchInvariant'
    BY <1>5, PatchKeeps
  <2>3. LegacyInvariant' /\ BranchInvariant'
    BY <1>5, <2>2, LegacyFrame, BranchFrame
  <2> QED
    BY <1>1, <1>3, <1>5, <2>1, <2>2, <2>3 DEF OwnerKnown
<1>6. CASE DeliveryNext /\ UNCHANGED <<applyVars, patchVars>>
  <2>1. RecordsTypeOK' /\ DeliveryTypeOK'
    BY <1>6, DeliveryTypes
  <2>2. mode = "branch" /\ UNCHANGED resultVars /\ BranchInvariant'
    BY <1>6, DeliveryKeeps
  <2>3. LegacyInvariant' /\ PatchInvariant'
    BY <1>6, <2>2, LegacyFrame, PatchFrame DEF resultVars
  <2> QED
    BY <1>1, <1>2, <1>6, <2>1, <2>2, <2>3 DEF OwnerKnown, resultVars
<1> QED
  BY <1>4, <1>5, <1>6

(* Every step keeps the invariant.                                         *)
LEMMA StepKeeps ==
  ASSUME DeliveryInvariant, [Next]_vars
  PROVE  DeliveryInvariant'
<1>1. CASE UNCHANGED vars
  <2>1. /\ UNCHANGED <<recordVars, applyVars, patchVars, deliveryVars>>
        /\ UNCHANGED <<mode, changed, task, room, owner, closed, co>>
    BY <1>1 DEF vars, recordVars, resultVars
  <2>2. TypeOK'
    BY <2>1 DEF DeliveryInvariant, TypeOK, RecordsTypeOK, ApplyTypeOK,
       PatchTypeOK, DeliveryTypeOK, Entries, recordVars, resultVars,
       budgetVars, applyVars, patchVars, deliveryVars, worldVars, ghostVars
  <2> QED
    BY <2>1, <2>2, LegacyFrame, PatchFrame, BranchFrame
    DEF DeliveryInvariant, OwnerKnown
<1>2. CASE Next
  BY <1>2, AcceptKeeps, CloseKeeps, ArchiveKeeps, ModesKeep DEF Next
<1> QED
  BY <1>1, <1>2

(* The invariant of the three delivery modes: what the records, the        *)
(* checkouts, the Task branch and the remote say of one another after any  *)
(* sequence of commands, failures, losses and edits of the person.         *)
THEOREM Safety == Spec => []DeliveryInvariant
<1>1. Init => DeliveryInvariant
  BY InitHolds
<1>2. DeliveryInvariant /\ [Next]_vars => DeliveryInvariant'
  BY StepKeeps
<1> QED
  BY <1>1, <1>2, PTL DEF Spec
-----------------------------------------------------------------------------
(***************************************************************************)
(* What the invariant says of the properties.                              *)
(***************************************************************************)
(* Every variable stays in its domain.                                     *)
THEOREM TypeCorrect == Spec => []TypeOK
<1>1. DeliveryInvariant => TypeOK
  BY DEF DeliveryInvariant
<1> QED
  BY <1>1, Safety, PTL

(* A write of Chora is announced in the steps of its repository until it   *)
(* is proven or gone.                                                      *)
THEOREM AnnouncedWrites == Spec => []WritesAreAnnounced
<1>1. DeliveryInvariant => WritesAreAnnounced
  <2> SUFFICES ASSUME DeliveryInvariant PROVE WritesAreAnnounced
    OBVIOUS
  <2>1. \A r \in wrote : step[r] \in {"writing", "uncertain", "applied"}
    BY DEF DeliveryInvariant, TypeOK, ApplyTypeOK, LegacyInvariant,
       CheckoutKnown
  <2>2. writer => app \in {"applying", "applied", "recovery_required"} \/ doubted
    BY DEF DeliveryInvariant, TypeOK, PatchTypeOK, Applications,
       PatchInvariant, PatchKnown
  <2> QED
    BY <2>1, <2>2 DEF WritesAreAnnounced
<1> QED
  BY <1>1, Safety, PTL

(* Nothing is recorded as applied that was not in the checkout.            *)
THEOREM AppliedIsThere == Spec => []AppliedWasThere
<1>1. DeliveryInvariant => AppliedWasThere
  <2> SUFFICES ASSUME DeliveryInvariant PROVE AppliedWasThere
    OBVIOUS
  <2>1. Applied \cap changed \subseteq landed
    BY DEF DeliveryInvariant, LegacyInvariant, CheckoutKnown, Applied
  <2>2. app = "applied" => present
    BY DEF DeliveryInvariant, PatchInvariant, PatchKnown
  <2>3. ASSUME task = "closed"
        PROVE  changed \subseteq Retained
    <3>1. mode # "branch" /\ mode \in {"legacy", "patch", "branch"}
      BY <2>3, ModesAssumption DEF DeliveryInvariant, TypeOK, RecordsTypeOK,
         BranchInvariant, BranchKnown
    <3>2. CASE mode = "legacy"
      BY <2>3, <3>2 DEF DeliveryInvariant, LegacyInvariant, LegacyKnown,
         Retained
    <3>3. CASE mode = "patch"
      <4>1. app = "applied"
        BY <2>3, <3>3 DEF DeliveryInvariant, PatchInvariant, PatchKnown
      <4>2. changed \subseteq {1}
        BY <3>3 DEF DeliveryInvariant, TypeOK, RecordsTypeOK, Entries
      <4> QED
        BY <3>3, <4>1, <4>2 DEF Retained
    <3> QED
      BY <3>1, <3>2, <3>3
  <2> QED
    BY <2>1, <2>2, <2>3 DEF AppliedWasThere
<1> QED
  BY <1>1, Safety, PTL

(* The first write follows the preflight of every repository.              *)
THEOREM PreflightIsComplete == Spec => []PreflightCoversAll
<1>1. DeliveryInvariant => PreflightCoversAll
  BY DEF DeliveryInvariant, LegacyInvariant, ApplyKnows, PreflightCoversAll
<1> QED
  BY <1>1, Safety, PTL

(* What the records of a closed Result exclude is not there, and cannot    *)
(* come.                                                                   *)
LEMMA ClosedBranch ==
  ASSUME DeliveryInvariant, closed # {}, mode = "branch"
  PROVE  /\ made \subseteq stirred \cup misread
         /\ remote # "commit" /\ Requests \subseteq {0}
<1> USE DEF DeliveryInvariant, BranchInvariant
<1>1. \A o \in Ops : /\ ops[o].state \in Unsure => ops[o].kind = "discard"
                     /\ ops[o].state = "succeeded" =>
                          ops[o].kind \in {"cleanup", "discard"}
  BY DEF BranchKnown
<1>2. Done("commit") = {} /\ Done("push") = {}
  BY <1>1 DEF Done, Is
<1>3. ASSUME NEW o \in made, o \notin stirred \cup misread
      PROVE  FALSE
  <2>1. o \in Ops /\ ops[o].kind = "commit" /\ sent[o] > 0
    BY <1>3 DEF EffectsKnown, MadeKnown, TypeOK, DeliveryTypeOK
  <2>2. ops[o].state \in States \ {"preview"}
    BY <2>1 DEF OperationsKnown, NoOp
  <2>3. ops[o].state # "failed"
    BY <1>3, <2>1 DEF OperationsKnown
  <2> QED
    BY <1>1, <2>1, <2>2, <2>3 DEF States, Unsure
<1>4. remote # "commit"
  BY <1>2 DEF EffectsKnown, RemoteKnown, OperationsKnown
<1>5. \A o \in Ops : prs[o] = "none"
  BY <1>2 DEF EffectsKnown, RemoteKnown, OperationsKnown
<1>6. \A o \in 0..MaxOps : o \in Ops \/ o = 0
  BY OpsAssumption DEF Ops
<1> QED
  BY <1>3, <1>4, <1>5, <1>6 DEF Requests

(* A closed Result has left nothing of itself behind.                      *)
THEOREM ClosedIsEmpty == Spec => []ClosedLeftNothing
<1>1. DeliveryInvariant => ClosedLeftNothing
  <2> SUFFICES ASSUME DeliveryInvariant PROVE ClosedLeftNothing
    OBVIOUS
  <2>1. closed \cap wrote = {} \/ mode # "legacy"
    BY DEF DeliveryInvariant, LegacyInvariant, LegacyKnown
  <2>2. closed # {} /\ writer => doubted
    BY DEF DeliveryInvariant, PatchInvariant, PatchKnown
  <2> QED
    BY <2>1, <2>2, ClosedBranch DEF ClosedLeftNothing
<1> QED
  BY <1>1, Safety, PTL

(* No side effect is started twice, or while another one is in doubt.      *)
THEOREM EffectsAreStartedOnce == Spec => []NeverReplayed
<1>1. DeliveryInvariant => NeverReplayed
  <2> SUFFICES ASSUME DeliveryInvariant PROVE NeverReplayed
    OBVIOUS
  <2> USE DEF DeliveryInvariant, BranchInvariant
  <2>1. \A o \in Ops : sent[o] <= 1
    BY DEF OperationsKnown
  <2>2. CASE Uncertain = {}
    BY <2>1, <2>2, FS_EmptySet DEF NeverReplayed
  <2>3. ASSUME NEW o \in Uncertain
        PROVE  NeverReplayed
    <3>1. Uncertain = {o}
      BY <2>3 DEF OperationsKnown
    <3>2. Cardinality(Uncertain) = 1
      BY <3>1, FS_Singleton
    <3> QED
      BY <2>1, <3>2 DEF NeverReplayed
  <2> QED
    BY <2>2, <2>3
<1> QED
  BY <1>1, Safety, PTL

(* A failed operation did nothing and never will.                          *)
THEOREM FailuresAreClean == Spec => []FailedDidNothing
<1>1. DeliveryInvariant => FailedDidNothing
  BY DEF DeliveryInvariant, BranchInvariant, OperationsKnown, FailedDidNothing
<1> QED
  BY <1>1, Safety, PTL

(* At most one pull request is Chora's.                                    *)
THEOREM RequestIsUnique == Spec => []OnePullRequest
<1>1. DeliveryInvariant => OnePullRequest
  <2> SUFFICES ASSUME DeliveryInvariant PROVE OnePullRequest
    OBVIOUS
  <2> USE DEF DeliveryInvariant, BranchInvariant
  <2>1. ASSUME NEW o \in Requests \ {0}
        PROVE  o \in Ops /\ ops[o].kind = "pr" /\ ops[o].state \in Started
    <3>1. o \in Ops /\ prs[o] # "none"
      BY <2>1, OpsAssumption DEF Requests, Ops
    <3>2. ops[o].kind = "pr" /\ sent[o] > 0
      BY <3>1 DEF EffectsKnown, RemoteKnown
    <3>3. ops[o].state \in States \ {"preview"}
      BY <3>1, <3>2 DEF OperationsKnown, NoOp
    <3>4. ops[o].state # "failed"
      BY <3>1, <3>2 DEF OperationsKnown
    <3> QED
      BY <3>1, <3>2, <3>3, <3>4 DEF States, Started, Unsure
  <2>2. \A o, p \in Requests \ {0} : o = p
    BY <2>1 DEF OperationsKnown
  <2>3. CASE Requests \ {0} = {}
    BY <2>3, FS_EmptySet DEF OnePullRequest
  <2>4. ASSUME NEW o \in Requests \ {0}
        PROVE  OnePullRequest
    <3>1. Requests \ {0} = {o}
      BY <2>2, <2>4
    <3>2. Cardinality(Requests \ {0}) = 1
      BY <3>1, FS_Singleton
    <3> QED
      BY <3>2 DEF OnePullRequest
  <2> QED
    BY <2>3, <2>4
<1> QED
  BY <1>1, Safety, PTL

(* The worktree goes only after the merge, with nothing unreviewed in it.  *)
THEOREM CleanupIsSafe == Spec => []CleanupKeepsWork
<1>1. DeliveryInvariant => CleanupKeepsWork
  BY DEF DeliveryInvariant, BranchInvariant, BranchKnown
<1> QED
  BY <1>1, Safety, PTL

(* An archived Room has nothing under way, nothing in doubt and nothing    *)
(* that is delivered and not recorded.                                     *)
THEOREM ArchiveIsSettled == Spec => []ArchivedIsSettled
<1>1. DeliveryInvariant => ArchivedIsSettled
  <2> SUFFICES ASSUME DeliveryInvariant, room = "archived"
               PROVE  ArchivedIsSettled
    BY DEF ArchivedIsSettled
  <2> USE DEF DeliveryInvariant
  <2>1. Uncertain = {}
    BY DEF BranchInvariant, BranchKnown
  <2>2. dj.at = "idle"
    BY <2>1, ConfirmIsUncertain
  <2>3. pj.at = "idle"
    BY DEF PatchInvariant, PatchKnows, PatchKnown
  <2>4. aj.at \notin {"check", "patch", "ran", "failed"}
    BY DEF LegacyInvariant, ApplyKnows, LegacyKnown
  <2>5. wrote \subseteq Applied
    BY DEF TypeOK, ApplyTypeOK, LegacyInvariant, CheckoutKnown, LegacyKnown,
       Applied
  <2>6. writer => app = "applied" \/ doubted
    BY DEF TypeOK, PatchTypeOK, Applications, PatchInvariant, PatchKnown
  <2> QED
    BY <2>1, <2>2, <2>3, <2>4, <2>5, <2>6 DEF ArchivedIsSettled
<1> QED
  BY <1>1, Safety, PTL
-----------------------------------------------------------------------------
(***************************************************************************)
(* The operations are a ledger of side effects.                            *)
(***************************************************************************)
(* A record moves and no other does.                                       *)
LEMMA RecordsMove ==
  ASSUME NEW o \in Ops, \A p \in Ops \ {o} : ops'[p].state = ops[p].state
  PROVE  Records' = [Records EXCEPT ![o] = RecordOf(o)']
<1>1. \A p \in Ops \ {o} : RecordOf(p)' = RecordOf(p)
  BY DEF RecordOf
<1> QED
  BY <1>1 DEF Records

LEMMA RecordsStay ==
  ASSUME \A p \in Ops : RecordOf(p)' = RecordOf(p)
  PROVE  Records' = Records
BY DEF Records

LEMMA BlindStays ==
  ASSUME \A p \in Ops : ops'[p].kind = ops[p].kind
  PROVE  Blind' = Blind
BY DEF Blind

(* The ledger reads nothing but the operations, the confirmation under way *)
(* and the effects started.                                                *)
LEMMA LedgerFrame ==
  ASSUME UNCHANGED <<ops, dj, sent>>
  PROVE  UNCHANGED Ledger!ledgerVars
BY DEF Ledger!ledgerVars, Records, RecordOf, InHand, Blind

(* An open operation keeps its record or is given its outcome.             *)
LEMMA LedgerSettles ==
  ASSUME OperationsKnown', NEW o \in Uncertain, sent \in [Ops -> 0..2],
         \A p \in Ops : ops'[p].kind = ops[p].kind,
         \A p \in Ops \ {o} : ops'[p] = ops[p],
         ops'[o].state \in Unsure \cup {"succeeded", "failed"},
         UNCHANGED sent, InHand' = InHand \ {o}
  PROVE  Ledger!Settle(o)
<1>1. o \in Ops /\ ops[o].state \in Unsure
  BY DEF Uncertain
<1>2. Records[o] = "open"
  BY <1>1 DEF Records, RecordOf
<1>3. Records' = [Records EXCEPT ![o] = RecordOf(o)']
  BY <1>1, RecordsMove
<1>4. RecordOf(o)' \in {"open", "succeeded", "failed"}
  BY DEF RecordOf
<1>5. (RecordOf(o)' = "failed" /\ o \in Blind) => sent[o] = 0
  <2> SUFFICES ASSUME RecordOf(o)' = "failed", o \in Blind PROVE sent[o] = 0
    OBVIOUS
  <2>1. ops'[o].state = "failed" /\ ops'[o].kind \notin {"commit", "push"}
    BY <1>1 DEF RecordOf, Blind
  <2> QED
    BY <1>1, <2>1 DEF OperationsKnown
<1>6. Blind' = Blind
  BY BlindStays
<1> QED
  BY <1>2, <1>3, <1>4, <1>5, <1>6 DEF Ledger!Settle

(* The confirmation in hand begins its effect, whatever is answered.       *)
LEMMA LedgerBegins ==
  ASSUME DeliveryTypeOK, BranchInvariant, dj.at = "mutate", Starts,
         \A p \in Ops : ops'[p].kind = ops[p].kind,
         \A p \in Ops \ {dj.op} : ops'[p] = ops[p],
         ops'[dj.op].state \in Unsure, dj'.at \in {"prove", "idle"}
  PROVE  dj.op \in Ops /\ Ledger!Begin(dj.op)
<1>1. dj.op \in Ops /\ ops[dj.op].state \in Unsure
  BY ConfirmIsUncertain DEF Uncertain
<1>2. InHand = {dj.op} /\ InHand' = {}
  BY DEF InHand
<1>3. Records' = Records
  BY <1>1, RecordsStay DEF RecordOf
<1>4. Blind' = Blind
  BY BlindStays
<1>5. sent' = [sent EXCEPT ![dj.op] = sent[dj.op] + 1]
  BY DEF Starts
<1>6. dj.op \in InHand /\ InHand' = InHand \ {dj.op}
  BY <1>2
<1> QED
  BY <1>1, <1>3, <1>4, <1>5, <1>6 DEF Ledger!Begin

(* A preview opens no effect and a confirmation takes one in hand.         *)
LEMMA LedgerPreviews ==
  ASSUME DeliveryTypeOK, NEW k \in Kinds, Preview(k)
  PROVE  \E o \in Ops : Ledger!Preview(o)
<1>1. PICK o \in Ops : /\ ops[o] = NoOp
                       /\ ops' = [ops EXCEPT ![o] = [NoOp EXCEPT
                            !.kind = k, !.state = "preview", !.saw = Saw(k)]]
  BY DEF Preview
<1>2. Uncertain = {} /\ UNCHANGED <<dj, sent>>
  BY DEF Preview, ghostVars
<1>3. /\ \A p \in Ops \ {o} : ops'[p] = ops[p]
      /\ ops[o].state = "none" /\ ops[o].kind = "none"
      /\ ops'[o].state = "preview"
  BY <1>1 DEF DeliveryTypeOK, NoOp
<1>4. Ledger!AllSettled /\ Records[o] = "none"
  BY <1>2, <1>3 DEF Ledger!AllSettled, Records, RecordOf, Uncertain, Unsure,
                    DeliveryTypeOK, Operation, States
<1>5. Records' = [Records EXCEPT ![o] = "preview"]
  <2>1. RecordOf(o)' = "preview"
    BY <1>3 DEF RecordOf, Unsure
  <2> QED
    BY <1>3, <2>1, RecordsMove
<1>6. Blind' \in {Blind, Blind \cup {o}}
  <2>1. \A p \in Ops \ {o} : ops'[p].kind = ops[p].kind
    BY <1>3
  <2>2. CASE ops'[o].kind \in Kinds \ {"commit", "push"}
    <3>1. Blind' = Blind \cup {o}
      BY <2>1, <2>2 DEF Blind
    <3> QED
      BY <3>1
  <2>3. CASE ops'[o].kind \notin Kinds \ {"commit", "push"}
    <3>1. Blind' = Blind
      BY <1>3, <2>1, <2>3 DEF Blind, Kinds
    <3> QED
      BY <3>1
  <2> QED
    BY <2>2, <2>3
<1>7. InHand' = InHand
  BY <1>2 DEF InHand
<1> QED
  BY <1>2, <1>4, <1>5, <1>6, <1>7 DEF Ledger!Preview

LEMMA LedgerConfirms ==
  ASSUME DeliveryTypeOK, NEW o \in Ops, ConfirmMarks(o)
  PROVE  Ledger!Confirm(o)
<1>1. /\ ops[o].state = "preview" /\ Undisturbed(o)
      /\ ops' = [ops EXCEPT ![o].state = "writing"]
      /\ dj' = [at |-> "check", op |-> o] /\ UNCHANGED sent
  BY DEF ConfirmMarks, ghostVars
<1>2. /\ \A p \in Ops : ops'[p].kind = ops[p].kind
      /\ \A p \in Ops \ {o} : ops'[p] = ops[p]
      /\ ops'[o].state = "writing"
  BY <1>1 DEF DeliveryTypeOK, Operation
<1>3. Ledger!AllSettled /\ Records[o] = "preview"
  <2>1. \A p \in Ops : ops[p].state \in States \cup {"none"} /\
                       ops[p].state \notin Unsure
    BY <1>1 DEF Undisturbed, Unsure, DeliveryTypeOK, Operation
  <2> QED
    BY <1>1, <2>1 DEF Ledger!AllSettled, Records, RecordOf, States
<1>4. Records' = [Records EXCEPT ![o] = "open"]
  <2>1. RecordOf(o)' = "open"
    BY <1>2 DEF RecordOf, Unsure
  <2> QED
    BY <1>2, <2>1, RecordsMove
<1>5. InHand' = {o}
  BY <1>1 DEF InHand
<1> QED
  BY <1>1, <1>2, <1>3, <1>4, <1>5, BlindStays DEF Ledger!Confirm

(* A confirmation settles its operation before or after the effect.        *)
LEMMA LedgerConfirmed ==
  ASSUME DeliveryTypeOK, BranchInvariant, OperationsKnown', dj.at # "idle",
         NEW s \in {"succeeded", "failed", "recovery_required"}, Settle(s),
         UNCHANGED sent
  PROVE  dj.op \in Ops /\ Ledger!Settle(dj.op)
<1>1. dj.op \in Ops /\ dj.op \in Uncertain
  BY ConfirmIsUncertain
<1>2. InHand' = {} /\ InHand \subseteq {dj.op}
  BY DEF Settle, NoConfirm, InHand
<1>3. sent \in [Ops -> 0..2] /\ InHand' = InHand \ {dj.op}
  BY <1>2 DEF DeliveryTypeOK
<1> QED
  BY <1>1, <1>3, SettleMoves, LedgerSettles DEF Unsure

(* It goes on to its next phase, or is lost before or after the effect.    *)
LEMMA LedgerGoesOn ==
  ASSUME DeliveryTypeOK, BranchInvariant, OperationsKnown', dj.at # "idle",
         UNCHANGED <<ops, sent>>,
         \/ dj' = NoConfirm
         \/ /\ dj.at \in {"check", "lock"}
            /\ \E phase \in {"lock", "mutate"} : To(phase)
  PROVE  \/ \E o \in Ops : Ledger!Settle(o)
         \/ UNCHANGED Ledger!ledgerVars
<1>1. dj.op \in Ops /\ dj.op \in Uncertain
  BY ConfirmIsUncertain
<1>2. Records' = Records /\ Blind' = Blind
  BY DEF Records, RecordOf, Blind
<1>3. CASE dj' = NoConfirm
  <2>1. InHand' = {} /\ InHand \subseteq {dj.op}
    BY <1>3 DEF NoConfirm, InHand
  <2>2. sent \in [Ops -> 0..2] /\ InHand' = InHand \ {dj.op}
    BY <2>1 DEF DeliveryTypeOK
  <2>3. ops[dj.op].state \in Unsure
    BY <1>1 DEF Uncertain
  <2> QED
    BY <1>1, <2>2, <2>3, LedgerSettles
<1>4. CASE /\ dj.at \in {"check", "lock"}
           /\ \E phase \in {"lock", "mutate"} : To(phase)
  <2>1. dj'.op = dj.op /\ dj'.at \in {"lock", "mutate"}
    BY <1>4 DEF To, DeliveryTypeOK, Confirm
  <2>2. InHand' = InHand
    BY <1>4, <2>1 DEF InHand
  <2> QED
    BY <1>2, <2>2 DEF Ledger!ledgerVars
<1> QED
  BY <1>3, <1>4

(* The effect of a confirmation begins.                                    *)
LEMMA LedgerStarts ==
  ASSUME DeliveryTypeOK, BranchInvariant, dj.at = "mutate", Starts,
         \/ dj'.at \in {"prove", "idle"} /\ UNCHANGED ops
         \/ Settle("recovery_required")
  PROVE  \E o \in Ops : Ledger!Begin(o)
<1>1. dj.op \in Ops /\ ops[dj.op].state = "writing"
  BY ConfirmIsUncertain
<1>2. CASE dj'.at \in {"prove", "idle"} /\ UNCHANGED ops
  BY <1>1, <1>2, LedgerBegins DEF Unsure
<1>3. CASE Settle("recovery_required")
  <2>1. dj'.at = "idle"
    BY <1>3 DEF Settle, NoConfirm
  <2> QED
    BY <1>1, <1>3, <2>1, SettleMoves, LedgerBegins DEF Unsure
<1> QED
  BY <1>2, <1>3

(* Every step of a Task branch that is not the person's is the ledger's.   *)
LEMMA LedgerSteps ==
  ASSUME TypeOK, BranchInvariant, OperationsKnown', DeliveryNext
  PROVE  \/ \E o \in Ops : \/ Ledger!Preview(o) \/ Ledger!Confirm(o)
                         \/ Ledger!Begin(o) \/ Ledger!Settle(o)
         \/ UNCHANGED Ledger!ledgerVars
<1> USE DEF TypeOK
<1>0. \A phase : dj.at # "idle" /\ To(phase) => dj'.at = phase
  BY DEF To, DeliveryTypeOK, Confirm
<1>1. CASE \/ \E o \in Ops : LateEffect(o)
           \/ PersonEdits \/ PersonStages \/ PersonSwitches \/ PersonCommits
           \/ PersonUnlocks \/ TargetAdvances \/ RemoteMoves
           \/ PersonRequests
  <2>1. UNCHANGED <<ops, dj, sent>>
    BY <1>1 DEF LateEffect, PersonEdits, PersonStages, PersonSwitches,
                PersonCommits, PersonUnlocks, TargetAdvances, RemoteMoves,
                PersonRequests, Personal, ghostVars
  <2> QED
    BY <2>1, LedgerFrame
<1>2. CASE \E k \in Kinds : Preview(k)
  BY <1>2, LedgerPreviews
<1>3. CASE \E o \in Ops : ConfirmMarks(o)
  BY <1>3, LedgerConfirms
<1>4. CASE ConfirmChecks \/ CheckFails \/ CommitLocks
  <2>1. dj.at \in {"check", "lock"} /\ UNCHANGED sent
    BY <1>4 DEF ConfirmChecks, CheckFails, CommitLocks, At, ghostVars
  <2>2. \/ \E s \in {"succeeded", "failed", "recovery_required"} : Settle(s)
        \/ UNCHANGED ops /\ \E phase \in {"lock", "mutate"} : To(phase)
    BY <1>4 DEF ConfirmChecks, CheckFails, CommitLocks, Unread
  <2> QED
    BY <2>1, <2>2, LedgerConfirmed, LedgerGoesOn
<1>5. CASE \/ CommitWrites \/ RemoteSends \/ RemoteFails
           \/ CleanupRemoves \/ RemovalFails
  <2>1. /\ dj.at = "mutate" /\ Starts
        /\ \/ To("prove") /\ UNCHANGED ops
           \/ Settle("recovery_required")
    BY <1>5 DEF CommitWrites, RemoteSends, RemoteFails, CleanupRemoves,
                RemovalFails, At
  <2> QED
    BY <1>0, <2>1, LedgerStarts
<1>6. CASE CommitProves \/ RemoteProves \/ CleanupProves \/ ProofFails
  <2>1. dj.at = "prove" /\ UNCHANGED sent
    BY <1>6 DEF CommitProves, RemoteProves, CleanupProves, ProofFails, At,
                ghostVars
  <2>2. \E s \in {"succeeded", "failed", "recovery_required"} : Settle(s)
    BY <1>6, ProofTypes DEF CommitProves, RemoteProves, CleanupProves,
                            ProofFails, Unread, Kind
  <2> QED
    BY <2>1, <2>2, LedgerConfirmed
<1>7. CASE ConfirmIsLost
  <2>1. dj.at # "idle" /\ dj' = NoConfirm /\ UNCHANGED ops
    BY <1>7 DEF ConfirmIsLost
  <2>2. UNCHANGED sent \/ (dj.at = "mutate" /\ Starts)
    BY <1>7 DEF ConfirmIsLost, LostBefore, LostCommit, LostCall, LostCleanup,
                At, ghostVars
  <2>3. CASE UNCHANGED sent
    BY <2>1, <2>3, LedgerGoesOn
  <2>4. CASE dj.at = "mutate" /\ Starts
    BY <2>1, <2>4, LedgerStarts DEF NoConfirm
  <2> QED
    BY <2>2, <2>3, <2>4
<1>8. ASSUME NEW o \in Ops, Refresh(o) \/ Reconfirm(o)
      PROVE  Ledger!Settle(o)
  <2>1. /\ dj.at = "idle" /\ o \in Uncertain /\ UNCHANGED <<dj, sent>>
        /\ InHand = {} /\ InHand' = {}
    BY <1>8 DEF Refresh, Reconfirm, Authority, ghostVars, InHand
  <2>2. \/ \E s \in {"succeeded", "failed", "recovery_required"}, b \in BOOLEAN :
             ops' = [ops EXCEPT ![o].state = s, ![o].merged = b]
        \/ \E s \in {"succeeded", "failed", "recovery_required"} :
             ops' = [ops EXCEPT ![o].state = s]
    <3>1. CASE Reconfirm(o)
      BY <3>1 DEF Reconfirm
    <3>2. CASE Refresh(o)
      <4>1. ops[o].kind \in Kinds \ {"discard"}
        BY <2>1, <3>2 DEF Refresh, Authority, BranchInvariant, BranchKnown,
                          OperationsKnown, Uncertain, Unsure, NoOp
      <4>2. Refreshed(o) \in {"succeeded", "failed", "recovery_required"}
        BY <4>1, ProofTypes
      <4> DEFINE b == Refreshed(o) = "succeeded" /\ Recorded(o)
      <4>3. b \in BOOLEAN
        OBVIOUS
      <4>4. \/ ops' = [ops EXCEPT ![o].state = Refreshed(o), ![o].merged = b]
            \/ \E s \in Unread : ops' = [ops EXCEPT ![o].state = s]
        BY <3>2 DEF Refresh
      <4> HIDE DEF b
      <4> QED
        BY <4>2, <4>3, <4>4 DEF Unread
    <3> QED
      BY <1>8, <3>1, <3>2
  <2>3. /\ \A p \in Ops : ops'[p].kind = ops[p].kind
        /\ \A p \in Ops \ {o} : ops'[p] = ops[p]
        /\ ops'[o].state \in {"succeeded", "failed", "recovery_required"}
    BY <2>2 DEF DeliveryTypeOK, Operation
  <2>4. sent \in [Ops -> 0..2] /\ InHand' = InHand \ {o}
    BY <2>1 DEF DeliveryTypeOK
  <2> QED
    BY <2>1, <2>3, <2>4, LedgerSettles DEF Unsure
<1> QED
  BY <1>1, <1>2, <1>3, <1>4, <1>5, <1>6, <1>7, <1>8 DEF DeliveryNext

LEMMA LedgerImplemented ==
  ASSUME DeliveryInvariant, [Next]_vars
  PROVE  [Ledger!Next]_(Ledger!ledgerVars)
<1>1. /\ TypeOK /\ BranchInvariant /\ OperationsKnown'
  BY StepKeeps DEF DeliveryInvariant, BranchInvariant
<1>2. CASE DeliveryNext
  BY <1>1, <1>2, LedgerSteps DEF Ledger!Next
<1>3. CASE UNCHANGED deliveryVars
  <2>1. UNCHANGED <<ops, dj, sent>>
    BY <1>3 DEF deliveryVars, ghostVars
  <2> QED
    BY <2>1, LedgerFrame
<1> QED
  BY <1>2, <1>3 DEF Next, vars, AcceptResult, CloseResult, ArchiveRoom,
                    RestoreRoom, workVars

(* Whatever fails, is lost or is refreshed, the operations of a Task       *)
(* branch are a ledger in which an effect begins once.                     *)
THEOREM DeliveryKeepsLedger == Spec => ImplementsOnceLedger
<1>1. Init => Ledger!Init
  <2> SUFFICES ASSUME Init PROVE Ledger!Init
    OBVIOUS
  <2>1. /\ ops = [o \in Ops |-> NoOp] /\ dj = NoConfirm
        /\ sent = [o \in Ops |-> 0]
    BY DEF Init, DeliveryInit
  <2>2. \A o \in Ops : RecordOf(o) = "none" /\ ops[o].kind = "none"
    BY <2>1 DEF RecordOf, NoOp, Unsure
  <2>3. InHand = {} /\ Blind = {}
    BY <2>1, <2>2 DEF InHand, NoConfirm, Blind, Kinds
  <2>4. Records = [o \in Ops |-> "none"]
    BY <2>2 DEF Records
  <2> QED
    BY <2>1, <2>3, <2>4 DEF Ledger!Init
<1>2. DeliveryInvariant /\ [Next]_vars => [Ledger!Next]_(Ledger!ledgerVars)
  BY LedgerImplemented
<1> QED
  BY <1>1, <1>2, Safety, PTL DEF Spec, ImplementsOnceLedger, Ledger!Spec
=============================================================================
