--------------------------- MODULE ResourceApply ---------------------------
(***************************************************************************)
(* ApplyResourceResult (internal/app/resource_apply.go): one apply         *)
(* operation of an accepted Result writes the reviewed patches into the    *)
(* original checkouts of several repositories.  All of them are inspected  *)
(* before the first is written, every write is announced by a "writing"    *)
(* step, and a command that is lost between two of its steps is taken up   *)
(* by the next one from what the steps say.                                *)
(***************************************************************************)
EXTENDS ResultRecords

Repos == 1..RepoCount

VARIABLES
  planned,  \* the apply operation and its first steps are there
  step,     \* status of the latest step of each repository
  pre,      \* index that the pre-state of its evidence holds, "none" without
  aj,       \* the command that applies
  landed,   \* history: the exact post-state was there after a "writing" step
  wrote     \* history: a write of Chora is in the checkout

applyVars == <<planned, step, pre, aj, landed, wrote>>

Steps == {"planned", "preflight", "writing", "applied", "conflict",
          "uncertain"}
Pre == Indexes \cup {"none"}

(* A command: the phase and the repository it is at, whether its preflight *)
(* met an obstacle, what it inspected, and the prior pre-states it carries.*)
NoApply == [at |-> "idle", r |-> 0, blocked |-> FALSE,
            seen |-> [r \in Repos |-> "none"],
            prior |-> [r \in Repos |-> "none"]]
ApplyJob == [at : {"idle", "preflight", "mark", "check", "patch", "ran",
                   "failed"},
             r : 0..RepoCount, blocked : BOOLEAN,
             seen : [Repos -> Pre], prior : [Repos -> Pre]]

ApplyTypeOK == /\ planned \in BOOLEAN
               /\ step \in [Repos -> Steps]
               /\ pre \in [Repos -> Pre]
               /\ aj \in ApplyJob
               /\ landed \subseteq Repos /\ wrote \subseteq Repos

ApplyInit == /\ planned = FALSE
             /\ step = [r \in Repos |-> "planned"]
             /\ pre = [r \in Repos |-> "none"]
             /\ aj = NoApply
             /\ landed = {} /\ wrote = {}
-----------------------------------------------------------------------------
(* resourcePatchTarget.Inspect: a first inspection accepts only the frozen *)
(* base; one with a recorded pre-state accepts that pre-state or the exact *)
(* post-state, under the index that was recorded.                          *)
Inspect(r, prior) ==
  LET c == co[r] IN
  IF ~c.frozen \/ c.work = "unsafe" THEN "conflict"
  ELSE IF prior = "none"
       THEN IF c.index # "affected" /\ c.work = "base"
            THEN "applicable" ELSE "conflict"
       ELSE IF c.index # prior THEN "recovery"
            ELSE CASE c.work = "base" -> "applicable"
                   [] c.work = "post" -> "already"
                   [] OTHER -> "recovery"

(* The evidence that a retry may use: that of an announced write only.     *)
Prior(r) == IF step[r] \in {"writing", "uncertain"} THEN pre[r] ELSE "none"

(* Mutant: a first inspection that fails is always a conflict.             *)
RefusedConflict(s) == "conflict"

(* Mutant: a status that the step table does not know.                     *)
RefusedFailed(s) == IF s \in {"writing", "uncertain"} THEN "uncertain"
                    ELSE "failed"

(* Status of a repository that preflight refuses.                          *)
Refused(s) == IF s \in {"writing", "uncertain"} THEN "uncertain"
              ELSE "conflict"

(* AppendResourceApplyStep: refuses a closed entry and an applied step.    *)
Append(r, s) == /\ r \notin closed /\ step[r] # "applied"
                /\ step' = [step EXCEPT ![r] = s]

Pending == {r \in Repos : step[r] # "applied"}
NextRepo == CHOOSE r \in Pending : \A q \in Pending : r <= q
-----------------------------------------------------------------------------
(* The operation and its planned steps, one transaction.                   *)
ApplyBegins ==
  /\ mode = "legacy" /\ aj.at = "idle" /\ run = "accepted" /\ WithoutClosure
  /\ planned \/ room = "active"
  /\ planned' = TRUE
  /\ aj' = [NoApply EXCEPT !.at = "preflight", !.r = 1]
  /\ UNCHANGED <<recordVars, step, pre, landed, wrote>>

(* Mutant: an obstacle stops only the repository that has it.              *)
PreflightedAnyway(job) ==
  IF job.r < RepoCount THEN [job EXCEPT !.r = @ + 1]
  ELSE [job EXCEPT !.at = "mark", !.r = 0]

(* The preflight loop is done with one repository.                         *)
Preflighted(job) ==
  IF job.r < RepoCount THEN [job EXCEPT !.r = @ + 1]
  ELSE IF job.blocked THEN NoApply
       ELSE [job EXCEPT !.at = "mark", !.r = 0]

PreflightSkips ==
  /\ aj.at = "preflight" /\ step[aj.r] = "applied"
  /\ aj' = Preflighted(aj)
  /\ UNCHANGED <<recordVars, planned, step, pre, landed, wrote>>

PreflightNoChange ==
  /\ aj.at = "preflight" /\ step[aj.r] # "applied" /\ aj.r \notin changed
  /\ Append(aj.r, "applied")
  /\ aj' = Preflighted(aj)
  /\ UNCHANGED <<recordVars, planned, pre, landed, wrote>>

Inspecting(verdict) ==
  /\ aj.at = "preflight" /\ step[aj.r] # "applied" /\ aj.r \in changed
  /\ Inspect(aj.r, Prior(aj.r)) = verdict

PreflightReconciles ==
  /\ Inspecting("already")
  /\ Append(aj.r, "applied")
  /\ aj' = Preflighted(aj)
  /\ UNCHANGED <<recordVars, planned, pre, landed, wrote>>

PreflightRefuses ==
  /\ Inspecting("conflict") \/ Inspecting("recovery")
  /\ Append(aj.r, Refused(step[aj.r]))
  /\ aj' = Preflighted([aj EXCEPT !.blocked = TRUE])
  /\ UNCHANGED <<recordVars, planned, pre, landed, wrote>>

PreflightPasses ==
  /\ Inspecting("applicable")
  /\ Append(aj.r, "preflight")
  /\ pre' = [pre EXCEPT ![aj.r] = co[aj.r].index]
  /\ aj' = Preflighted([aj EXCEPT !.seen[aj.r] = co[aj.r].index,
                                  !.prior[aj.r] = Prior(aj.r)])
  /\ UNCHANGED <<recordVars, planned, landed, wrote>>
-----------------------------------------------------------------------------
(* The "writing" step announces the write of the next repository.          *)
ApplyMarks ==
  /\ aj.at = "mark" /\ Pending # {}
  /\ Append(NextRepo, "writing")
  /\ pre' = [pre EXCEPT ![NextRepo] = aj.seen[NextRepo]]
  /\ aj' = [aj EXCEPT !.at = "check", !.r = NextRepo]
  /\ landed' = IF co[NextRepo].work = "post" THEN landed \cup {NextRepo}
               ELSE landed
  /\ UNCHANGED <<recordVars, planned, wrote>>

(* resourcePatchTarget.Apply inspects again what preflight inspected.      *)
Unchanged(r) == Inspect(r, aj.prior[r]) = "applicable"
                /\ co[r].index = aj.seen[r]

ApplyChecks ==
  /\ aj.at = "check" /\ Unchanged(aj.r)
  /\ aj' = [aj EXCEPT !.at = "patch"]
  /\ UNCHANGED <<recordVars, planned, step, pre, landed, wrote>>

ApplyFindsChange ==
  /\ aj.at = "check" /\ ~Unchanged(aj.r)
  /\ Append(aj.r, IF Inspect(aj.r, aj.prior[aj.r]) = "recovery"
                  THEN "uncertain" ELSE "conflict")
  /\ aj' = NoApply
  /\ UNCHANGED <<recordVars, planned, pre, landed, wrote>>

(* git apply leaves w in the affected files.                               *)
Leaves(r, w) == /\ co' = [co EXCEPT ![r].work = w]
                /\ wrote' = IF w # co[r].work THEN wrote \cup {r} ELSE wrote
                /\ landed' = IF w = "post" THEN landed \cup {r} ELSE landed

ApplyPatches ==
  /\ aj.at = "patch"
  /\ \E w \in GitApply(co[aj.r].work) :
       /\ Leaves(aj.r, w)
       /\ \/ /\ w # co[aj.r].work /\ w = Patched[co[aj.r].work]
             /\ aj' = [aj EXCEPT !.at = "ran"]
          \/ aj' = [aj EXCEPT !.at = "failed"]
  /\ UNCHANGED <<resultVars, budgetVars, planned, step, pre>>

(* The checkout is the inspected one with these affected files.            *)
IsExactly(r, w) == co[r] = [work |-> w, index |-> aj.seen[r], frozen |-> TRUE]

(* Mutant: the exit status of git apply is proof enough.                   *)
OutcomeExit(r) == IF aj.at = "ran" THEN "applied"
                  ELSE IF IsExactly(r, "base") THEN "conflict"
                  ELSE "uncertain"

(* What the command records of a write it started.                         *)
Outcome(r) == CASE aj.at = "ran" /\ IsExactly(r, "post") -> "applied"
                [] aj.at = "failed" /\ IsExactly(r, "base") -> "conflict"
                [] OTHER -> "uncertain"

ApplySettles ==
  /\ aj.at \in {"ran", "failed"}
  /\ Append(aj.r, Outcome(aj.r))
  /\ aj' = IF step'[aj.r] = "applied" THEN [aj EXCEPT !.at = "mark"]
           ELSE NoApply
  /\ UNCHANGED <<recordVars, planned, pre, landed, wrote>>

(* Everything is applied: the Task is closed in a transaction of its own,  *)
(* which an archived Room refuses.                                         *)
ApplyCloses ==
  /\ aj.at = "mark" /\ Pending = {}
  /\ aj' = NoApply
  /\ IF task = "open" /\ room = "active" THEN CloseTask
     ELSE UNCHANGED resultVars
  /\ UNCHANGED <<co, budgetVars, planned, step, pre, landed, wrote>>

(* A save fails, the request is cancelled or the server is lost; a git     *)
(* apply that runs dies with it.                                           *)
ApplyIsLost ==
  /\ aj.at # "idle" /\ Fault
  /\ aj' = NoApply
  /\ IF aj.at = "patch"
     THEN \E w \in GitApply(co[aj.r].work) : Leaves(aj.r, w)
     ELSE UNCHANGED <<co, landed, wrote>>
  /\ UNCHANGED <<resultVars, edits, planned, step, pre>>

(* The person edits, stages, or moves HEAD; putting the affected files     *)
(* back removes what Chora wrote.                                          *)
LegacyEdit(r, c) ==
  /\ mode = "legacy" /\ r \in changed /\ c # co[r] /\ Edit
  /\ co' = [co EXCEPT ![r] = c]
  /\ wrote' = IF c.work \in Forward THEN wrote \ {r} ELSE wrote
  /\ landed' = IF c.work = "post" /\ step[r] \in {"writing", "uncertain"}
               THEN landed \cup {r} ELSE landed
  /\ UNCHANGED <<resultVars, faults, planned, step, pre, aj>>

LegacyEdits == \E r \in Repos, c \in Checkout :
                 /\ Cardinality({f \in DOMAIN c : c[f] # co[r][f]}) = 1
                 /\ LegacyEdit(r, c)

ApplyNext == \/ ApplyBegins \/ PreflightSkips \/ PreflightNoChange
             \/ PreflightReconciles \/ PreflightRefuses \/ PreflightPasses
             \/ ApplyMarks \/ ApplyChecks \/ ApplyFindsChange
             \/ ApplyPatches \/ ApplySettles \/ ApplyCloses
             \/ ApplyIsLost \/ LegacyEdits
=============================================================================
