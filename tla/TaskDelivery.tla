---------------------------- MODULE TaskDelivery ----------------------------
(***************************************************************************)
(* Delivery of an accepted Result from the Task branch of one repository:  *)
(* internal/app/task_delivery*.go and result_cleanup.go with the Git and   *)
(* GitHub adapters of internal/taskdelivery.  Every operation is a durable *)
(* record that is previewed, confirmed once, and, when its outcome is not  *)
(* proven, settled by a refresh that only reads.  The worktree, its        *)
(* index, the branches, the remote and the hosting service belong to the   *)
(* person as well, and a call to a remote may take effect after it failed. *)
(***************************************************************************)
EXTENDS ResultRecords

CONSTANT MaxOps   \* bound on delivery operations

ASSUME OpsAssumption == MaxOps \in Nat

Ops == 1..MaxOps

VARIABLES
  ops,      \* task_delivery_operations in the order of their creation
  dj,       \* the confirmation under way
  tree,     \* contents of the Task worktree against the frozen base
  head,     \* branch that is checked out in it
  ref,      \* the Task branch
  idx,      \* the index of the worktree
  ilock,    \* index.lock is there
  ahead,    \* the target branch moved away from the frozen base
  remote,   \* the Task branch at the remote
  prs,      \* pull request of each operation, 0 stands for the person's
  late,     \* operations whose call to the remote may still take effect
  made,     \* history: commit operations that wrote a commit
  sent,     \* history: side effects started by each operation
  stirred,  \* history: commits under whom the person moved the branch
  misread,  \* history: commits that failed because Git could not be asked
  lost      \* history: a cleanup removed contents nobody reviewed

worldVars == <<tree, head, ref, idx, ilock, ahead, remote, prs, late>>
ghostVars == <<made, sent, stirred, misread, lost>>
deliveryVars == <<ops, dj, worldVars, ghostVars>>

(* "discard" is a cleanup of a closed Result.                              *)
Kinds == {"commit", "push", "pr", "merge", "cleanup", "discard"}
Unsure == {"writing", "recovery_required"}
States == {"preview", "writing", "succeeded", "failed", "recovery_required"}

(* An operation: its kind and state, the index or remote branch that its   *)
(* preview is bound to, and whether its outcome records a merged request.  *)
NoOp == [kind |-> "none", state |-> "none", saw |-> "none", merged |-> FALSE]
Operation == [kind : Kinds \cup {"none"}, state : States \cup {"none"},
              saw : {"none", "base", "reviewed", "commit"},
              merged : BOOLEAN]
NoConfirm == [at |-> "idle", op |-> 0]
Confirm == [at : {"idle", "check", "lock", "mutate", "prove"}, op : 0..MaxOps]

DeliveryTypeOK ==
  /\ ops \in [Ops -> Operation] /\ dj \in Confirm
  /\ tree \in {"reviewed", "edited", "gone"} /\ head \in {"task", "other"}
  /\ ref \in {"base", "commit", "foreign"}
  /\ idx \in {"base", "reviewed", "other"}
  /\ ilock \in BOOLEAN /\ ahead \in BOOLEAN
  /\ remote \in {"none", "commit", "foreign"}
  /\ prs \in [0..MaxOps -> {"none", "open", "closed", "merged"}]
  /\ late \subseteq Ops /\ made \subseteq Ops /\ stirred \subseteq Ops
  /\ misread \subseteq Ops
  /\ sent \in [Ops -> 0..2] /\ lost \in BOOLEAN

DeliveryInit ==
  /\ ops = [o \in Ops |-> NoOp] /\ dj = NoConfirm
  /\ tree = "reviewed" /\ head = "task" /\ ref = "base" /\ idx = "base"
  /\ ilock = FALSE /\ ahead = FALSE /\ remote = "none"
  /\ prs = [o \in 0..MaxOps |-> "none"] /\ late = {}
  /\ made = {} /\ sent = [o \in Ops |-> 0] /\ stirred = {} /\ misread = {}
  /\ lost = FALSE
-----------------------------------------------------------------------------
Is(o, k, s) == ops[o].kind = k /\ ops[o].state = s
Done(k) == {o \in Ops : Is(o, k, "succeeded")}
Uncertain == {o \in Ops : ops[o].state \in Unsure}
MergedOnHost == \E o \in 0..MaxOps : prs[o] = "merged"

(* validateBinding without the target: the worktree is there and on its    *)
(* branch; and VerifyReviewedChanges.                                      *)
OnBranch == tree # "gone" /\ head = "task"
Reviewed == OnBranch /\ ref = "base" /\ tree = "reviewed"

(* PreviewCommit, PreviewPush, PreviewCleanup and PreviewResultCleanup.    *)
Staged == idx \in {"base", "reviewed"}
CommitReady == Reviewed /\ Staged /\ ~ahead
PushReady == /\ OnBranch /\ ref = "commit" /\ ~ahead /\ ~MergedOnHost
             /\ remote \in {"none", "commit"}
CleanupReady == /\ OnBranch /\ ref = "commit"
                /\ tree = "reviewed" /\ idx = "reviewed"
DiscardReady == Reviewed /\ Staged

(* ReconcilePush: is the commit at the remote branch?                      *)
Pushed == CASE ~OnBranch -> "conflict"
            [] ref # "commit" -> "unknown"
            [] OTHER -> IF remote = "commit" THEN "yes" ELSE "no"

(* listPRs: the pull requests of the branch pair, a conflict as soon as    *)
(* one has another head or another marker.                                 *)
Requests == {o \in 0..MaxOps : prs[o] # "none"}
Listed(o) == IF \/ ~(Requests \subseteq {o})
                \/ (remote = "foreign" /\ prs[o] = "open")
             THEN "conflict"
             ELSE IF Requests = {} THEN "none" ELSE "one"

(* The pull request operation whose record a merge or a cleanup relies on. *)
Creator == CHOOSE o \in Done("pr") : TRUE

(* Mutant: a pull request that is there is taken for a merged one.         *)
MergedAnyState == Done("pr") # {} /\ Listed(Creator) = "one"

(* prepareCleanup: the recorded pull request is merged.                    *)
Merged == /\ Done("pr") # {} /\ Listed(Creator) = "one"
          /\ prs[Creator] = "merged"

(* prepareHosting.                                                         *)
HostingReady(k) ==
  /\ Done("push") # {} /\ Pushed = "yes" /\ Done("merge") = {}
  /\ IF k = "pr" THEN /\ Done("pr") = {} /\ Requests = {} /\ ~ahead
     ELSE /\ Done("pr") # {} /\ prs[Creator] = "open" /\ ~ahead

(* What a preview of kind k is refused without, and what it is bound to.   *)
PreviewReady(k) == CASE k = "commit" -> Done("commit") = {} /\ CommitReady
                     [] k = "push" -> Done("commit") # {} /\ PushReady
                     [] k = "cleanup" -> Merged /\ CleanupReady
                     [] k = "discard" -> DiscardReady
                     [] OTHER -> HostingReady(k)
Saw(k) == CASE k \in {"commit", "discard"} -> idx
            [] k = "push" -> remote
            [] OTHER -> "none"
-----------------------------------------------------------------------------
(* deliveryAuthority, and closedCleanupAuthority for a discard.            *)
Authority(k) == /\ mode = "branch" /\ dj.at = "idle" /\ room = "active"
                /\ IF k = "discard" THEN closed # {}
                   ELSE run = "accepted" /\ closed = {}

(* A preview is a new record and changes nothing else.                     *)
Preview(k) ==
  /\ Authority(k) /\ tree # "gone" /\ Uncertain = {} /\ PreviewReady(k)
  /\ k = "discard" => \A o \in Ops : ops[o].state # "succeeded"
  /\ \E o \in Ops : /\ ops[o] = NoOp
                    /\ \A q \in Ops : q < o => ops[q] # NoOp
                    /\ ops' = [ops EXCEPT ![o] = [NoOp EXCEPT
                                 !.kind = k, !.state = "preview",
                                 !.saw = Saw(k)]]
  /\ UNCHANGED <<recordVars, dj, worldVars, ghostVars>>

(* Mutant: a confirmation does not look at the other operations again.     *)
UndisturbedNow(o) == TRUE

(* What other operations of the repository forbid since the preview.       *)
Undisturbed(o) ==
  \A q \in Ops \ {o} :
    /\ ops[q].state \notin Unsure
    /\ ops[q].state = "succeeded" =>
         CASE ops[o].kind = "pr" -> ops[q].kind \notin {"pr", "merge"}
           [] ops[o].kind = "discard" -> FALSE
           [] ops[o].kind = "push" -> TRUE
           [] OTHER -> ops[q].kind # ops[o].kind

(* ConfirmTaskDelivery and ConfirmClosedResultCleanup up to the save of    *)
(* "writing": what each kind proves again before it.                       *)
ConfirmReady(o) == CASE ops[o].kind \in {"pr", "merge"} -> Pushed = "yes"
                     [] ops[o].kind = "cleanup" -> Merged /\ CleanupReady
                     [] OTHER -> TRUE

ConfirmMarks(o) ==
  /\ ops[o].state = "preview" /\ Authority(ops[o].kind)
  /\ tree # "gone" \/ ops[o].kind = "discard"
  /\ Undisturbed(o) /\ ConfirmReady(o)
  /\ ops' = [ops EXCEPT ![o].state = "writing"]
  /\ dj' = [at |-> "check", op |-> o]
  /\ UNCHANGED <<recordVars, worldVars, ghostVars>>

Kind == ops[dj.op].kind
At(phase, k) == dj.at = phase /\ Kind = k
To(phase) == dj' = [dj EXCEPT !.at = phase]

(* A proven outcome records the pull request; it may be merged by then.    *)
Recorded(o) == \/ ops[o].kind = "merge"
               \/ (ops[o].kind = "pr" /\ prs[o] = "merged")

(* The outcome of the confirmation is saved, whatever became of the        *)
(* request's own context.                                                  *)
Settle(s) == /\ room = "active"
             /\ ops' = [ops EXCEPT ![dj.op].state = s,
                          ![dj.op].merged = s = "succeeded" /\ Recorded(dj.op)]
             /\ dj' = NoConfirm

(* The side effect inspects the world again: it must be what the preview   *)
(* saw, or the operation fails with nothing done.                          *)
Fresh(o) ==
  CASE ops[o].kind = "commit" -> CommitReady /\ idx = ops[o].saw
    [] ops[o].kind = "push" -> PushReady /\ remote = ops[o].saw
    [] ops[o].kind = "pr" -> /\ remote = "commit" /\ ~ahead /\ ~MergedOnHost
                             /\ Listed(o) # "conflict"
    [] ops[o].kind = "merge" -> /\ remote = "commit" /\ ~ahead
                                /\ prs[Creator] = "open"
    [] ops[o].kind = "cleanup" -> CleanupReady
    [] ops[o].kind = "discard" -> DiscardReady /\ idx = ops[o].saw

(* Nothing is left to do: the branch is at the remote, or the pull request *)
(* of this very operation is there.                                        *)
Redundant(o) == \/ ops[o].kind = "push" /\ remote = "commit"
                \/ ops[o].kind = "pr" /\ Listed(o) = "one"

ConfirmChecks ==
  /\ dj.at = "check"
  /\ \/ ~Fresh(dj.op) /\ Settle("failed")
     \/ Fresh(dj.op) /\ Redundant(dj.op) /\ Settle("succeeded")
     \/ /\ Fresh(dj.op) /\ ~Redundant(dj.op)
        /\ To(IF Kind = "commit" THEN "lock" ELSE "mutate")
        /\ UNCHANGED ops
  /\ UNCHANGED <<recordVars, worldVars, ghostVars>>

(* Git that cannot be asked, because it fails, times out or the request    *)
(* was cancelled: validateBinding and the comparison of the index take     *)
(* this for a conflict, other reads leave the outcome open.                *)
Unread == {"failed", "recovery_required"}

(* Nothing was begun; a provider that cannot be asked is known to have     *)
(* been asked for nothing.                                                 *)
CheckFails ==
  /\ dj.at \in {"check", "lock"} /\ Fault
  /\ \E s \in Unread : /\ Kind \in {"pr", "merge"} => s = "failed"
                       /\ Settle(s)
  /\ UNCHANGED <<resultVars, co, edits, worldVars, ghostVars>>
-----------------------------------------------------------------------------
(* Commit takes index.lock and compares the index, not the branch.         *)
CommitLocks ==
  /\ At("lock", "commit")
  /\ \/ /\ ~ilock /\ idx = ops[dj.op].saw
        /\ ilock' = TRUE /\ To("mutate") /\ UNCHANGED ops
     \/ /\ ilock \/ idx # ops[dj.op].saw
        /\ Settle("failed") /\ UNCHANGED ilock
  /\ UNCHANGED <<recordVars, tree, head, ref, idx, ahead, remote, prs, late,
                 ghostVars>>

Starts == sent' = [sent EXCEPT ![dj.op] = @ + 1]

(* git commit writes to whatever branch is checked out; the Task branch is *)
(* left without the changes when that is another one.                      *)
CommitLands == /\ made' = made \cup {dj.op}
               /\ IF head = "task"
                  THEN /\ ref' = IF ref = "base" THEN "commit" ELSE "foreign"
                       /\ UNCHANGED tree
                  ELSE tree' = "edited" /\ UNCHANGED ref
NothingLands == UNCHANGED <<made, ref, tree>>

(* git commit with the private index; an error does not tell whether it    *)
(* wrote the commit, and releases index.lock.                              *)
CommitWrites ==
  /\ At("mutate", "commit") /\ Starts
  /\ \/ CommitLands /\ To("prove") /\ UNCHANGED <<ops, ilock>>
     \/ /\ CommitLands \/ NothingLands
        /\ Settle("recovery_required") /\ ilock' = FALSE
  /\ UNCHANGED <<recordVars, head, idx, ahead, remote, prs, late,
                 stirred, misread, lost>>

(* reconcileCommitContent when Git answers.                                *)
CommitProof == CASE ~OnBranch \/ ref = "base" -> "failed"
                 [] ref = "commit" /\ tree = "reviewed" -> "succeeded"
                 [] OTHER -> "recovery_required"

(* The private index replaces the one of the worktree.                     *)
Published == /\ idx' = IF CommitProof = "succeeded" THEN "reviewed" ELSE idx
             /\ ilock' = FALSE

CommitProves ==
  /\ At("prove", "commit")
  /\ Settle(CommitProof) /\ Published
  /\ UNCHANGED <<recordVars, tree, head, ref, ahead, remote, prs, late,
                 ghostVars>>
-----------------------------------------------------------------------------
(* The effect of a call at the remote when it is carried out; the remote   *)
(* refuses what no longer fits.                                            *)
Effect(o) ==
  CASE ops[o].kind = "push" /\ remote = "none" ->
         remote' = "commit" /\ UNCHANGED prs
    [] /\ ops[o].kind = "pr" /\ remote # "none"
       /\ \A q \in 0..MaxOps : prs[q] # "open" ->
         prs' = [prs EXCEPT ![o] = "open"] /\ UNCHANGED remote
    [] /\ ops[o].kind = "merge" /\ remote = "commit"
       /\ prs[Creator] = "open" ->
         prs' = [prs EXCEPT ![Creator] = "merged"] /\ UNCHANGED remote
    [] OTHER -> UNCHANGED <<remote, prs>>
Fits(o) == CASE ops[o].kind = "push" -> remote # "foreign"
             [] ops[o].kind = "pr" -> /\ remote # "none"
                                      /\ \A q \in 0..MaxOps : prs[q] # "open"
             [] OTHER -> remote = "commit" /\ prs[Creator] = "open"

Remotely == {"push", "pr", "merge"}

(* git push, gh pr create and the merge call.                              *)
RemoteSends ==
  /\ dj.at = "mutate" /\ Kind \in Remotely /\ Starts
  /\ \/ /\ Fits(dj.op) /\ Effect(dj.op) /\ To("prove")
        /\ UNCHANGED <<ops, late>>
     \/ /\ ~Fits(dj.op) /\ Settle("recovery_required")
        /\ UNCHANGED <<remote, prs, late>>
  /\ UNCHANGED <<recordVars, tree, head, ref, idx, ilock, ahead, made,
                 stirred, misread, lost>>

(* A call without an answer was carried out, never will be, or still may.  *)
Answers(o) == \/ Effect(o) /\ UNCHANGED late
              \/ UNCHANGED <<remote, prs>> /\ late' \in {late, late \cup {o}}

(* The call fails or times out.                                            *)
RemoteFails ==
  /\ dj.at = "mutate" /\ Kind \in Remotely /\ Starts /\ Fault
  /\ Settle("recovery_required")
  /\ Answers(dj.op)
  /\ UNCHANGED <<resultVars, co, edits, tree, head, ref, idx, ilock, ahead,
                 made, stirred, misread, lost>>

LateEffect(o) ==
  /\ o \in late /\ late' = late \ {o}
  /\ Effect(o)
  /\ UNCHANGED <<recordVars, ops, dj, tree, head, ref, idx, ilock, ahead,
                 ghostVars>>

(* What is read back after the call.                                       *)
RemoteProof(o) ==
  CASE ops[o].kind = "push" -> CASE Pushed = "yes" -> "succeeded"
                                 [] Pushed = "conflict" -> "failed"
                                 [] OTHER -> "recovery_required"
    [] ops[o].kind = "pr" -> IF Listed(o) = "one" THEN "succeeded"
                             ELSE "recovery_required"
    [] ops[o].kind = "merge" -> IF prs[Creator] = "merged" THEN "succeeded"
                                ELSE "recovery_required"

RemoteProves ==
  /\ dj.at = "prove" /\ Kind \in Remotely
  /\ Settle(RemoteProof(dj.op))
  /\ UNCHANGED <<recordVars, worldVars, ghostVars>>
-----------------------------------------------------------------------------
(* git worktree remove refuses a worktree that is not clean; with --force  *)
(* it removes whatever is there.                                           *)
Removes == /\ tree' = "gone"
           /\ lost' = (lost \/ tree = "edited" \/ idx = "other")
Removable == Kind = "discard" \/ (tree = "reviewed" /\ idx = "reviewed")

CleanupRemoves ==
  /\ dj.at = "mutate" /\ Kind \in {"cleanup", "discard"} /\ Starts
  /\ \/ Removable /\ Removes /\ To("prove") /\ UNCHANGED ops
     \/ ~Removable /\ Settle("recovery_required") /\ UNCHANGED <<tree, lost>>
  /\ UNCHANGED <<recordVars, head, ref, idx, ilock, ahead, remote, prs, late,
                 made, stirred, misread>>

(* The removal fails or is cut short, whatever it did.                     *)
RemovalFails ==
  /\ dj.at = "mutate" /\ Kind \in {"cleanup", "discard"} /\ Starts /\ Fault
  /\ Settle("recovery_required")
  /\ (Removable /\ Removes) \/ UNCHANGED <<tree, lost>>
  /\ UNCHANGED <<resultVars, co, edits, head, ref, idx, ilock, ahead, remote,
                 prs, late, made, stirred, misread>>

(* ReconcileCleanup: the directory is gone and its branch kept.            *)
Removed(k) == /\ tree = "gone"
              /\ ref = IF k = "discard" THEN "base" ELSE "commit"

CleanupProves ==
  /\ dj.at = "prove" /\ Kind \in {"cleanup", "discard"}
  /\ Settle(IF Removed(Kind) THEN "succeeded" ELSE "recovery_required")
  /\ UNCHANGED <<recordVars, worldVars, ghostVars>>

(* What was done cannot be read back.  ReconcilePush and                   *)
(* reconcileCommitContent begin with validateBinding, so that a push or a  *)
(* commit which is there may be recorded as failed.                        *)
Misreads(o, s) ==
  misread' = IF ops[o].kind = "commit" /\ s = "failed" THEN misread \cup {o}
             ELSE misread

ProofFails ==
  /\ dj.at = "prove" /\ Fault
  /\ \E s \in Unread : /\ s = "failed" => Kind \in {"commit", "push"}
                       /\ Settle(s) /\ Misreads(dj.op, s)
  /\ ilock' = (ilock /\ Kind # "commit")
  /\ UNCHANGED <<resultVars, co, edits, tree, head, ref, idx, ahead, remote,
                 prs, late, made, sent, stirred, lost>>

(* The server is lost, or the save of an outcome fails: the operation      *)
(* stays "writing".  A git process dies with the server and leaves         *)
(* index.lock; a call to the remote may go on.                             *)
LostBefore == dj.at \in {"check", "lock"} /\ UNCHANGED <<worldVars, ghostVars>>

LostCommit ==
  /\ \/ /\ At("mutate", "commit") /\ Starts /\ (CommitLands \/ NothingLands)
        /\ ilock' \in BOOLEAN /\ UNCHANGED idx
     \/ /\ At("prove", "commit") /\ UNCHANGED <<sent, made, ref, tree>>
        /\ Published \/ UNCHANGED <<idx, ilock>>
  /\ UNCHANGED <<head, ahead, remote, prs, late, stirred, misread, lost>>

LostCall ==
  /\ Kind \in Remotely
  /\ \/ dj.at = "mutate" /\ Starts /\ Answers(dj.op)
     \/ dj.at = "prove" /\ UNCHANGED <<sent, remote, prs, late>>
  /\ UNCHANGED <<tree, head, ref, idx, ilock, ahead, made, stirred, misread,
                 lost>>

LostCleanup ==
  /\ Kind \in {"cleanup", "discard"}
  /\ \/ /\ dj.at = "mutate" /\ Starts
        /\ (Removable /\ Removes) \/ UNCHANGED <<tree, lost>>
     \/ dj.at = "prove" /\ UNCHANGED <<sent, tree, lost>>
  /\ UNCHANGED <<head, ref, idx, ilock, ahead, remote, prs, late, made,
                 stirred, misread>>

ConfirmIsLost ==
  /\ dj.at # "idle" /\ Fault
  /\ LostBefore \/ LostCommit \/ LostCall \/ LostCleanup
  /\ dj' = NoConfirm
  /\ UNCHANGED <<resultVars, co, edits, ops>>
-----------------------------------------------------------------------------
(* RefreshTaskDelivery looks at the recorded pull request of an earlier    *)
(* operation first, and gives up when that cannot be read back, or when    *)
(* the worktree is not there.                                              *)
RefreshAborts(o) ==
  \/ tree = "gone" /\ ops[o].kind # "cleanup"
  \/ \E q \in Done("pr") : q < o /\ (tree = "gone" \/ Listed(q) # "one")

(* Mutant: what is not at the remote yet never will be.                    *)
RefreshedAbsence(o) ==
  CASE ops[o].kind = "commit" ->
         IF CommitProof = "succeeded" /\ idx # "reviewed"
         THEN "recovery_required" ELSE CommitProof
    [] ops[o].kind = "push" -> CASE Pushed = "yes" -> "succeeded"
                                 [] Pushed = "no" -> "failed"
                                 [] OTHER -> "recovery_required"
    [] ops[o].kind = "cleanup" -> IF Removed("cleanup") THEN "succeeded"
                                  ELSE "recovery_required"
    [] OTHER -> IF RemoteProof(o) = "succeeded" THEN "succeeded" ELSE "failed"

(* What the refresh makes of an uncertain operation by reading only.  A    *)
(* missing branch is a failed push, a missing pull request proves nothing. *)
Refreshed(o) ==
  CASE ops[o].kind = "commit" ->
         IF CommitProof = "succeeded" /\ idx # "reviewed"
         THEN "recovery_required" ELSE CommitProof
    [] ops[o].kind = "push" -> CASE Pushed = "yes" -> "succeeded"
                                 [] Pushed = "no" -> "failed"
                                 [] OTHER -> "recovery_required"
    [] ops[o].kind = "cleanup" -> IF Removed("cleanup") THEN "succeeded"
                                  ELSE "recovery_required"
    [] OTHER -> RemoteProof(o)

Refresh(o) ==
  /\ Authority("commit") /\ o \in Uncertain /\ Done("cleanup") = {}
  /\ ~RefreshAborts(o)
  /\ \/ /\ ops' = [ops EXCEPT ![o].state = Refreshed(o), ![o].merged =
                         Refreshed(o) = "succeeded" /\ Recorded(o)]
        /\ UNCHANGED <<faults, misread>>
     \/ /\ Fault
        /\ \E s \in Unread : /\ s = "failed" => ops[o].kind = "commit"
                             /\ ops' = [ops EXCEPT ![o].state = s]
                             /\ Misreads(o, s)
  /\ UNCHANGED <<resultVars, co, edits, dj, worldVars, made, sent, stirred,
                 lost>>

(* ConfirmClosedResultCleanup of an uncertain cleanup only reads.          *)
Reconfirm(o) ==
  /\ Authority("discard") /\ o \in Uncertain /\ ops[o].kind = "discard"
  /\ Removed("discard")
  /\ ops' = [ops EXCEPT ![o].state = "succeeded"]
  /\ UNCHANGED <<recordVars, dj, worldVars, ghostVars>>
-----------------------------------------------------------------------------
(* The person works in the worktree, whose index.lock keeps Git commands   *)
(* out, and at the remote.                                                 *)
Personal == /\ mode = "branch" /\ Edit
            /\ UNCHANGED <<resultVars, co, faults, ops, dj, late, made, sent,
                           misread, lost>>
Stir == stirred' = stirred \cup {o \in Uncertain : ops[o].kind = "commit"}

PersonEdits ==
  /\ Personal /\ tree # "gone"
  /\ tree' \in {"reviewed", "edited"} \ {tree}
  /\ UNCHANGED <<head, ref, idx, ilock, ahead, remote, prs, stirred>>

PersonStages ==
  /\ Personal /\ tree # "gone" /\ ~ilock
  /\ idx' \in {"base", "reviewed", "other"} \ {idx}
  /\ UNCHANGED <<tree, head, ref, ilock, ahead, remote, prs, stirred>>

PersonSwitches ==
  /\ Personal /\ tree # "gone" /\ ~ilock /\ Stir
  /\ head' \in {"task", "other"} \ {head}
  /\ UNCHANGED <<tree, ref, idx, ilock, ahead, remote, prs>>

PersonCommits ==
  /\ Personal /\ OnBranch /\ ~ilock /\ ref # "foreign" /\ Stir
  /\ ref' = "foreign"
  /\ UNCHANGED <<tree, head, idx, ilock, ahead, remote, prs>>

PersonUnlocks ==
  /\ mode = "branch" /\ ilock /\ dj.at \notin {"mutate", "prove"}
  /\ ilock' = FALSE
  /\ UNCHANGED <<recordVars, ops, dj, tree, head, ref, idx, ahead, remote,
                 prs, late, ghostVars>>

TargetAdvances ==
  /\ Personal /\ ~ahead /\ ahead' = TRUE
  /\ UNCHANGED <<tree, head, ref, idx, ilock, remote, prs, stirred>>

(* Deleting the branch closes its pull request.                            *)
RemoteMoves ==
  /\ Personal
  /\ remote' \in {"none", "foreign"} \ {remote}
  /\ prs' = [o \in 0..MaxOps |-> IF prs[o] = "open" /\ remote' = "none"
                                 THEN "closed" ELSE prs[o]]
  /\ UNCHANGED <<tree, head, ref, idx, ilock, ahead, stirred>>

PersonRequests ==
  /\ Personal
  /\ \/ /\ prs[0] = "none" /\ remote # "none"
        /\ \A o \in Ops : prs[o] # "open"
        /\ prs' = [prs EXCEPT ![0] = "open"]
     \/ \E o \in 0..MaxOps, s \in {"closed", "merged"} :
          /\ prs[o] = "open" /\ (s = "merged" => remote = "commit")
          /\ prs' = [prs EXCEPT ![o] = s]
  /\ UNCHANGED <<tree, head, ref, idx, ilock, ahead, remote, stirred>>

DeliveryNext ==
  \/ \E k \in Kinds : Preview(k)
  \/ \E o \in Ops : \/ ConfirmMarks(o) \/ Refresh(o) \/ Reconfirm(o)
                     \/ LateEffect(o)
  \/ ConfirmChecks \/ CheckFails
  \/ CommitLocks \/ CommitWrites \/ CommitProves
  \/ RemoteSends \/ RemoteFails \/ RemoteProves
  \/ CleanupRemoves \/ RemovalFails \/ CleanupProves
  \/ ProofFails \/ ConfirmIsLost
  \/ PersonEdits \/ PersonStages \/ PersonSwitches \/ PersonCommits
  \/ PersonUnlocks \/ TargetAdvances \/ RemoteMoves \/ PersonRequests
=============================================================================
