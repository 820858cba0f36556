--------------------------- MODULE ResultRecords ---------------------------
(***************************************************************************)
(* What the three ways to deliver a reviewed Result share: the Run and its *)
(* review, the Task, the Room, the Result Closure, and the checkouts that  *)
(* a person edits while Chora works on them.  A Task delivers in exactly   *)
(* one mode: "legacy" (apply_operations into the original checkouts of     *)
(* several repositories), "patch" (the one patch application of a Run      *)
(* without a resource snapshot) or "branch" (commit, push, pull request    *)
(* and cleanup of the Task branch of its one write repository).  Every     *)
(* command runs under the Run's lock, so at most one is under way.         *)
(***************************************************************************)
EXTENDS Naturals, FiniteSets

CONSTANTS Modes,       \* delivery modes to start from
          RepoCount,   \* repositories of a legacy Task
          MaxEdits,    \* bound on the person's own edits of repositories
          MaxFaults    \* bound on failing calls and losses of the server

ASSUME ModesAssumption == Modes \subseteq {"legacy", "patch", "branch"}
ASSUME RepoAssumption == RepoCount \in Nat \ {0}
ASSUME FaultAssumption == MaxEdits \in Nat /\ MaxFaults \in Nat

VARIABLES
  mode,     \* delivery mode of the Task
  changed,  \* entries of the Result whose patch has files
  run, task,\* states of the Run and of its Task
  room,     \* state of the Room
  owner,    \* ownership kind of the Room
  closed,   \* repository_ids of the Result Closure, {} without one
  co,       \* original checkout of each entry
  edits, faults

resultVars == <<mode, changed, run, task, room, owner, closed>>
budgetVars == <<edits, faults>>
recordVars == <<resultVars, co, budgetVars>>

(* Entries of the Result; the one entry of the scalar mode has no          *)
(* repository identity.                                                    *)
Entries == IF mode = "legacy" THEN 1..RepoCount ELSE {1}

(* An original checkout as the target sees it: the affected files against  *)
(* the frozen base and the reviewed patch, the index, and whether identity,*)
(* HEAD and branch are the frozen ones.  "edited" is the base with an edit *)
(* beside the patch's hunks, "edited_post" the same with the patch in it,  *)
(* "unsafe" a path that cannot be read as a regular file.                  *)
Works == {"base", "post", "edited", "edited_post", "other", "unsafe"}
Indexes == {"base", "unrelated", "affected"}
Checkout == [work : Works, index : Indexes, frozen : BOOLEAN]
Untouched == [work |-> "base", index |-> "base", frozen |-> TRUE]

RecordsTypeOK ==
  /\ mode \in Modes
  /\ changed \subseteq Entries /\ changed # {}
  /\ run \in {"awaiting_review", "accepted"}
  /\ task \in {"open", "closed"}
  /\ room \in {"active", "archived"}
  /\ owner \in {"project", "other"}
  /\ closed \subseteq Entries
  /\ co \in [1..RepoCount -> Checkout]
  /\ edits \in 0..MaxEdits /\ faults \in 0..MaxFaults

RecordsInit ==
  /\ mode \in Modes
  /\ changed \in (SUBSET Entries) \ {{}}
  /\ run = "awaiting_review" /\ task = "open" /\ room = "active"
  /\ owner \in IF mode = "patch" THEN {"project", "other"} ELSE {"project"}
  /\ closed = {}
  /\ co = [e \in 1..RepoCount |-> Untouched]
  /\ edits = 0 /\ faults = 0
-----------------------------------------------------------------------------
Edit == edits < MaxEdits /\ edits' = edits + 1
Fault == faults < MaxFaults /\ faults' = faults + 1

(* requireRunWithoutClosure.                                               *)
WithoutClosure == closed = {}

(* git apply --check, forward and in reverse, and what git apply makes.    *)
Forward == {"base", "edited"}
Reverse == {"post", "edited_post"}
Patched == [w \in Forward |-> IF w = "base" THEN "post" ELSE "edited_post"]

(* What the child process of one git apply may leave behind: the patch     *)
(* rejected, all of it, or a part of it when the process was killed.       *)
GitApply(w) == IF w \in Forward THEN {w, Patched[w], "other"} ELSE {w}

(* ReviewResourceResult and ReviewVerifiedResult record an acceptance.     *)
Accept == /\ run = "awaiting_review" /\ WithoutClosure /\ room = "active"
          /\ run' = "accepted"
          /\ UNCHANGED <<mode, changed, task, room, owner, closed>>

(* CloseTaskForAcceptedRun, CloseTaskForAppliedRun.                        *)
CloseTask == /\ room = "active" /\ run = "accepted" /\ task = "open"
             /\ task' = "closed"
             /\ UNCHANGED <<mode, changed, run, room, owner, closed>>
=============================================================================
