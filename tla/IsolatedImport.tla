--------------------------- MODULE IsolatedImport ---------------------------
(***************************************************************************)
(* internal/isolatedworkspace: the result of a dead sandbox is written     *)
(* over the Task worktrees of several repositories.  A journal, kept       *)
(* beside the snapshot taken before the Attempt, lets whoever comes next   *)
(* undo an import that did not end.  The worktrees are a person's too.     *)
(***************************************************************************)
EXTENDS SupervisedLaunch

CONSTANTS RepoCount,  \* repositories of the Task
          MaxEdits    \* bound on a person's edits

ASSUME ImportAssumption == RepoCount \in Nat \ {0} /\ MaxEdits \in Nat

VARIABLES
  tree,     \* worktree of each repository, against the snapshot and result
  journal,  \* import-journal.json
  imp,      \* Collect, or Recover on behalf of a cleanup
  edits

importVars == <<tree, journal, imp, edits>>

Repos == 1..RepoCount

(* "mixed": each file as before or as after; "torn": a file half written;  *)
(* "drifted": a file as a person left it; "restored": a person put back    *)
(* what was there before.                                                  *)
Edited == {"drifted", "restored"}
Before == {"before", "restored"}
Trees == {"before", "mixed", "torn", "after"} \cup Edited
Calm == [by |-> "nobody", at |-> "idle", n |-> 1]

Imports == [by : {"nobody", "collect", "cleanup"},
            at : {"idle", "check", "journal", "write", "writing", "verify",
                  "commit", "undoCheck", "undo", "undoing", "undoVerify",
                  "undoCommit", "good", "bad"},
            n : 1..RepoCount + 1]

ImportTypeOK ==
  /\ tree \in [Repos -> Trees] /\ imp \in Imports
  /\ journal \in {"none", "torn", "valid"} /\ edits \in 0..MaxEdits

ImportInit == /\ tree = [r \in Repos |-> "before"] /\ journal = "none"
              /\ imp = Calm /\ edits = 0
-----------------------------------------------------------------------------
At(step) == imp.at = step /\ server # "down"
Goes(step) == imp' = [imp EXCEPT !.at = step, !.n = 1]
All(kinds) == \A r \in Repos : tree[r] \in kinds

(* A call of the system fails; the caller goes on to step.                 *)
FailsTo(step) == /\ Fault /\ Goes(step)
                 /\ UNCHANGED <<target, server, claimed, losses>>

(* An edit, or the undoing of one, in the middle of anything.              *)
Edits(r) == /\ edits < MaxEdits /\ edits' = edits + 1
            /\ tree' \in {[tree EXCEPT ![r] = t] : t \in Edited}
            /\ UNCHANGED <<launchVars, journal, imp>>
-----------------------------------------------------------------------------
(* Collect: every repository is checked before any is touched: its tree    *)
(* has not moved, and the result stays in scope.                           *)
ImportChecks ==
  /\ At("check")
  /\ \/ All(Before) /\ Goes("journal")
     \/ Goes("bad")
  /\ UNCHANGED <<launchVars, tree, journal, edits>>

(* Mutant: the worktrees are written whether or not the journal was.       *)
ImportJournalsOrNot ==
  /\ At("journal")
  /\ \/ journal' = "valid" /\ Goes("write") /\ UNCHANGED launchVars
     \/ journal' \in {"none", "torn", "valid"} /\ FailsTo("write")
  /\ UNCHANGED <<tree, edits>>

(* A journal that could not be written whole is not undone here.           *)
ImportJournals ==
  /\ At("journal")
  /\ \/ journal' = "valid" /\ Goes("write") /\ UNCHANGED launchVars
     \/ journal' \in {"none", "torn", "valid"} /\ FailsTo("bad")
  /\ UNCHANGED <<tree, edits>>

(* replaceWorktree: file by file; it overwrites what it finds.             *)
Replacing == tree' \in {[tree EXCEPT ![imp.n] = t] : t \in {"mixed", "torn"}}
Replaces(value) == /\ tree' = [tree EXCEPT ![imp.n] = value]
                   /\ imp' = [imp EXCEPT !.n = imp.n + 1,
                        !.at = CASE imp.at = "writing" -> "write"
                                 [] imp.at = "undoing" -> "undo"]

ImportWrites ==
  /\ At("write") /\ imp.n \in Repos
  /\ Replacing /\ imp' = [imp EXCEPT !.at = "writing"]
  /\ UNCHANGED <<launchVars, journal, edits>>

ImportWrote ==
  /\ At("writing")
  /\ \/ Replaces("after") /\ UNCHANGED launchVars
     \/ FailsTo("undoCheck") /\ UNCHANGED tree
  /\ UNCHANGED <<journal, edits>>

ImportVerifies ==
  /\ \/ At("write") /\ imp.n \notin Repos /\ Goes("verify")
     \/ At("verify") /\ Goes(IF All({"after"}) THEN "commit" ELSE "bad")
  /\ UNCHANGED <<launchVars, tree, journal, edits>>

(* A journal that cannot be removed has the import undone later; one whose *)
(* removal is not certain to last is reported, though all is imported.     *)
ImportCommits ==
  /\ At("commit")
  /\ \/ journal' = "none" /\ Goes("good") /\ UNCHANGED launchVars
     \/ journal' \in {"none", "valid"} /\ FailsTo("bad")
  /\ UNCHANGED <<tree, edits>>
-----------------------------------------------------------------------------
(* validTransitionTree: only what the import can have written.             *)
Undoable == All(Before \cup {"mixed", "after"})

(* Recover: every check comes before the first write.                      *)
UndoChecks ==
  /\ At("undoCheck")
  /\ Goes(CASE journal = "none" -> "good"
            [] journal = "valid" /\ Undoable -> "undo"
            [] OTHER -> "bad")
  /\ UNCHANGED <<launchVars, tree, journal, edits>>

UndoWrites ==
  /\ At("undo") /\ imp.n \in Repos
  /\ Replacing /\ imp' = [imp EXCEPT !.at = "undoing"]
  /\ UNCHANGED <<launchVars, journal, edits>>

UndoWrote ==
  /\ At("undoing")
  /\ \/ Replaces("before") /\ UNCHANGED launchVars
     \/ FailsTo("bad") /\ UNCHANGED tree
  /\ UNCHANGED <<journal, edits>>

UndoVerifies ==
  /\ \/ At("undo") /\ imp.n \notin Repos /\ Goes("undoVerify")
     \/ At("undoVerify") /\ Goes(IF All(Before) THEN "undoCommit" ELSE "bad")
  /\ UNCHANGED <<launchVars, tree, journal, edits>>

UndoCommits ==
  /\ At("undoCommit")
  /\ \/ journal' = "none" /\ Goes("good") /\ UNCHANGED launchVars
     \/ journal' \in {"none", "valid"} /\ FailsTo("bad")
  /\ UNCHANGED <<tree, edits>>

ImportNext ==
  \/ \E r \in Repos : Edits(r)
  \/ ImportChecks \/ ImportJournals \/ ImportWrites \/ ImportWrote
  \/ ImportVerifies \/ ImportCommits
  \/ UndoChecks \/ UndoWrites \/ UndoWrote \/ UndoVerifies \/ UndoCommits
-----------------------------------------------------------------------------
(* The server ends: whatever was being written stays as it is.             *)
ImportLost == /\ imp' = Calm
              /\ journal' \in IF imp.at = "journal" THEN {"none", "torn"}
                              ELSE {journal}
              /\ UNCHANGED <<tree, edits>>

(* Prepare: whatever the worktrees hold is what a result is checked with.  *)
Prepares == /\ tree' = [r \in Repos |-> "before"] /\ journal' = "none"
            /\ UNCHANGED <<imp, edits>>

(* Without a journal the worktrees hold all of the result or none of it,   *)
(* a person's edits apart.                                                 *)
ImportIsAllOrNothing ==
  journal = "none" =>
    \E whole \in {"before", "after"} : All({whole} \cup Edited)
=============================================================================
