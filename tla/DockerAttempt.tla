--------------------------- MODULE DockerAttempt ----------------------------
(***************************************************************************)
(* internal/dockersupervisor, Workbench mode: one container, one docker    *)
(* exec whose exit the server waits for, and a runtime root that keeps the *)
(* import state.  The result is copied out of a paused container, which is *)
(* then killed and proven dead before anything is imported.                *)
(***************************************************************************)
EXTENDS IsolatedImport

VARIABLES
  box,   \* the container
  cli,   \* the docker exec process that carries the Runtime's streams
  root,  \* the runtime root of the Attempt; "bare" without its marker
  att,   \* the record in memory
  dk     \* where Start, Stop, wait and cleanupAttempt are

dockVars == <<box, cli, root, att, dk>>

NoAttempt == [in |-> "none", proc |-> FALSE, stop |-> FALSE,
              timedOut |-> FALSE, observed |-> FALSE, exited |-> FALSE,
              drained |-> FALSE]
Attempts == [in : {"none", "setup", "live", "recovered"}, proc : BOOLEAN,
             stop : BOOLEAN, timedOut : BOOLEAN, observed : BOOLEAN,
             exited : BOOLEAN, drained : BOOLEAN]
Idle == [start |-> "idle", stop |-> "idle", wait |-> "none",
         clean |-> "nobody"]
Cleaners == {"setup", "stop", "finalize", "recover"}

Tasks == [start : {"idle", "root", "create", "run", "exec", "reap", "clean",
                   "cleanUnsure"},
          stop : {"idle", "asked", "forced", "clean"},
          wait : {"none", "wait", "observed", "terminate", "pause", "export",
                  "prove", "collect", "collecting", "end"},
          clean : Cleaners \cup {"nobody"}]

DockTypeOK ==
  /\ box \in {"none", "created", "running", "paused", "dead"}
  /\ cli \in {"none", "running", "zero", "nonzero"}
  /\ root \in {"none", "bare", "owned"} /\ att \in Attempts /\ dk \in Tasks

DockInit == /\ box = "none" /\ cli = "none" /\ root = "none"
            /\ att = NoAttempt /\ dk = Idle
-----------------------------------------------------------------------------
Alive == box \in {"running", "paused"}
Killed == IF Alive THEN "dead" ELSE box
Fails == Fault /\ UNCHANGED <<target, server, claimed, losses>>
Up == On("docker")

(* docker exec ends with the Runtime, or when its container is gone.       *)
ExecEnds ==
  /\ target = "docker" /\ cli = "running"
  /\ cli' \in IF box = "running" THEN {"zero", "nonzero"} ELSE {"nonzero"}
  /\ UNCHANGED <<launchVars, importVars, box, root, att, dk>>
-----------------------------------------------------------------------------
(* Start: newRecord makes the root, its marker and the private copies.     *)
BoxClaims ==
  /\ Up /\ dk.start = "idle" /\ att.in = "none" /\ root = "none"
  /\ dk.clean = "nobody" /\ imp = Calm
  /\ root' = "bare" /\ dk' = [dk EXCEPT !.start = "root"] /\ claimed' = FALSE
  /\ UNCHANGED <<target, server, faults, losses, importVars, box, cli, att>>

BoxPrepares ==
  /\ Up /\ dk.start = "root"
  /\ \/ /\ root' = "owned" /\ Prepares
        /\ att' = [NoAttempt EXCEPT !.in = "setup"]
        /\ dk' = [dk EXCEPT !.start = "create"] /\ UNCHANGED launchVars
     \/ /\ root' \in {"none", "bare", "owned"} /\ Fails
        /\ dk' = [dk EXCEPT !.start = "idle"] /\ UNCHANGED <<importVars, att>>
  /\ UNCHANGED <<box, cli>>

(* setupWorkbench: each step may fail and still have had its effect.       *)
SetsUp(from, value, to) ==
  /\ Up /\ dk.start = from
  /\ \/ /\ box' = value /\ dk' = [dk EXCEPT !.start = to]
        /\ UNCHANGED launchVars
     \/ /\ box' \in {box, value} /\ Fails
        /\ dk' = [dk EXCEPT !.start = "clean"]
  /\ UNCHANGED <<importVars, cli, root, att>>
BoxCreates == SetsUp("create", "created", "run")
BoxRuns == SetsUp("run", "running", "exec")

(* Runner.Start may return a process, an error, both, or neither.          *)
BoxExecs ==
  /\ Up /\ dk.start = "exec"
  /\ \/ /\ cli' = "running"
        /\ att' = [att EXCEPT !.in = "live", !.proc = TRUE]
        /\ dk' = [dk EXCEPT !.start = "idle", !.wait = "wait"]
        /\ UNCHANGED launchVars
     \/ /\ Fails /\ UNCHANGED <<cli, att>>
        /\ dk' \in {[dk EXCEPT !.start = s] : s \in {"clean", "cleanUnsure"}}
     \/ /\ Fails /\ cli' = "running"
        /\ att' = [att EXCEPT !.proc = TRUE, !.stop = TRUE]
        /\ dk' = [dk EXCEPT !.start = "reap"]
  /\ UNCHANGED <<importVars, box, root>>

(* finishFailedSetup with a process: it is killed and waited for; a late   *)
(* exit still closes the registered record.                                *)
BoxReaps ==
  /\ Up /\ dk.start = "reap"
  /\ \/ /\ cli' = "nonzero" /\ att' = [att EXCEPT !.exited = TRUE]
        /\ dk' = [dk EXCEPT !.start = "clean"]
     \/ /\ att' = [att EXCEPT !.in = "live"] /\ UNCHANGED cli
        /\ dk' = [dk EXCEPT !.start = "idle"]
  /\ UNCHANGED <<launchVars, importVars, box, root>>

BoxReapsLate ==
  /\ Up /\ att.in = "live" /\ att.proc /\ dk.wait = "none" /\ ~att.exited
  /\ cli \notin {"none", "running"}
  /\ att' = [att EXCEPT !.exited = TRUE]
  /\ UNCHANGED <<launchVars, importVars, box, cli, root, dk>>
-----------------------------------------------------------------------------
(* wait: what a Stop or the deadline does after the snapshot comes late.   *)
Waits(step) == Up /\ dk.wait = step
WaitTo(step) == dk' = [dk EXCEPT !.wait = step]

ExecReaped ==
  /\ Waits("wait") /\ cli \notin {"none", "running"}
  /\ att' = [att EXCEPT !.observed = TRUE] /\ WaitTo("observed")
  /\ UNCHANGED <<launchVars, importVars, box, cli, root>>

(* Mutant: a timeout is not asked about.                                   *)
StopsImportUntimed == att.stop

(* stopRequested and timedOut.                                             *)
StopsImport == att.stop \/ att.timedOut

Classifies ==
  /\ Waits("observed")
  /\ IF StopsImport THEN WaitTo("end")
     ELSE \/ WaitTo("terminate")
          \/ cli = "zero" /\ WaitTo("pause")
  /\ UNCHANGED <<launchVars, importVars, box, cli, root, att>>

(* terminateWorkbenchContainer, whose failure is ignored where nothing is  *)
(* imported.                                                               *)
Terminates ==
  /\ Waits("terminate") /\ WaitTo("end")
  /\ \/ box' = Killed /\ UNCHANGED launchVars
     \/ Fails /\ UNCHANGED box
  /\ UNCHANGED <<importVars, cli, root, att>>

(* exportSettledWorkbench: pause, then copy, ...                           *)
Pauses ==
  /\ Waits("pause")
  /\ \/ /\ box = "running" /\ box' = "paused" /\ WaitTo("export")
        /\ UNCHANGED launchVars
     \/ box # "running" /\ WaitTo("terminate") /\ UNCHANGED <<launchVars, box>>
     \/ /\ Fails /\ WaitTo("terminate")
        /\ box' \in {box, IF box = "running" THEN "paused" ELSE box}
  /\ UNCHANGED <<importVars, cli, root, att>>

Exports ==
  /\ Waits("export")
  /\ \/ box # "none" /\ WaitTo("prove") /\ UNCHANGED launchVars
     \/ box = "none" /\ WaitTo("terminate") /\ UNCHANGED launchVars
     \/ Fails /\ WaitTo("terminate")
  /\ UNCHANGED <<importVars, box, cli, root, att>>

(* Mutant: the copy is imported though the death was not proven.           *)
AfterDeathProofAnyway(proven) == "collect"

(* ... kill, and an inspection that must say it does not run.              *)
AfterDeathProof(proven) == IF proven THEN "collect" ELSE "end"

ProvesDead ==
  /\ Waits("prove")
  /\ \/ /\ Alive /\ box' = "dead" /\ WaitTo(AfterDeathProof(TRUE))
        /\ UNCHANGED launchVars
     \/ /\ ~Alive /\ WaitTo(AfterDeathProof(FALSE))
        /\ UNCHANGED <<launchVars, box>>
     \/ /\ Fails /\ box' \in {box, Killed} /\ WaitTo(AfterDeathProof(FALSE))
  /\ UNCHANGED <<importVars, cli, root, att>>

Collects ==
  /\ Waits("collect") /\ imp = Calm
  /\ imp' = [by |-> "collect", at |-> "check", n |-> 1]
  /\ WaitTo("collecting")
  /\ UNCHANGED <<launchVars, tree, journal, edits, box, cli, root, att>>

Collected ==
  /\ Waits("collecting") /\ imp.at \in {"good", "bad"}
  /\ imp' = Calm /\ WaitTo("end")
  /\ UNCHANGED <<launchVars, tree, journal, edits, box, cli, root, att>>

WaitEnds ==
  /\ Waits("end") /\ att' = [att EXCEPT !.exited = TRUE] /\ WaitTo("none")
  /\ UNCHANGED <<launchVars, importVars, box, cli, root>>

(* markDeadlineIfLive: a timeout that comes after the exit is none.        *)
Expires ==
  /\ Up /\ att.in = "live" /\ ~att.observed /\ ~att.exited /\ ~att.timedOut
  /\ dk.wait # "none"
  /\ att' = [att EXCEPT !.timedOut = TRUE]
  /\ UNCHANGED <<launchVars, importVars, box, cli, root, dk>>
-----------------------------------------------------------------------------
(* Stop: a person's, a failed prompt's or the deadline's.                  *)
BoxStops ==
  /\ Up /\ dk.stop = "idle" /\ att.in = "live"
  /\ \/ att.exited /\ dk' = [dk EXCEPT !.stop = "clean"] /\ UNCHANGED att
     \/ /\ ~att.exited /\ att.proc /\ att' = [att EXCEPT !.stop = TRUE]
        /\ dk' = [dk EXCEPT !.stop = "asked"]
  /\ UNCHANGED <<launchVars, importVars, box, cli, root>>

(* The abort was not enough: the container is removed, the CLI killed.     *)
BoxForces ==
  /\ Up /\ dk.stop = "asked" /\ dk' = [dk EXCEPT !.stop = "forced"]
  /\ \/ box' = "none" /\ UNCHANGED launchVars
     \/ Fails /\ UNCHANGED box
  /\ cli' \in {cli, IF cli = "running" THEN "nonzero" ELSE cli}
  /\ UNCHANGED <<importVars, root, att>>

StopSees ==
  /\ Up /\ dk.stop \in {"asked", "forced"}
  /\ \/ /\ att.exited /\ (dk.stop = "forced" => box = "none")
        /\ dk' = [dk EXCEPT !.stop = "clean"]
     \/ dk.stop = "forced" /\ dk' = [dk EXCEPT !.stop = "idle"]
  /\ UNCHANGED <<launchVars, importVars, box, cli, root, att>>

(* A recovered record was proven dead before it was made.                  *)
BoxAnswers ==
  /\ Up /\ att.in = "recovered" /\ Claims
  /\ UNCHANGED <<importVars, dockVars>>

BoxDrains ==
  /\ Up /\ att.in \in {"live", "recovered"} /\ att.exited /\ ~att.drained
  /\ att' = [att EXCEPT !.drained = TRUE]
  /\ UNCHANGED <<launchVars, importVars, box, cli, root, dk>>
-----------------------------------------------------------------------------
(* cleanupAttempt, for one caller at a time, and Recover, which does the   *)
(* same for every root that a lost server left behind.                     *)
MayClean(who) ==
  CASE who = "setup" -> Up /\ dk.start \in {"clean", "cleanUnsure"}
    [] who = "stop" -> Up /\ dk.stop = "clean"
    [] who = "finalize" -> Up /\ att.in = "live" /\ att.exited /\ att.drained
                           /\ dk.start = "idle"
    [] who = "recover" -> target = "docker" /\ server = "starting"

Recovered == [NoAttempt EXCEPT !.in = "recovered", !.exited = TRUE]

(* Each caller's answer.  A failed start says "no child" only when all is  *)
(* gone and the CLI never ran; otherwise its record stays.                 *)
Cleaned(who, ok) ==
  /\ imp' = Calm
  /\ CASE who = "setup" ->
            /\ dk' = [dk EXCEPT !.clean = "nobody", !.start = "idle"]
            /\ IF ok /\ dk.start = "clean"
               THEN att' = NoAttempt /\ claimed' = TRUE
               ELSE att' = [att EXCEPT !.in = "live"] /\ UNCHANGED claimed
            /\ UNCHANGED server
       [] who = "stop" ->
            /\ dk' = [dk EXCEPT !.clean = "nobody", !.stop = "idle"]
            /\ claimed' = (claimed \/ ok) /\ UNCHANGED <<att, server>>
       [] who = "finalize" ->
            /\ IF ok THEN att' = NoAttempt /\ dk' = Idle
               ELSE dk' = [dk EXCEPT !.clean = "nobody"] /\ UNCHANGED att
            /\ claimed' = (claimed \/ ok) /\ UNCHANGED server
       [] who = "recover" ->
            /\ dk' = Idle /\ server' = IF ok THEN "up" ELSE "down"
            /\ att' \in IF ok THEN {NoAttempt, Recovered} ELSE {att}
            /\ UNCHANGED claimed
  /\ UNCHANGED <<target, losses, tree, journal, edits, cli>>

(* Mutant: what was removed is taken for gone.                             *)
GoneAnyway(ok) == TRUE

(* proveAttemptResourcesAbsent.                                            *)
Gone(ok) == ok

(* The container goes first; an import that did not end is undone next.    *)
CleanRemoves(who) ==
  /\ dk.clean = "nobody" /\ MayClean(who) /\ imp = Calm
  /\ \E ok \in BOOLEAN :
       /\ box' \in IF ok THEN {"none"} ELSE {box, "none"}
       /\ faults' = IF ok THEN faults ELSE faults + 1
       /\ faults' <= MaxFaults
       /\ IF Gone(ok) /\ (who = "recover" => root # "bare")
          THEN /\ imp' = [by |-> "cleanup", at |-> "undoCheck", n |-> 1]
               /\ dk' = [dk EXCEPT !.clean = who]
               /\ UNCHANGED <<target, server, claimed, losses, tree, journal,
                              edits, cli, att>>
          ELSE Cleaned(who, FALSE)
  /\ UNCHANGED root

(* Then the root, unless a timed out Result is still to be read from it.   *)
Retained == dk.clean = "stop" /\ att.timedOut
CleanEnds ==
  /\ target = "docker" /\ dk.clean # "nobody" /\ imp.at \in {"good", "bad"}
  /\ \/ imp.at = "bad" /\ Cleaned(dk.clean, FALSE) /\ UNCHANGED <<faults, root>>
     \/ /\ imp.at = "good" /\ Cleaned(dk.clean, TRUE) /\ UNCHANGED faults
        /\ root' = IF Retained THEN root ELSE "none"
     \/ /\ imp.at = "good" /\ ~Retained /\ Fault /\ Cleaned(dk.clean, FALSE)
        /\ root' \in {root, "bare"} \ {"none"}
  /\ UNCHANGED box

FinalizesRecovered ==
  /\ Up /\ att.in = "recovered" /\ att.drained
  /\ att' = NoAttempt
  /\ UNCHANGED <<launchVars, importVars, box, cli, root, dk>>

(* The server ends; the container and the worktrees stay as they are.      *)
DockerLost ==
  /\ Lost("docker") /\ ImportLost
  /\ att' = NoAttempt /\ dk' = Idle /\ cli' = "none"
  /\ UNCHANGED <<box, root>>

DockerStarts ==
  /\ target = "docker" /\ server = "down" /\ server' = "starting"
  /\ UNCHANGED <<target, claimed, faults, losses, importVars, dockVars>>

DockNext ==
  \/ ExecEnds \/ BoxClaims \/ BoxPrepares \/ BoxCreates \/ BoxRuns \/ BoxExecs
  \/ BoxReaps \/ BoxReapsLate
  \/ ExecReaped \/ Classifies \/ Terminates \/ Pauses \/ Exports \/ ProvesDead
  \/ Collects \/ Collected \/ WaitEnds \/ Expires
  \/ BoxStops \/ BoxForces \/ StopSees \/ BoxAnswers \/ BoxDrains
  \/ \E who \in Cleaners : CleanRemoves(who)
  \/ CleanEnds \/ FinalizesRecovered \/ DockerLost \/ DockerStarts
  \/ ImportNext /\ UNCHANGED dockVars
-----------------------------------------------------------------------------
(* An Attempt that was reported stopped, finalized, recovered or not       *)
(* started has no container.                                               *)
BoxDeathIsReal ==
  (claimed \/ att.in = "recovered") => box = "none"

(* Nothing is imported from a container that may still run, nor from an    *)
(* Attempt that timed out.                                                 *)
ImportsTheDead ==
  imp.by = "collect" /\ imp # Calm => ~Alive /\ ~att.timedOut
=============================================================================
