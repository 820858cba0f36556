----------------------------- MODULE Supervisors ----------------------------
(***************************************************************************)
(* The production supervisors behind the target router of the Workbench    *)
(* server: an Attempt runs as a native process group or in a container,    *)
(* as its frozen target says, and no other supervisor ever sees it.        *)
(***************************************************************************)
EXTENDS TrustedHost, DockerAttempt

vars == <<launchVars, hostVars, importVars, dockVars>>

Init == LaunchInit /\ HostInit /\ ImportInit /\ DockInit

OnHost == /\ target = "trusted_host" /\ HostNext
          /\ UNCHANGED <<importVars, dockVars>>

InDocker == target = "docker" /\ DockNext /\ UNCHANGED hostVars

Next == OnHost \/ InDocker

Spec == Init /\ [][Next]_vars
-----------------------------------------------------------------------------
(* Every variable of both supervisors keeps its type; a record in memory   *)
(* is never in a state that only a manifest can be in.                     *)
TypeOK == LaunchTypeOK /\ HostTypeOK /\ ImportTypeOK /\ DockTypeOK

(* StopConfirmed, the proof of death in a manifest, a finished Finalize    *)
(* and "no child": each is given only when no process of the Attempt, or   *)
(* no container of it, is left, whatever was lost or failed before.        *)
DeathIsReal == HostDeathIsReal /\ BoxDeathIsReal

(* A native child that runs the target, or anything it forked, is named by *)
(* a durable record a restarted server reads; and no signal meant for its  *)
(* group reaches whoever was given the number after it.                    *)
ChildIsOwned == HostChildIsRecorded /\ SignalsStayInGroup

(* The worktrees of a Task receive all of an isolated result or none of it *)
(* unless a journal remembers otherwise, and only after the container was  *)
(* proven dead and never after a timeout.                                  *)
ImportIsWhole == ImportIsAllOrNothing /\ ImportsTheDead

(* The launch of the Attempt, its process and what was answered of its     *)
(* death, for the one launch token there is.                               *)
If(cond) == IF cond THEN {"token"} ELSE {}
Launching == \/ th.start \in {"write", "spawn"}
             \/ dk.start \in {"root", "create", "run"}
Living == leader \in {"gated", "executing"} \/ kin \/ Alive

Process == INSTANCE SupervisedProcess
  WITH Tokens <- {"token"}, starting <- If(Launching), alive <- If(Living),
       proven <- If(claimed)

(* The supervisors keep the contract of execution.Supervisor that the Run  *)
(* lifecycle relies on: a process comes only out of its launch and at most *)
(* once, no launch is begun beside it, and an Attempt whose death was      *)
(* proven has no process and gets none, whatever fails, is lost or is      *)
(* recovered.  What counts as a proof is with Claims: the ReconcileDead of *)
(* a live Docker record does not.                                          *)
ImplementsSupervisedProcess == Process!Spec
=============================================================================
