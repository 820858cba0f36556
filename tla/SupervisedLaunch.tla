-------------------------- MODULE SupervisedLaunch --------------------------
(***************************************************************************)
(* What the two production supervisors share: one launch token, the server *)
(* process that owns it, and the failures around both.  The frozen target  *)
(* of an Attempt selects the supervisor (newTargetRoutingSupervisor of     *)
(* internal/localweb/supervisor.go) and never changes, so a behaviour      *)
(* belongs to one of them; the other keeps its initial state.              *)
(***************************************************************************)
EXTENDS Naturals, FiniteSets

CONSTANTS Targets,    \* execution targets to start from
          MaxFaults,  \* bound on calls of the system that fail
          MaxLosses   \* bound on losses of the server

ASSUME TargetsAssumption == Targets \subseteq {"trusted_host", "docker"}
ASSUME BoundsAssumption == MaxFaults \in Nat /\ MaxLosses \in Nat

VARIABLES
  target,   \* execution target frozen in the Attempt
  server,   \* "up", "down", or "starting" while it recovers
  claimed,  \* history: the supervisor has answered that the Attempt is dead
  faults, losses

launchVars == <<target, server, claimed, faults, losses>>

LaunchTypeOK ==
  /\ target \in Targets /\ server \in {"up", "down", "starting"}
  /\ claimed \in BOOLEAN
  /\ faults \in 0..MaxFaults /\ losses \in 0..MaxLosses

LaunchInit == /\ target \in Targets /\ server = "up" /\ claimed = FALSE
              /\ faults = 0 /\ losses = 0
-----------------------------------------------------------------------------
On(t) == target = t /\ server = "up"
Fault == faults < MaxFaults /\ faults' = faults + 1
Lost(t) == /\ target = t /\ server # "down" /\ losses < MaxLosses
           /\ server' = "down" /\ losses' = losses + 1
           /\ UNCHANGED <<target, claimed, faults>>

(* An answer that is a proof of death: StopConfirmed, a finished Finalize, *)
(* the ReconcileDead of the trusted host and of a recovered container.     *)
(* That of a live Docker record says only that docker exec ended, while    *)
(* the container may still run, and is no such answer.                     *)
Claims == claimed' = TRUE /\ UNCHANGED <<target, server, faults, losses>>
=============================================================================
