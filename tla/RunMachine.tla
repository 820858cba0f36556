----------------------------- MODULE RunMachine -----------------------------
(***************************************************************************)
(* What the domain package promises of a persisted AgentRun, with nothing  *)
(* about who drives it: every step follows the transition table, raises    *)
(* the version by exactly one, and takes a new attempt number exactly when *)
(* it prepares an Attempt.  AgentRun and RunLifecycle implement it.        *)
(***************************************************************************)
EXTENDS Naturals, RunTable

VARIABLES state,      \* RunState of the persisted Run
          version,    \* its optimistic-concurrency version
          attempt     \* currentAttemptNumber

machineVars == <<state, version, attempt>>

Init == /\ state = "draft"
        /\ version = 0
        /\ attempt = 0

(* A command that prepares an Attempt.                                     *)
Prepare == /\ state' \in Targets(state, PrepareCommands)
           /\ version' = version + 1
           /\ attempt' = attempt + 1

(* Any other command.                                                      *)
Advance == /\ state' \in Targets(state, CommandKinds \ PrepareCommands)
           /\ version' = version + 1
           /\ UNCHANGED attempt

Next == Prepare \/ Advance

Spec == Init /\ [][Next]_machineVars
=============================================================================
