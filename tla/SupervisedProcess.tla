------------------------- MODULE SupervisedProcess -------------------------
(***************************************************************************)
(* What a supervisor promises of the Attempts it runs, and all that the    *)
(* Run lifecycle may rely on: a launch is claimed before anything runs,    *)
(* nothing runs beside a claimed launch or a live Attempt, a process comes *)
(* only out of its launch, at most one, and an Attempt that was proven     *)
(* dead has no process, and never gets one unless it is claimed anew.      *)
(* Supervisors implements it with process groups and containers, and       *)
(* RunLifecycle with the processes and records of the Run's Attempts.      *)
(***************************************************************************)

CONSTANT Tokens   \* launch tokens, one for each Attempt

VARIABLES
  starting,  \* tokens whose launch may still make a process
  alive,     \* tokens with a live process
  proven     \* tokens whose death was proven by an answer, or recorded

processVars == <<starting, alive, proven>>

Init == starting = {} /\ alive = {} /\ proven = {}

Claim(t) == /\ starting = {} /\ alive = {}
            /\ starting' = {t} /\ proven' = proven \ {t}
            /\ UNCHANGED alive

(* The launch is over, with a process or without one.                      *)
Launch(t) == /\ t \in starting
             /\ starting' = starting \ {t}
             /\ alive' \in {alive, alive \cup {t}}
             /\ UNCHANGED proven

Die(t) == /\ t \in alive
          /\ alive' = alive \ {t}
          /\ UNCHANGED <<starting, proven>>

Prove(t) == /\ t \notin starting \cup alive
            /\ proven' = proven \cup {t}
            /\ UNCHANGED <<starting, alive>>

Next == \E t \in Tokens : Claim(t) \/ Launch(t) \/ Die(t) \/ Prove(t)

Spec == Init /\ [][Next]_processVars
=============================================================================
