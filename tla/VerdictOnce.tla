----------------------------- MODULE VerdictOnce -----------------------------
(***************************************************************************)
(* What independent verification promises of a Run, with nothing about     *)
(* executors, records or crashes: each output of the Agent gets at most    *)
(* one verdict; a round whose withdrawal was asked never gives one; and    *)
(* the Agent produces a new output only when the last one has a verdict.   *)
(* Module Verification implements it.                                      *)
(***************************************************************************)
EXTENDS Naturals

CONSTANT Agents   \* numbers of the Agent's attempts

VARIABLES current,   \* the attempt whose output is judged, 0 before the first
          verdict,   \* verdict on the output of each attempt
          round      \* the round of verification of the current output

verdictVars == <<current, verdict, round>>

Verdicts == {"review_ready", "needs_revision"}

Init == /\ current = 0
        /\ verdict = [a \in Agents |-> "none"]
        /\ round = "idle"

(* The Agent starts over, on the strength of a verdict.                    *)
NewOutput == /\ round = "idle"
             /\ current # 0 => verdict[current] # "none"
             /\ current' = current + 1
             /\ UNCHANGED <<verdict, round>>

Begin == /\ current # 0
         /\ verdict[current] = "none"
         /\ round \in {"idle", "unsure"}
         /\ round' = "checking"
         /\ UNCHANGED <<current, verdict>>

Ask == /\ round = "checking"
       /\ round' = "withdrawn"
       /\ UNCHANGED <<current, verdict>>

Decide(v) == /\ round = "checking"
             /\ verdict' = [verdict EXCEPT ![current] = v]
             /\ round' = "idle"
             /\ UNCHANGED current

(* The round ends without a verdict: cancelled, or not to be trusted.      *)
Drop == /\ round \in {"checking", "withdrawn"}
        /\ round' \in {"idle", "unsure"}
        /\ UNCHANGED <<current, verdict>>

Next == NewOutput \/ Begin \/ Ask \/ Drop \/ \E v \in Verdicts : Decide(v)

Spec == Init /\ [][Next]_verdictVars
=============================================================================
