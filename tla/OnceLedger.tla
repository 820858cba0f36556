----------------------------- MODULE OnceLedger -----------------------------
(***************************************************************************)
(* What the record of Task delivery promises of side effects, with nothing *)
(* about Git, the hosting service or the person: an operation is previewed *)
(* and confirmed, one at a time; only the confirmation in hand may begin   *)
(* its effect, once, and nothing begins it again, however often the        *)
(* outcome is looked up afterwards; an outcome is final; and an operation  *)
(* whose effect nobody can rule out by looking fails only before it began. *)
(* Module ResultDelivery implements it.                                    *)
(***************************************************************************)
EXTENDS Naturals

CONSTANT Operations

VARIABLES
  record,   \* what is recorded of each operation
  hand,     \* the confirmed operation whose effect may still begin
  begun,    \* how often the effect of each operation began
  blind     \* operations whose effect is not ruled out by its absence

ledgerVars == <<record, hand, begun, blind>>

Init == /\ record = [o \in Operations |-> "none"]
        /\ hand = {}
        /\ begun = [o \in Operations |-> 0]
        /\ blind = {}

AllSettled == \A o \in Operations : record[o] # "open"

Preview(o) == /\ AllSettled /\ record[o] = "none"
              /\ record' = [record EXCEPT ![o] = "preview"]
              /\ blind' \in {blind, blind \cup {o}}
              /\ UNCHANGED <<hand, begun>>

Confirm(o) == /\ AllSettled /\ record[o] = "preview"
              /\ record' = [record EXCEPT ![o] = "open"]
              /\ hand' = {o}
              /\ UNCHANGED <<begun, blind>>

Begin(o) == /\ o \in hand
            /\ begun' = [begun EXCEPT ![o] = @ + 1]
            /\ hand' = hand \ {o}
            /\ UNCHANGED <<record, blind>>

(* The confirmation is over, or a later look at the world tells the        *)
(* outcome of an open operation, or leaves it open.                        *)
Settle(o) == /\ record[o] = "open"
             /\ \E s \in {"open", "succeeded", "failed"} :
                  /\ s = "failed" /\ o \in blind => begun[o] = 0
                  /\ record' = [record EXCEPT ![o] = s]
             /\ hand' = hand \ {o}
             /\ UNCHANGED <<begun, blind>>

Next == \E o \in Operations :
          Preview(o) \/ Confirm(o) \/ Begin(o) \/ Settle(o)

Spec == Init /\ [][Next]_ledgerVars
=============================================================================
