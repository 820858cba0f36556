--------------------------- MODULE RunTableProofs ---------------------------
(***************************************************************************)
(* Lemmas about the command table: Targets and the rows it comes from.     *)
(***************************************************************************)
EXTENDS RunTable, TLAPS

(* A target of a set of commands is one row of the table.                  *)
LEMMA TargetsRow ==
  ASSUME NEW s, NEW C, NEW n \in Targets(s, C)
  PROVE  \E c \in C : <<s, c, n>> \in RunTransitions
<1>1. PICK t \in RunTransitions : t[1] = s /\ t[2] \in C /\ t[3] = n
  BY DEF Targets
<1>2. t = <<t[1], t[2], t[3]>>
  BY <1>1 DEF RunTransitions
<1> QED
  BY <1>1, <1>2

(* A row of the table is a target of its command and of every set with it. *)
LEMMA RowTargets ==
  ASSUME NEW s, NEW C, NEW c \in C, NEW n, <<s, c, n>> \in RunTransitions
  PROVE  n \in Targets(s, C)
<1> DEFINE t == <<s, c, n>>
<1>1. t \in {u \in RunTransitions : u[1] = s /\ u[2] \in C} /\ t[3] = n
  OBVIOUS
<1> QED
  BY <1>1 DEF Targets

(* The rows of one command.                                                *)
LEMMA RowOfCommand ==
  ASSUME NEW s, NEW c, NEW n, n \in Targets(s, {c})
  PROVE  <<s, c, n>> \in RunTransitions
<1>1. \E d \in {c} : <<s, d, n>> \in RunTransitions
  <2> DEFINE C == {c}
  <2>1. n \in Targets(s, C)
    OBVIOUS
  <2> HIDE DEF C
  <2>2. \E d \in C : <<s, d, n>> \in RunTransitions
    BY <2>1, TargetsRow
  <2> QED
    BY <2>2 DEF C
<1> QED
  BY <1>1

LEMMA CanFollow ==
  ASSUME NEW s, NEW c, NEW n, <<s, c, n>> \in RunTransitions
  PROVE  /\ CanTransitionRunState(s, n)
         /\ c \in CommandKinds /\ s \in RunStates /\ n \in RunStates
<1>1. c \in CommandKinds
  <2> DEFINE t == <<s, c, n>>
  <2>1. t \in RunTransitions /\ t[2] = c
    OBVIOUS
  <2> QED
    BY <2>1 DEF CommandKinds
<1>2. s \in RunStates /\ n \in RunStates
  BY DEF RunTransitions, RunStates
<1> QED
  BY <1>1, <1>2, RowTargets DEF CanTransitionRunState
=============================================================================
