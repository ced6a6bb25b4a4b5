----------------------------- MODULE Superstep -----------------------------
(***************************************************************************)
(* What a graph in the AnyPredecessor trigger mode promises (the comment   *)
(* of AnyPredecessor in src/compose/types.go): the graph runs in super     *)
(* steps.  A node belongs to a super step when one of its predecessors     *)
(* wrote to it in the step before, and no node of a step is handed its     *)
(* input before every node of the step before has delivered its output.    *)
(* The run ends with the super step that writes to END.                    *)
(***************************************************************************)
EXTENDS GraphChannels

VARIABLES
  left,   \* nodes of the current super step that have not delivered
  inbox,  \* what has been written for the next super step
  fed,    \* fed[n]: the sources of the input of n
  ended   \* END has received its value

ssVars == <<left, inbox, fed, ended>>

Init ==
  /\ left = {START} /\ inbox = {} /\ ended = FALSE
  /\ fed = [n \in Node |-> {}]

Receivers(W) == {d \in Dst : Preds(W, d) # {}}

\* The tasks T of the step deliver.  The last one starts the next step.
Deliver(T, choice) ==
  LET written == inbox \union (Writes(T, choice) \intersect DataEdges)
  IN  IF left # T
      THEN /\ left' = left \ T /\ inbox' = written
           /\ UNCHANGED <<fed, ended>>
      ELSE /\ left' = Receivers(written) \ {END}
           /\ inbox' = {}
           /\ fed' = [n \in Node |-> IF n \in left' THEN Preds(written, n) ELSE fed[n]]
           /\ ended' = (END \in Receivers(written))

Next ==
  /\ ~ended
  /\ \E T \in (SUBSET left) \ {{}} :
       \E choice \in [T -> UNION {Selections(t) : t \in T}] :
         /\ \A t \in T : choice[t] \in Selections(t)
         /\ Deliver(T, choice)

Spec == Init /\ [][Next]_ssVars
=============================================================================
