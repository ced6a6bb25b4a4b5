------------------------------ MODULE Dataflow ------------------------------
(***************************************************************************)
(* What a graph in the AllPredecessor trigger mode promises, with no       *)
(* channels, task manager, batches or checkpoints: NodeTriggerMode in      *)
(* src/compose/graph_compile_options.go and src/compose/types.go.          *)
(*                                                                         *)
(* A node fires once, when each of its control predecessors has either     *)
(* finished or been skipped, at least one of them has led to it, and each  *)
(* data predecessor has either delivered or been skipped; its input is     *)
(* what the data predecessors that led to it delivered.  A run that stops  *)
(* early leaves a checkpoint, and may be taken up again from the last one  *)
(* as often as one likes: it goes on from exactly where that one was made. *)
(***************************************************************************)
EXTENDS GraphChannels

VARIABLES
  fired,   \* nodes that have been handed their input
  done,    \* sources whose output has been passed on
  sel,     \* sel[s]: the successors the branches of s selected
  fed,     \* fed[n]: the sources of the input of n
  ended,   \* END has received its value
  kept     \* what the last checkpoint holds of these

progress == [fired |-> fired, done |-> done, sel |-> sel, fed |-> fed]
dfVars == <<progress, ended, kept>>

Init ==
  /\ fired = {} /\ done = {} /\ ended = FALSE
  /\ sel = [s \in Src |-> {}]
  /\ fed = [n \in Node |-> {}]
  /\ kept = progress

\* The skipped nodes: no control predecessor can still lead to them.
LeadsTo(D, c, s, d) == s \in D /\ d \in Controls[s] \union c[s]

DeadSet(D, c, S) ==
  \A d \in Dst :
    Preds(ControlEdges, d) # {} =>
    ((\A s \in Preds(ControlEdges, d) :
        (s \in D /\ ~LeadsTo(D, c, s, d)) \/ s \in S) => d \in S)

Skipped(D, c) ==
  {d \in Dst : \A S \in SUBSET Dst : DeadSet(D, c, S) => d \in S}

Delivers(D, c, s, d) == s \in D /\ d \in WriteTo[s] \union c[s]

\* A data predecessor counts as settled when it delivered, was skipped, or
\* finished and its branch chose somebody else.
Settled(D, c, s) == s \in D \union Skipped(D, c)

Enabled(D, c, d) ==
  /\ d \notin Skipped(D, c)
  /\ Preds(ControlEdges, d) \union Preds(DataEdges, d) # {}
  /\ \A s \in Preds(ControlEdges, d) \union Preds(DataEdges, d) : Settled(D, c, s)

InputOf(D, c, d) == {s \in Preds(DataEdges, d) : Delivers(D, c, s, d)}

\* The tasks in T are resolved and the nodes in F are handed their input.
Advance(T, F) ==
  /\ ~ended
  /\ T \union F # {}
  /\ T \subseteq (fired \union {START}) \ done
  /\ done' = done \union T
  /\ \E choice \in [T -> UNION {Selections(t) : t \in T}] :
       /\ \A t \in T : choice[t] \in Selections(t)
       /\ sel' = [s \in Src |-> IF s \in T THEN choice[s] ELSE sel[s]]
  /\ F \intersect fired = {}
  /\ \A n \in F : Enabled(done', sel', n)
  /\ fired' = fired \union F
  /\ fed' = [n \in Node |-> IF n \in F THEN InputOf(done', sel', n) ELSE fed[n]]
  /\ ended' \in {FALSE, Enabled(done', sel', END)}
  /\ kept' \in {kept, progress'}

Keep ==
  /\ ~ended
  /\ kept' = progress
  /\ UNCHANGED <<progress, ended>>

Back ==
  /\ ~ended
  /\ progress' = kept
  /\ UNCHANGED <<ended, kept>>

Next ==
  \/ \E T \in SUBSET Src, F \in SUBSET Node : Advance(T, F)
  \/ Keep \/ Back

Spec == Init /\ [][Next]_dfVars
=============================================================================
