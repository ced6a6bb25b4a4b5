---------------------------- MODULE MCResumeInfo ----------------------------
(* Trees of components for TLC. *)
EXTENDS ResumeInfo, TLC

CONSTANTS root, agent, graph, tools, a, b, inner, innerA, innerB

\* Runner, an agent with its graph, and a node of it that calls two tools at
\* once, of which one runs an agent with two tools of its own.
TeamOf == {root, agent, graph, tools, a, b, inner, innerA, innerB}
TeamParent == (agent :> root) @@ (graph :> agent) @@ (tools :> graph)
                @@ (a :> tools) @@ (b :> tools)
                @@ (inner :> a) @@ (innerA :> inner) @@ (innerB :> inner)
TeamLoader == {root, graph, a}
TeamGraph == {graph}
TeamParallel == {tools, inner}
TeamRepeats == {graph, inner}
TeamRank == [n \in TeamOf |-> 0]

\* A node that calls two agent tools, one after the other.
PairOf == {root, tools, a, b, innerA, innerB}
PairParent == (tools :> root) @@ (a :> tools) @@ (b :> tools)
                @@ (innerA :> a) @@ (innerB :> b)
PairLoader == {root, a, b}
PairRank == [n \in PairOf |-> IF n = b THEN 1 ELSE 0]

None == {}

=============================================================================
