----------------------------- MODULE MCGraphRun -----------------------------
(***************************************************************************)
(* Graphs for the runs of GraphRun.                                        *)
(***************************************************************************)
EXTENDS GraphRunInv

AllNodes == {"a", "b", "c", "d"}

None == {}
NodesA == {"a"}
NodesB == {"b"}
NodesC == {"c"}
NodesD == {"d"}
NodesAB == {"a", "b"}

Edges(E, s) == {e[2] : e \in {x \in E : x[1] = s}}

AllSources == AllNodes \union {"start"}

\* a and b start together; a chooses between c and d, d also waits for b.
ForkEdges == {<<"start", "a">>, <<"start", "b">>, <<"b", "d">>,
              <<"c", "end">>, <<"d", "end">>}
ForkWriteTo == [s \in AllSources |-> Edges(ForkEdges, s)]
ForkBranches == [s \in AllSources |->
  IF s = "a" THEN {[ends |-> {"c", "d"}, noDataFlow |-> FALSE]} ELSE {}]

\* A workflow.  The branch of a only orders b and c, whose data comes over
\* edges of their own; d takes data from start and c without depending on
\* them.
FlowControls == [s \in AllSources |-> Edges(
  {<<"start", "a">>, <<"b", "d">>, <<"c", "end">>, <<"d", "end">>}, s)]
FlowWriteTo == [s \in AllSources |-> Edges(
  {<<"start", "a">>, <<"start", "d">>, <<"a", "b">>, <<"a", "c">>,
   <<"b", "d">>, <<"c", "d">>, <<"d", "end">>}, s)]
FlowBranches == [s \in AllSources |->
  IF s = "a" THEN {[ends |-> {"b", "c"}, noDataFlow |-> TRUE]} ELSE {}]

\* A loop: a either ends the run or calls b, which returns to a; c joins b.
LoopEdges == {<<"start", "a">>, <<"start", "c">>, <<"c", "b">>, <<"b", "a">>,
              <<"d", "end">>}
LoopWriteTo == [s \in AllSources |-> Edges(LoopEdges, s)]
LoopBranches == [s \in AllSources |->
  IF s = "a" THEN {[ends |-> {"b", "d"}, noDataFlow |-> FALSE]} ELSE {}]
=============================================================================
