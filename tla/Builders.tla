------------------------------ MODULE Builders ------------------------------
(***************************************************************************)
(* A graph that is built directly, by a chain or by a workflow, by any     *)
(* sequence of calls.                                                      *)
(***************************************************************************)
EXTENDS ChainBuild, WorkflowBuild

CONSTANTS Starts,        \* the graphs that building begins with
          GraphNodes,    \* the keys of the nodes of a plain graph
          GraphTypes,    \* the input and output types of its components
          MaxEdges       \* bound: how many edges and branches it gets

builderVars == <<graph, chain, wf>>

(* Names and types are strings, and Nil is none of the types.              *)
ValueType == STRING \ {Nil}
Path == Seq(STRING)
Mapping == [from : Path, to : Path]
Part == [pass : {FALSE}, in : ValueType, out : ValueType, keyed : BOOLEAN, fits : BOOLEAN]
          \cup [pass : {TRUE}, in : {Nil}, out : {Nil}, keyed : BOOLEAN, fits : BOOLEAN]

BuildersAssumption ==
  /\ \A g \in Starts : /\ g.cmp \in STRING /\ g.in \in ValueType /\ g.out \in ValueType
                      /\ g = NewGraph(g.cmp, g.in, g.out)
  /\ GraphNodes \subseteq STRING /\ GraphTypes \subseteq ValueType \X ValueType
  /\ Keys \in [0 .. MaxSteps - 1 -> [0 .. 2 -> STRING]] /\ OwnKey \in STRING
  /\ Parts \subseteq Part /\ Conditions \subseteq ValueType
  /\ Steps \subseteq STRING \ {START, END} /\ IsFiniteSet(Steps)
  /\ Mappings \subseteq Seq(Mapping) /\ Statics \subseteq Path
  /\ StepParts \subseteq Part /\ StepConditions \subseteq ValueType
  /\ MaxSteps \in Nat
ASSUME BuildersAssumed == BuildersAssumption
(* Which the provers do not know of the literals. *)
ASSUME Literals == {START, END, Nil, "map", "any", "a", "direct", "indirect", "dependency"} \subseteq STRING

BuilderInit == graph \in Starts /\ ChainInit /\ WorkflowInit

(* The plain graph: AddXNode, AddEdge, AddBranch, Compile. *)
GraphNext ==
  \/ \E n \in GraphNodes :
        \/ \E t \in GraphTypes : graph' = AddComponentNode(graph, n, t[1], t[2])
        \/ graph' = AddPassthroughNode(graph, n)
        \/ graph' = AddNode(graph, n, Misfit("a", "a"))
  \/ /\ Cardinality(graph.control) + Len(graph.branches) < MaxEdges
     /\ \E from, to \in GraphNodes \cup {START, END} :
          \/ graph' = AddEdge(graph, from, to)
          \/ \E cond \in Conditions :
               graph' = AddBranch(graph, from, cond, {to, END}, FALSE)
  \/ \E opt \in Options : graph' = Compile(graph, opt)

BuilderNext ==
  \/ graph.cmp = "graph" /\ GraphNext /\ UNCHANGED <<chain, wf>>
  \/ graph.cmp = "chain" /\ ChainNext /\ UNCHANGED wf
  \/ graph.cmp = "workflow" /\ WorkflowNext /\ UNCHANGED chain

BuilderSpec == BuilderInit /\ [][BuilderNext]_builderVars

----------------------------------------------------------------------------
(* validateDAG accepts exactly the graphs without a cycle of control.      *)
DagIsAcyclic == ValidateDAG(graph) <=> Acyclic(graph)

(* In a compiled graph both ends of every edge that carries data have a    *)
(* type, and the types agree or are checked when a value passes, except at *)
(* a passthrough whose type a branch has replaced after edges at it were   *)
(* validated.                                                              *)
EdgesFit ==
  graph.compiled =>
    \A e \in DataPairs(graph) : e[1] \in graph.retyped \/ e[2] \in graph.retyped \/ Fits(graph, e)
=============================================================================
