---------------------------- MODULE GraphBuild ----------------------------
(***************************************************************************)
(* The graph builder (compose/graph.go): one record, and an operator per   *)
(* method that changes it. Graph, Chain and Workflow all build through     *)
(* these. A type is a member of a small set: "any" stands for an interface *)
(* that every type implements, "map" for map[string]any, Nil for the type  *)
(* that a passthrough node has not been given yet. What is compiled is the *)
(* record itself, so a compiled graph is one that has compiled set.        *)
(***************************************************************************)
EXTENDS Naturals, Sequences, FiniteSets, SequencesExt, FiniteSetsExt

VARIABLE graph  \* the graph being built

(* A loop of so many turns, from a first value on.                         *)
Repeat(Turn(_, _), first, turns) ==
  LET after[k \in 0 .. turns] == IF k = 0 THEN first ELSE Turn(after[k - 1], k)
  IN after[turns]

START == "start"
END == "end"
Nil == "nil"

(* A component, or a passthrough, whose type comes from its neighbours.    *)
(* fits says whether the node's options agree with the graph: its state    *)
(* type, its handlers' types, a node key outside a chain; keyed, whether   *)
(* it has an output key, which makes its output a map.                     *)
Component(in, out) == [pass |-> FALSE, in |-> in, out |-> out,
                       keyed |-> FALSE, fits |-> TRUE]
Misfit(in, out) == [Component(in, out) EXCEPT !.fits = FALSE]
Passthrough == [pass |-> TRUE, in |-> Nil, out |-> Nil, keyed |-> FALSE, fits |-> TRUE]

(* newGraph. retyped is not in the code: the passthroughs whose type a     *)
(* branch has replaced after edges to them were checked.                   *)
NewGraph(cmp, in, out) ==
  [cmp |-> cmp, in |-> in, out |-> out, nodes |-> <<>>,
   control |-> {}, data |-> {}, branches |-> <<>>, pending |-> {},
   checked |-> {}, targets |-> <<>>, err |-> FALSE, compiled |-> FALSE,
   retyped |-> {}]

InputType(g, n) ==
  IF n = START THEN g.in ELSE IF n = END THEN g.out ELSE g.nodes[n].in
OutputType(g, n) ==
  IF n \in {START, END} THEN InputType(g, n)
  ELSE IF g.nodes[n].keyed THEN "map" ELSE g.nodes[n].out

(* checkAssignable *)
Must(out, in) == out = in \/ in = "any"
May(out, in) == out = "any" /\ in # "any"

SetType(g, n, t) == [g EXCEPT !.nodes[n] = [@ EXCEPT !.in = t, !.out = t]]
Fail(g) == [g EXCEPT !.err = TRUE]
Frozen(g) == g.err \/ g.compiled

AddNode(g, key, node) ==
  IF Frozen(g) THEN g
  ELSE IF key \in {START, END} \cup DOMAIN g.nodes \/ ~node.fits THEN Fail(g)
  ELSE [g EXCEPT !.nodes = [n \in DOMAIN @ \cup {key} |-> IF n = key THEN node ELSE @[n]]]

(* AddEmbeddingNode ... AddGraphNode, AddPassthroughNode                  *)
AddComponentNode(g, key, in, out) == AddNode(g, key, Component(in, out))
AddPassthroughNode(g, key) == AddNode(g, key, Passthrough)

(* validateFieldMapping, where structs are maps: a mapping is a pair of    *)
(* paths, the empty path being the whole value. The field of a map is any. *)
FieldType(t, path) == IF path = <<>> THEN t ELSE "any"
Expanded(in, path) == path # <<>> /\ (in = "any" \/ Len(path) > 1)
Mappable(out, in, mappings) ==
  LET maps == Range(mappings) IN
  /\ (\A m \in maps : m.to # <<>>) => in \in {"map", "any"}
  /\ (\A m \in maps : m.from # <<>>) => out = "map"
  /\ \A m \in maps : /\ in \notin {"map", "any"} => m.to = <<>>
                     /\ \/ Expanded(in, m.to)
                        \/ out \notin {"map", "any"} => m.from = <<>>
                     /\ \/ Must(FieldType(out, m.from), FieldType(in, m.to))
                        \/ May(FieldType(out, m.from), FieldType(in, m.to))

(* An edge of which one end has a type, which passes to the other. *)
Typed(g, e) ==
  LET out == OutputType(g, e.from)
      in == InputType(g, e.to)
  IN IF in = Nil THEN SetType(g, e.to, out)
     ELSE IF out = Nil THEN SetType(g, e.from, in) ELSE g

Done(g, e) == [Typed(g, e) EXCEPT !.pending = @ \ {e}]
Check(g, e) == [Done(g, e) EXCEPT !.checked = @ \cup {<<e.from, e.to>>}]

(* Mutant: no check is left for when a value passes. *)
ValidateNoCheck(g, e) ==
  LET out == OutputType(g, e.from)
      in == InputType(g, e.to)
  IN IF Nil \in {in, out} \/ Must(out, in) \/ May(out, in) THEN Done(g, e) ELSE Fail(Done(g, e))

(* One turn of updateToValidateMap for an edge of which at least one end   *)
(* has a type: pass it on, or compare.                                     *)
Validate(g, e) ==
  LET out == OutputType(g, e.from)
      in == InputType(g, e.to)
      h == Done(g, e)
  IN IF e.maps # <<>>
     THEN IF Mappable(OutputType(h, e.from), InputType(h, e.to), e.maps)
          THEN [Check(g, e) EXCEPT !.targets = Append(@, [node |-> e.to, maps |-> e.maps])]
          ELSE Fail(h)
     ELSE IF Nil \in {in, out} \/ Must(out, in) THEN h
     ELSE IF May(out, in) THEN Check(g, e) ELSE Fail(h)

Able(g) == {e \in g.pending : OutputType(g, e.from) # Nil \/ InputType(g, e.to) # Nil}

ValidateNext(g) ==
  IF g.err \/ Able(g) = {} THEN g ELSE Validate(g, CHOOSE e \in Able(g) : TRUE)

UpdateToValidateMap(g) == Repeat(LAMBDA h, k : ValidateNext(h), g, Cardinality(g.pending))

AddToValidate(g, from, to, maps) ==
  UpdateToValidateMap(
    [g EXCEPT !.pending = @ \cup {[from |-> from, to |-> to, maps |-> maps]}])

Known(g, n) == n \in DOMAIN g.nodes \cup {START, END}

(* addEdgeWithMappings. Asking for neither control nor data is refused     *)
(* without being remembered; every other error is.                         *)
EdgeFails(g, from, to, noControl) ==
  \/ from = END \/ to = START \/ ~Known(g, from) \/ ~Known(g, to)
  \/ ~noControl /\ <<from, to>> \in g.control

AddControl(g, from, to, noControl) ==
  IF noControl THEN g ELSE [g EXCEPT !.control = @ \cup {<<from, to>>}]

AddData(g, from, to, maps) ==
  LET h == AddToValidate(g, from, to, maps)
  IN IF <<from, to>> \in g.data THEN Fail(g)
     ELSE IF h.err THEN h ELSE [h EXCEPT !.data = @ \cup {<<from, to>>}]

AddEdgeWithMappings(g, from, to, noControl, noData, maps) ==
  IF Frozen(g) \/ (noControl /\ noData) THEN g
  ELSE IF EdgeFails(g, from, to, noControl) THEN Fail(g)
  ELSE IF noData THEN AddControl(g, from, to, noControl)
  ELSE AddData(AddControl(g, from, to, noControl), from, to, maps)

AddEdge(g, from, to) == AddEdgeWithMappings(g, from, to, FALSE, FALSE, <<>>)

(* addBranch: a passthrough takes the type of the condition, whatever its  *)
(* type was. The ends are validated one after the other.                   *)
AddEnd1(g, from, end) ==
  IF g.err THEN g
  ELSE IF end \notin DOMAIN g.nodes \cup {END} THEN Fail(g)
  ELSE AddToValidate(g, from, end, <<>>)

AddEnds(g, from, ends) ==
  LET order == SetToSeq(ends)
  IN Repeat(LAMBDA h, k : AddEnd1(h, from, order[k]), g, Len(order))

Retype(g, from, t) ==
  IF from = START \/ ~g.nodes[from].pass THEN g
  ELSE [SetType(g, from, t) EXCEPT
          !.retyped = IF g.nodes[from].in \in {Nil, t} THEN @ ELSE @ \cup {from}]

AddBranch(g, from, in, ends, skipData) ==
  LET h == Retype(g, from, in)
      out == OutputType(h, from)
      k == IF skipData THEN h ELSE AddEnds(h, from, ends)
  IN IF Frozen(g) THEN g
     ELSE IF from = END \/ ~Known(g, from) THEN Fail(g)
     ELSE IF ~Must(out, in) /\ ~May(out, in) THEN Fail(h)
     ELSE IF k.err THEN k
     ELSE [k EXCEPT !.branches = Append(@,
             [from |-> from, in |-> in, ends |-> ends, noData |-> skipData])]

BranchPairs(g) ==
  {p \in (DOMAIN g.branches) \X (DOMAIN g.nodes \cup {END}) : p[2] \in g.branches[p[1]].ends}

(* The ways control is passed on: an edge, or an end of a branch.         *)
Controls(g) ==
  {[from |-> e[1], to |-> e[2], branch |-> 0] : e \in g.control}
    \cup {[from |-> g.branches[p[1]].from, to |-> p[2], branch |-> p[1]] : p \in BranchPairs(g)}

(* startNodes, endNodes *)
HasStart(g) == \E c \in Controls(g) : c.from = START
HasEnd(g) == \E c \in Controls(g) : c.to = END

(* Mutant: the ends of branches are not counted. *)
PredecessorsByEdge(g) ==
  [n \in DOMAIN g.nodes |-> Cardinality({e \in g.control : e[2] = n /\ e[1] # START})]

(* validateDAG: the number of control predecessors of each node, START not *)
(* counted, and the nodes with none removed again and again.               *)
Predecessors(g) ==
  [n \in DOMAIN g.nodes |-> Cardinality({c \in Controls(g) : c.to = n /\ c.from # START})]

ControlsFrom(g, from, n) == Cardinality({c \in Controls(g) : c.from = from /\ c.to = n})

Free(s) == {n \in s.left : s.count[n] = 0}

StripOne(g, s) ==
  LET n == CHOOSE x \in Free(s) : TRUE
  IN IF Free(s) = {} THEN s
     ELSE [left |-> s.left \ {n},
           count |-> [x \in DOMAIN g.nodes |-> s.count[x] - ControlsFrom(g, n, x)]]

Strip(g) ==
  Repeat(LAMBDA s, k : StripOne(g, s),
         [left |-> DOMAIN g.nodes, count |-> Predecessors(g)], Cardinality(DOMAIN g.nodes))

ValidateDAG(g) == Strip(g).left = {}

(* The compile options that can be refused. *)
Options == [trigger : {"", "AllPredecessor"}, maxSteps : BOOLEAN]

IsDag(g, opt) == opt.trigger = "AllPredecessor" \/ g.cmp = "workflow"

Tos(maps) == [i \in DOMAIN maps |-> maps[i].to]
TargetsOf(g, n) ==
  FlattenSeq([i \in DOMAIN g.targets |->
    IF g.targets[i].node = n THEN Tos(g.targets[i].maps) ELSE <<>>])

Compilable(g, opt) ==
  /\ ~g.err
  /\ g.cmp # "graph" => opt.trigger = ""
  /\ HasStart(g) /\ HasEnd(g)
  /\ g.pending = {}
  /\ \A n \in DOMAIN g.nodes \cup {END} : IsInjective(TargetsOf(g, n))
  /\ IsDag(g, opt) => ValidateDAG(g) /\ ~opt.maxSteps

(* compile: an error is returned and not remembered. *)
Compile(g, opt) ==
  IF Compilable(g, opt) THEN [g EXCEPT !.compiled = TRUE] ELSE g

----------------------------------------------------------------------------
(* What compile promises of the record, stated without its algorithms.     *)

(* Nodes each of which is led to by one of them: in a graph that starts a  *)
(* node after all its predecessors, none of them can be the first to run.  *)
Waiting(g, S) == \A n \in S : \E c \in Controls(g) : c.to = n /\ c.from \in S
Acyclic(g) == \A S \in SUBSET DOMAIN g.nodes : Waiting(g, S) => S = {}

DataPairs(g) ==
  g.data \cup {<<g.branches[p[1]].from, p[2]>> :
                 p \in {q \in BranchPairs(g) : ~g.branches[q[1]].noData}}

Fits(g, e) ==
  /\ OutputType(g, e[1]) # Nil /\ InputType(g, e[2]) # Nil
  /\ e \in g.checked \/ Must(OutputType(g, e[1]), InputType(g, e[2]))
============================================================================
