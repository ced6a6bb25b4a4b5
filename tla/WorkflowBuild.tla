--------------------------- MODULE WorkflowBuild ---------------------------
(***************************************************************************)
(* The workflow builder (compose/workflow.go): inputs, branches and static *)
(* values are remembered per node and turned into edges when the workflow  *)
(* is compiled; the target paths of a node must not overlap.               *)
(***************************************************************************)
EXTENDS GraphBuild

CONSTANTS Steps,         \* the keys of the nodes
          Mappings,      \* sequences of field mappings an input may have
          Statics,       \* paths of static values
          StepParts,     \* components a node may have
          StepConditions, \* input types of branch conditions
          MaxInputs      \* bound: how many inputs, static values and branches are
                         \* declared, and how many branches compilations add

VARIABLES
  wf          \* the Workflow: inputs (addInputs), static (staticValues) and
              \* mapped (mappedFieldPath) of each node, forks
              \* (workflowBranches), added, the keys that have a
              \* WorkflowNode; and the history: again, the nodes that were
              \* added again when their paths had been mapped, ended, whether
              \* AddEnd was used, declared, how many inputs ... there are

Targets == Steps \cup {END}
(* mappedFieldPath, as far as its answers depend on it: whether the whole  *)
(* input is mapped, whether any path is, and the first elements that are   *)
(* terminal. A path of several elements puts an empty map below its first, *)
(* so nothing that is deeper is remembered.                                *)
NoPath == [all |-> FALSE, some |-> FALSE, terminal |-> {}, conflict |-> FALSE]

WorkflowInit ==
  wf = [inputs |-> [n \in Targets |-> <<>>], static |-> [n \in Targets |-> {}],
        mapped |-> [n \in Targets |-> NoPath], forks |-> <<>>, added |-> {},
        again |-> {}, ended |-> FALSE, declared |-> 0]

(* initNode: a WorkflowNode in place of the one the key may have. *)
InitNode(n) ==
  [wf EXCEPT !.inputs[n] = <<>>, !.static[n] = {}, !.mapped[n] = NoPath,
             !.added = @ \cup {n},
             !.again = IF wf.mapped[n] = NoPath THEN @ ELSE @ \cup {n}]

(* AddLambdaNode ...: the key has a new WorkflowNode whatever the graph    *)
(* says. An error is kept by the graph, except that it has been compiled.  *)
AddStep(n, part) == graph' = AddNode(graph, n, part) /\ wf' = InitNode(n)

(* The keys that a caller may have a WorkflowNode of: End() makes END's.   *)
Mentioned == wf.added \cup {END}

(* AddInput, AddInputWithOptions, AddDependency *)
AddInput(n, from, maps, mode) ==
  /\ n \in Mentioned /\ wf.declared < MaxInputs
  /\ mode = "dependency" => maps = <<>>
  /\ wf' = [wf EXCEPT !.inputs[n] = Append(@, [from |-> from, maps |-> maps, mode |-> mode]),
                      !.declared = @ + 1]
  /\ UNCHANGED graph

SetStaticValue(n, path) ==
  /\ n \in Mentioned /\ wf.declared < MaxInputs
  /\ wf' = [wf EXCEPT !.static[n] = @ \cup {path}, !.declared = @ + 1]
  /\ UNCHANGED graph

AddWorkflowBranch(from, cond, ends) ==
  /\ ends \subseteq Mentioned /\ wf.declared < MaxInputs
  /\ wf' = [wf EXCEPT !.forks = Append(@, [from |-> from, in |-> cond, ends |-> ends]),
                      !.declared = @ + 1]
  /\ UNCHANGED graph

(* AddEnd: an edge to END at once, without a look at the mapped paths. *)
AddEnd(from, maps) ==
  /\ wf.declared < MaxInputs
  /\ graph' = AddEdgeWithMappings(graph, from, END, FALSE, FALSE, maps)
  /\ wf' = [wf EXCEPT !.ended = TRUE, !.declared = @ + 1]

(* checkAndAddMappedPath: the paths before the first one that conflicts    *)
(* are remembered.                                                         *)
Conflicts(m, paths, i) ==
  /\ paths[i] # <<>>
  /\ \/ paths[i][1] \in m.terminal
     \/ \E j \in 1 .. i - 1 : paths[j] = <<paths[i][1]>>

MapPaths(m, paths) ==
  LET bad == {i \in DOMAIN paths : Conflicts(m, paths, i)}
      good == {i \in DOMAIN paths : Len(paths[i]) = 1 /\ \A b \in bad : i < b}
  IN IF m.all THEN [m EXCEPT !.conflict = TRUE]
     ELSE IF ~m.some /\ paths = <<>> THEN [m EXCEPT !.all = TRUE]
     ELSE [m EXCEPT !.some = TRUE, !.conflict = bad # {},
                    !.terminal = @ \cup {paths[i][1] : i \in good}]

(* The closures of addDependencyRelation, run one after the other until    *)
(* one fails. b is what compile works on: the graph, the workflow, ok.     *)
RunInput(b, n, d) ==
  LET m == IF d.mode = "dependency" THEN b.wf.mapped[n]
           ELSE MapPaths(b.wf.mapped[n], Tos(d.maps))
      h == AddEdgeWithMappings(b.g, d.from, n, d.mode = "indirect",
                               d.mode = "dependency", d.maps)
      fresh == [m EXCEPT !.conflict = FALSE]
      remembered == [b.wf EXCEPT !.mapped[n] = fresh]
  IN IF ~b.ok THEN b
     ELSE IF m.conflict THEN [b EXCEPT !.wf = remembered, !.ok = FALSE]
     ELSE [b EXCEPT !.wf = remembered, !.g = h, !.ok = ~h.err /\ ~h.compiled]

RunInputs(b, n) ==
  LET inputs == b.wf.inputs[n]
      done == Repeat(LAMBDA c, k : RunInput(c, n, inputs[k]), b, Len(inputs))
      rest == [done.wf EXCEPT !.inputs[n] = <<>>]
  IN IF done.ok THEN [done EXCEPT !.wf = rest] ELSE done

RunStatic(b, n) ==
  LET paths == b.wf.static[n]
      m == MapPaths(b.wf.mapped[n], SetToSeq(paths))
      fresh == [m EXCEPT !.conflict = FALSE]
      remembered == [b.wf EXCEPT !.mapped[n] = fresh]
      given == [node |-> n, maps |-> SetToSeq({[from |-> <<>>, to |-> p] : p \in paths})]
      h == [b.g EXCEPT !.targets = Append(@, given)]
  IN IF ~b.ok \/ paths = {} THEN b
     ELSE IF m.conflict THEN [b EXCEPT !.wf = remembered, !.ok = FALSE]
     ELSE [b EXCEPT !.wf = remembered, !.g = h]

RunBranch(h, f) == AddBranch(h, f.from, f.in, f.ends, TRUE)
RunBranches(h) == Repeat(LAMBDA g, k : RunBranch(g, wf.forks[k]), h, Len(wf.forks))

(* compile: branches, inputs and static values, the nodes in any order. An *)
(* overlap of paths is an error of this compilation only, and the branches *)
(* are added again by the next one.                                        *)
CompileWorkflow(opt) ==
  /\ Len(graph.branches) + Len(wf.forks) <= MaxInputs
  /\ \E order \in SetToSeqs(Targets) :
      LET begun == [g |-> RunBranches(graph), wf |-> wf, ok |-> TRUE]
          wired == Repeat(LAMBDA b, k : RunInputs(b, order[k]), begun, Len(order))
          done == Repeat(LAMBDA b, k : RunStatic(b, order[k]), wired, Len(order))
      IN /\ ~graph.err
         /\ graph' = IF done.ok THEN Compile(done.g, opt) ELSE done.g
         /\ wf' = done.wf

WorkflowNext ==
  \/ \E n \in Steps, part \in StepParts : AddStep(n, part)
  \/ \E n \in Targets : \E from \in (Steps \cup {START}) \ {n}, maps \in Mappings,
        mode \in {"direct", "indirect", "dependency"} : AddInput(n, from, maps, mode)
  \/ \E n \in Targets, path \in Statics : SetStaticValue(n, path)
  \/ \E from \in Steps \cup {START} : \E cond \in StepConditions, ends \in SUBSET (Targets \ {from}) \ {{}} :
       AddWorkflowBranch(from, cond, ends)
  \/ \E from \in Steps, maps \in Mappings : AddEnd(from, maps)
  \/ \E opt \in Options : CompileWorkflow(opt)

----------------------------------------------------------------------------
(* The target paths of a node in the order they were mapped in.            *)
Overlap(short, long) == short # long /\ IsPrefix(short, long)

(* In a compiled workflow no field of an input is assigned twice: no two   *)
(* targets of a node are equal, and none is inside another, except where   *)
(* checkAndAddMappedPath does not look: a field below another that has     *)
(* more than one element, a field whose part was mapped before it, a whole *)
(* input that FromField maps, or that comes after fields; at END if the    *)
(* deprecated AddEnd was used; and at a node that was added again to the   *)
(* compiled workflow, which has forgotten what was mapped (initNode). A    *)
(* compilation after that refuses equal targets, and no others.            *)
TargetsDisjoint ==
  graph.cmp = "workflow" /\ graph.compiled =>
    \A n \in Targets \ (wf.again \cup {IF wf.ended THEN END ELSE START}) :
      LET to == TargetsOf(graph, n)
      IN /\ IsInjective(to)
         /\ \A i, j \in DOMAIN to :
              i < j /\ Overlap(to[i], to[j]) => Len(to[i]) # 1
         /\ wf.mapped[n].all => to = <<>>
============================================================================
