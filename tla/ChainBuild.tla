---------------------------- MODULE ChainBuild ----------------------------
(***************************************************************************)
(* The chain builder (compose/chain.go, chain_branch.go,                   *)
(* chain_parallel.go): every Append adds nodes behind the ones before it;  *)
(* the edges to END are added when the chain is compiled.                  *)
(***************************************************************************)
EXTENDS GraphBuild

CONSTANTS Keys,          \* the names of the parts 0, 1, 2 of each step
          OwnKey,        \* a node key the user chooses, with WithNodeKey
          Parts,         \* components and passthroughs that are appended
          Conditions,    \* input types of branch conditions
          MaxSteps       \* bound: how many steps are appended

VARIABLES
  chain       \* nodeIdx, preNodeKeys, err, hasEnd of the Chain, and
              \* history: stale, whether something was appended after the
              \* edges to END had been added

ChainInit == chain = [idx |-> 0, pre |-> {}, err |-> FALSE, hasEnd |-> FALSE,
                      stale |-> FALSE]

Report(c) == [c EXCEPT !.err = TRUE]

AddEdges(h, edges) ==
  LET order == SetToSeq(edges)
  IN Repeat(LAMBDA g, k : AddEdge(g, order[k][1], order[k][2]), h, Len(order))

(* The graph has refused: an error, or it is compiled. *)
Refused(h) == h.err \/ h.compiled

Advance(h, keys) ==
  /\ graph' = h
  /\ chain' = IF Refused(h) THEN [Report(chain) EXCEPT !.idx = @ + 1]
              ELSE [chain EXCEPT !.idx = @ + 1, !.pre = keys,
                                 !.stale = @ \/ chain.hasEnd]

(* addNode *)
AddChainNode(part, own) ==
  LET key == IF own THEN OwnKey ELSE Keys[chain.idx][0]
      from == IF chain.pre = {} THEN {START} ELSE chain.pre
  IN /\ ~chain.err
     /\ IF graph.compiled
        THEN chain' = Report(chain) /\ UNCHANGED graph
        ELSE Advance(AddEdges(AddNode(graph, key, part), from \X {key}), {key})

(* AppendChatModel ... AppendIndexer, AppendGraph, AppendPassthrough       *)
Append1(part) ==
  chain.idx < MaxSteps /\ \E own \in BOOLEAN : AddChainNode(part, own)

(* The ChainBranch and the Parallel a user has filled with nodes of these  *)
(* keys: a key that is used twice is an error it keeps.                    *)
ChainBranchOf(keys) == [err |-> ~IsInjective(keys), keys |-> Range(keys)]
ParallelOf(keys) == [err |-> ~IsInjective(keys), keys |-> Range(keys)]

PartKeys(p) == {Keys[chain.idx][j] : j \in p.keys}

AddNodes(h, keys, part) ==
  LET order == SetToSeq(keys)
  IN Repeat(LAMBDA g, k : AddNode(g, order[k], part), h, Len(order))

From == IF chain.pre = {} THEN START ELSE CHOOSE k \in chain.pre : TRUE
Invalid(p) == p.err \/ Cardinality(p.keys) < 2 \/ Cardinality(chain.pre) > 1

(* Neither of them looks at the error of the chain.                        *)
AppendBranch(b, part, cond) ==
  /\ chain.idx < MaxSteps
  /\ IF Invalid(b)
     THEN chain' = Report(chain) /\ UNCHANGED graph
     ELSE Advance(AddBranch(AddNodes(graph, PartKeys(b), part), From, cond, PartKeys(b), FALSE),
                  PartKeys(b))

AppendParallel(p, part) ==
  LET keyed == [part EXCEPT !.keyed = TRUE]
  IN /\ chain.idx < MaxSteps
     /\ IF Invalid(p)
        THEN chain' = Report(chain) /\ UNCHANGED graph
        ELSE Advance(AddEdges(AddNodes(graph, PartKeys(p), keyed), {From} \X PartKeys(p)),
                     PartKeys(p))

(* Mutant: END is reached from the last of several nodes only. *)
CompileChainOneEnd(opt) ==
  LET ended == AddEdges(graph, {CHOOSE k \in chain.pre : TRUE} \X {END})
  IN IF chain.hasEnd
     THEN graph' = Compile(graph, opt) /\ UNCHANGED chain
     ELSE /\ ~chain.err /\ chain.pre # {}
          /\ graph' = Compile(ended, opt)
          /\ chain' = [chain EXCEPT !.hasEnd = ~Refused(ended)]

(* addEndIfNeeded and compile. The error of the chain is not looked at     *)
(* once the edges to END are there.                                        *)
CompileChain(opt) ==
  LET ended == AddEdges(graph, chain.pre \X {END})
  IN IF chain.hasEnd
     THEN graph' = Compile(graph, opt) /\ UNCHANGED chain
     ELSE /\ ~chain.err /\ chain.pre # {}
          /\ graph' = Compile(ended, opt)
          /\ chain' = [chain EXCEPT !.hasEnd = ~Refused(ended)]

ChainNext ==
  \/ \E part \in Parts : Append1(part)
  \/ \E keys \in {<<1>>, <<1, 1>>, <<1, 2>>}, part \in Parts :
       \/ AppendParallel(ParallelOf(keys), part)
       \/ \E cond \in Conditions : AppendBranch(ChainBranchOf(keys), part, cond)
  \/ \E opt \in Options : CompileChain(opt)

----------------------------------------------------------------------------
(* In a compiled chain every node lies on a way from START to END, unless  *)
(* nodes were appended after a compilation that had added the edges to END *)
(* and failed for another reason: those nodes lead nowhere.                *)
ChainWhole ==
  graph.cmp = "chain" /\ graph.compiled /\ ~chain.stale =>
    /\ \A S \in SUBSET (DOMAIN graph.nodes \cup {START, END}) :
         START \in S /\ (\A c \in Controls(graph) : c.from \in S => c.to \in S)
           => DOMAIN graph.nodes \subseteq S
    /\ \A S \in SUBSET (DOMAIN graph.nodes \cup {START, END}) :
         END \in S /\ (\A c \in Controls(graph) : c.to \in S => c.from \in S)
           => DOMAIN graph.nodes \subseteq S
============================================================================
