------------------------------ MODULE MCBuild ------------------------------
(* A graph, a chain or a workflow of up to three nodes, built by any       *)
(* sequence of calls; an input that a compiled workflow makes of fields;   *)
(* and a stream of messages that is made one value.                        *)
EXTENDS Builders, FieldMapping, Messages

MCKeys == (0 :> (0 :> "n0" @@ 1 :> "n0x" @@ 2 :> "n0y")) @@
          (1 :> (0 :> "n1" @@ 1 :> "n1x" @@ 2 :> "n1y")) @@
          (2 :> (0 :> "n2" @@ 1 :> "n2x" @@ 2 :> "n2y"))
MCParts == {Component("a", "a"), Passthrough}
MCStarts == {NewGraph("graph", "a", "a"), NewGraph("graph", "a", "any"),
             NewGraph("chain", "a", "any"), NewGraph("workflow", "map", "map")}
MCStepParts == {Component("map", "map")}
MCGraphTypes == {<<"a", "a">>, <<"any", "b">>}
To(p) == [from |-> <<>>, to |-> p]
MCMappings == {<<>>, <<To(<<"x">>)>>, <<To(<<"x", "y">>)>>}
MCStatics == {<<"x">>}

MCPair == StructType("F" :> LeafType @@ "G" :> LeafType)
MCTypes ==
  <<MapType(AnyType),
    PtrType(StructType("P" :> PtrType(MCPair) @@ "M" :> MapType(PtrType(MCPair)) @@
                       "A" :> AnyType @@ "V" :> MCPair @@ "H" :> MapType(MCPair) @@
                       "D" :> MapType(StructType("V" :> MCPair))))>>
MCTargets ==
  <<{<<"k">>, <<"l", "x">>, <<"l", "y">>, <<"l", "z", "x">>},
    {<<"P", "F">>, <<"P", "G">>, <<"M", "k", "F">>, <<"M", "k", "G">>, <<"M", "j">>, <<"A", "x", "y">>,
     <<"A", "z">>, <<"V", "F">>, <<"H", "k", "F">>, <<"H", "k", "G">>, <<"D", "k", "V", "F">>}>>
MCFirst == {<<"P", "F">>, <<"M", "k", "F">>, <<"V", "F">>}
MCOutput == Tree("a" :> Leaf(<<"a">>) @@ "b" :> Tree("c" :> Leaf(<<"c">>)) @@ "n" :> NilValue)
MCOther == Tree("a" :> Leaf(<<"other">>))
MCFroms == {<<<<"a">>, <<"b", "c">>>>, <<<<"b", "c">>, <<"n">>>>, <<<<"a">>, <<"gone">>>>,
            <<<<"n", "c">>, <<"a">>>>}
Pairs(S) == {p \in S \X S : ~IsPrefix(p[1], p[2]) /\ ~IsPrefix(p[2], p[1])}
MCFeeds ==
  {[into |-> i, stream |-> s,
    edges |-> {[value |-> MCOther, maps |-> <<[from |-> <<"a">>, to |-> first]>>],
               [value |-> MCOutput, maps |-> [k \in 1 .. 2 |-> [from |-> froms[k], to |-> rest[k]]]]}] :
     i \in {2}, s \in BOOLEAN, first \in MCFirst, froms \in MCFroms,
     rest \in Pairs(MCTargets[2])}
  \cup
  {[into |-> 1, stream |-> FALSE,
    edges |-> {[value |-> MCOutput, maps |-> [k \in 1 .. 2 |-> [from |-> froms[k], to |-> rest[k]]]]}] :
     froms \in MCFroms, rest \in Pairs(MCTargets[1])}

ACall(index, id, args) == [index |-> index, id |-> id, name |-> id, args |-> args]
Text(x) == [EmptyMessage EXCEPT !.texts["content"] = <<x>>, !.ids["role"] = <<"assistant">>,
                                !.parts = <<[type |-> "text", body |-> <<x>>, mime |-> <<>>]>>]
Audio(x, mime) ==
  [EmptyMessage EXCEPT !.parts = <<[type |-> "audio", body |-> <<x>>, mime |-> mime]>>,
                       !.meta = [NoMeta EXCEPT !.tokens = x, !.logProbs = <<x>>]]
Extra(f) == [EmptyMessage EXCEPT !.extra = f]
Value(type, val) == [type |-> type, val |-> val]
MCMessages ==
  {Text("hello"),
   [Text("world") EXCEPT !.ids["toolName"] = <<"t">>, !.texts["reasoning"] = <<"why">>],
   [EmptyMessage EXCEPT !.ids["role"] = <<"user">>],
   Audio(1, <<>>), Audio(2, <<"wav">>),
   [EmptyMessage EXCEPT !.calls = <<ACall(<<1>>, <<"one">>, <<"p">>), ACall(<<0>>, <<"zero">>, <<"q">>)>>],
   [EmptyMessage EXCEPT !.calls = <<ACall(<<0>>, <<>>, <<"r">>), ACall(<<>>, <<"none">>, <<"s">>)>>],
   [EmptyMessage EXCEPT !.calls = <<ACall(<<1>>, <<>>, <<"t">>), ACall(<<0>>, <<"other">>, <<>>)>>],
   Extra("k" :> Value("string", <<"x">>) @@ "m" :> Value("map", "n" :> Value("number", <<1>>))),
   Extra("k" :> Value("string", <<"y">>) @@ "m" :> Value("map", "n" :> Value("number", <<2>>))),
   Extra("k" :> Value("nil", <<>>) @@ "m" :> Value("string", <<"z">>)),
   Extra("s" :> Value("struct", <<1>>)), Extra("s" :> Value("struct", <<>>))}
Chunk(c) == [is |-> "chunk", chunk |-> c]
Break(is) == [is |-> is, chunk |-> <<>>]
MCStreams ==
  LET items == {Chunk(<<<<m>>>>) : m \in MCMessages} \cup {Break("source")}
      few == {Chunk(<<<<Text("hello")>>>>), Chunk(<<<<>>>>), Break("source"), Break("error")}
      arrays == {Chunk(<<a, b>>) : a, b \in {<<>>, <<Text("hello")>>, <<Audio(1, <<>>)>>}}
                \cup {Chunk(<<<<>>>>)}
  IN [reader : {"chunks"}, todo : UNION {[1 .. k -> items] : k \in {2, 3}}]
     \cup [reader : {"chunks", "messages"}, todo : UNION {[1 .. k -> few] : k \in 0 .. 2}]
     \cup [reader : {"arrays"}, todo : UNION {[1 .. k -> arrays] : k \in {2, 3}}]

vars == <<builderVars, fm, msgs>>

Init ==
  /\ graph \in Starts \cup {NewGraph("mapping", "map", "map"), NewGraph("stream", "map", "map")}
  /\ ChainInit /\ WorkflowInit
  /\ IF graph.cmp = "mapping" THEN MappingInit ELSE NoMapping
  /\ IF graph.cmp = "stream" THEN StreamInit ELSE NoStream

Next ==
  \/ BuilderNext /\ UNCHANGED <<fm, msgs>>
  \/ graph.cmp = "mapping" /\ MappingNext /\ UNCHANGED <<builderVars, msgs>>
  \/ graph.cmp = "stream" /\ MessagesNext /\ UNCHANGED <<builderVars, fm>>

Spec == Init /\ [][Next]_vars

(* What a node of a workflow is given: no two mappings that compile assign *)
(* the same part of it (workflow.go:338-368), and each one's value arrives *)
(* at its target whatever the order they are assigned in.                  *)
InputsAssignedOnce == TargetsDisjoint /\ EachTargetAssigned
============================================================================
