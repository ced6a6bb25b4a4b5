-------------------------- MODULE GraphBuildProofs --------------------------
(***************************************************************************)
(* Of the builders of graphs, for any number of nodes, edges and branches  *)
(* and any order of calls: validateDAG refuses exactly the graphs with a   *)
(* loop, what compiles has edges whose types agree, and a compiled chain   *)
(* has no loose ends.                                                      *)
(***************************************************************************)
EXTENDS Builders, FiniteSetTheorems, SequenceTheorems, FunctionTheorems, TLAPS

(* Loops. *)

\* Induction: what holds of zero, and of k + 1 if of k, holds of every number.
\* Otherwise adding one would map a finite set into a part of itself.
LEMMA AllNumbers ==
  ASSUME NEW S \in SUBSET Nat, 0 \in S, \A k \in S : k + 1 \in S
  PROVE  S = Nat
<1>. SUFFICES ASSUME NEW n \in Nat, n \notin S
             PROVE  FALSE
  OBVIOUS
<1>. DEFINE A == S \cap (0 .. n)
            B == A \ {0}
            next == [k \in A |-> k + 1]
<1>1. IsFiniteSet(0 .. n)
  BY FS_Interval
<1>2. IsFiniteSet(A) /\ 0 \in A
  BY <1>1, FS_Subset
<1>3. IsFiniteSet(B) /\ Cardinality(B) = Cardinality(A) - 1 /\ Cardinality(A) \in Nat
  BY <1>2, FS_RemoveElement, FS_CardinalityType
<1>4. next \in [A -> B]
  OBVIOUS
<1>5. PICK x, y \in A : x # y /\ next[x] = next[y]
  <2>1. Cardinality(B) < Cardinality(A)
    BY <1>3, FS_CardinalityType
  <2>. HIDE DEF A, B, next
  <2>. QED
    BY <1>2, <1>3, <1>4, <2>1, FS_PigeonHole
<1>. QED
  BY <1>5

\* What holds before a loop and is kept by each turn holds after every turn.
LEMMA Within ==
  ASSUME NEW n \in Nat, NEW T, NEW h, h[0] \in T,
         \A k \in 1 .. n : h[k - 1] \in T => h[k] \in T
  PROVE  \A k \in 0 .. n : h[k] \in T
<1>. DEFINE M == {k \in Nat : k <= n => h[k] \in T}
<1>1. M \in SUBSET Nat /\ 0 \in M
  OBVIOUS
<1>2. ASSUME NEW k \in M
      PROVE  k + 1 \in M
  <2>1. k \in Nat /\ (k <= n => h[k] \in T)
    OBVIOUS
  <2>2. ASSUME k + 1 <= n
        PROVE  h[k + 1] \in T
    <3>1. k + 1 \in 1 .. n /\ (k + 1) - 1 = k
      BY <2>1, <2>2
    <3>. QED
      BY <2>1, <2>2, <3>1
  <2>. QED
    BY <2>1, <2>2
<1>3. M = Nat
  <2>. HIDE DEF M
  <2>. QED
    BY <1>1, <1>2, AllNumbers
<1>. QED
  BY <1>3

\* The same of a property that is written as a function of the turn.
LEMMA Counted ==
  ASSUME NEW n \in Nat, NEW P, P[0] = TRUE, \A k \in 1 .. n : P[k - 1] = TRUE => P[k] = TRUE
  PROVE  \A k \in 0 .. n : P[k] = TRUE
<1>. DEFINE T == {TRUE}
<1>1. \A k \in 0 .. n : P[k] \in T
  <2>1. P[0] \in T /\ \A k \in 1 .. n : P[k - 1] \in T => P[k] \in T
    OBVIOUS
  <2>. HIDE DEF T
  <2>. QED
    BY <2>1, Within
<1>. QED
  BY <1>1

\* The values of a loop after each turn.
Turns(f, n, T, first, turn) ==
  f \in [0 .. n -> T] /\ f[0] = first /\ \A k \in 1 .. n : f[k] = turn[<<f[k - 1], k>>]

\* A loop whose turns stay in a set has them.
LEMMA Repeated ==
  ASSUME NEW n \in Nat, NEW T, NEW first \in T, NEW turn \in [T \X (1 .. n) -> T]
  PROVE  \E f : Turns(f, n, T, first, turn)
<1>. DEFINE Has(f, m) == Turns(f, m, T, first, turn)
            M == {m \in Nat : m <= n => \E f : Has(f, m)}
<1>1. 0 \in M
  <2>. DEFINE f == [k \in 0 .. 0 |-> first]
  <2>1. Has(f, 0)
    BY DEF Turns
  <2>. HIDE DEF f, Has
  <2>. QED
    BY <2>1
<1>2. ASSUME NEW m \in M
      PROVE  m + 1 \in M
  <2>1. m \in Nat /\ m + 1 \in Nat /\ (m <= n => \E f : Has(f, m))
    OBVIOUS
  <2>2. ASSUME m + 1 <= n
        PROVE  \E f : Has(f, m + 1)
    <3>1. PICK f : Has(f, m)
      BY <2>1, <2>2
    <3>. DEFINE h == [k \in 0 .. m + 1 |-> IF k = m + 1 THEN turn[<<f[m], m + 1>>] ELSE f[k]]
    <3>2. turn[<<f[m], m + 1>>] \in T
      BY <2>1, <2>2, <3>1 DEF Turns
    <3>3. h \in [0 .. m + 1 -> T] /\ h[0] = first
      BY <2>1, <3>1, <3>2 DEF Turns
    <3>4. ASSUME NEW k \in 1 .. m + 1
          PROVE  h[k] = turn[<<h[k - 1], k>>]
      <4>1. CASE k = m + 1
        <5>1. h[k - 1] = f[m]
          BY <2>1, <4>1
        <5>2. h[k] = turn[<<f[m], k>>]
          BY <2>1, <4>1
        <5>. QED
          BY <5>1, <5>2
      <4>2. CASE k # m + 1
        <5>1. k \in 1 .. m /\ h[k] = f[k] /\ h[k - 1] = f[k - 1]
          BY <2>1, <4>2
        <5>. QED
          BY <3>1, <5>1 DEF Turns
      <4>. QED
        BY <4>1, <4>2
    <3>5. Has(h, m + 1)
      BY <3>3, <3>4 DEF Turns
    <3>. HIDE DEF h, Has
    <3>. QED
      BY <3>5
  <2>. HIDE DEF Has
  <2>. QED
    BY <2>1, <2>2
<1>3. M = Nat
  <2>1. M \in SUBSET Nat
    OBVIOUS
  <2>. HIDE DEF M
  <2>. QED
    BY <1>1, <1>2, <2>1, AllNumbers
<1>4. \E f : Has(f, n)
  <2>1. n \in M
    BY <1>3
  <2>. HIDE DEF Has
  <2>. QED
    BY <2>1
<1>. QED
  BY <1>4

-----------------------------------------------------------------------------
(* The record. *)

Node ==
  {x \in [pass : BOOLEAN, in : STRING, out : STRING, keyed : BOOLEAN, fits : BOOLEAN] :
     IF x.pass THEN x.in = x.out ELSE Nil \notin {x.in, x.out}}

Edge == [from : STRING, to : STRING, maps : Seq(Mapping)]
Branch == [from : STRING, in : STRING, ends : SUBSET STRING, noData : BOOLEAN]
Target == [node : STRING, maps : Seq(Mapping)]

Graph ==
  [cmp : STRING, in : ValueType, out : ValueType, nodes : UNION {[S -> Node] : S \in SUBSET STRING},
   control : SUBSET (STRING \X STRING), data : SUBSET (STRING \X STRING), branches : Seq(Branch),
   pending : SUBSET Edge, checked : SUBSET (STRING \X STRING), targets : Seq(Target),
   err : BOOLEAN, compiled : BOOLEAN, retyped : SUBSET STRING]

Sources(g) == DOMAIN g.nodes \cup {START}
Sinks(g) == DOMAIN g.nodes \cup {END}

\* What there is leads from a source to a sink, and there is no end of it.
Wired(g) ==
  /\ g \in Graph
  /\ IsFiniteSet(DOMAIN g.nodes) /\ IsFiniteSet(g.control) /\ IsFiniteSet(g.pending)
  /\ START \notin DOMAIN g.nodes /\ END \notin DOMAIN g.nodes
  /\ \A e \in g.control \cup g.data : e[1] \in Sources(g) /\ e[2] \in Sinks(g)
  /\ \A e \in g.pending : e.from \in Sources(g) /\ e.to \in Sinks(g)
  /\ \A i \in DOMAIN g.branches :
       /\ g.branches[i].from \in Sources(g)
       /\ ~g.branches[i].noData => g.branches[i].ends \subseteq Sinks(g)

\* A pair of nodes whose types have been compared, or will be, or no longer can be.
Settled(g, a, b) ==
  \/ \E e \in g.pending : e.from = a /\ e.to = b
  \/ a \in g.retyped \/ b \in g.retyped
  \/ Fits(g, <<a, b>>)

\* What validating edges leaves alone.
Skeleton(g, h) ==
  /\ h.cmp = g.cmp /\ h.in = g.in /\ h.out = g.out /\ h.compiled = g.compiled
  /\ DOMAIN h.nodes = DOMAIN g.nodes
  /\ h.control = g.control /\ h.data = g.data /\ h.branches = g.branches

Keeps(g, h) ==
  /\ Skeleton(g, h)
  /\ g.err => h.err
  /\ ~h.err => \A a \in Sources(g), b \in Sinks(g) : Settled(g, a, b) => Settled(h, a, b)

\* Only nodes without a type have been given one.
Finer(g, h) ==
  \A n \in DOMAIN g.nodes : /\ g.nodes[n].in # Nil => h.nodes[n] = g.nodes[n]
                            /\ h.nodes[n].keyed = g.nodes[n].keyed

\* The nodes of a graph.
LEMMA NodesOf ==
  ASSUME NEW g \in Graph
  PROVE  /\ g.nodes \in [DOMAIN g.nodes -> Node]
         /\ DOMAIN g.nodes \subseteq STRING
         /\ \A n \in DOMAIN g.nodes : g.nodes[n] \in Node
<1>1. g.nodes \in UNION {[S -> Node] : S \in SUBSET STRING}
  BY DEF Graph
<1>2. PICK S \in SUBSET STRING : g.nodes \in [S -> Node]
  BY <1>1
<1>. QED
  BY <1>2

\* A graph with these fields is one.
LEMMA GraphIs ==
  ASSUME NEW g \in Graph, NEW nodes, NEW S \in SUBSET STRING, nodes \in [S -> Node]
  PROVE  [g EXCEPT !.nodes = nodes] \in Graph
<1>1. nodes \in UNION {[Q -> Node] : Q \in SUBSET STRING}
  OBVIOUS
<1>. QED
  BY <1>1 DEF Graph

\* Which keeps what fits.
LEMMA FitsKept ==
  ASSUME NEW g, Wired(g), NEW h, Wired(h), Skeleton(g, h), Finer(g, h),
         g.checked \subseteq h.checked,
         NEW a \in Sources(g), NEW b \in Sinks(g), Fits(g, <<a, b>>)
  PROVE  Fits(h, <<a, b>>)
<1>1. InputType(g, b) # Nil => InputType(h, b) = InputType(g, b)
  BY DEF InputType, Skeleton, Finer, Sinks, Wired
<1>2. OutputType(g, a) # Nil => OutputType(h, a) = OutputType(g, a)
  <2>1. CASE a = START
    BY <2>1 DEF OutputType, InputType, Skeleton
  <2>2. CASE a # START
    <3>1. a \in DOMAIN g.nodes /\ a \notin {START, END}
      BY <2>2 DEF Sources, Wired
    <3>3. g.nodes[a] \in Node
      BY <3>1, NodesOf DEF Wired
    <3>2. g.nodes[a].in = Nil => g.nodes[a].out = Nil
      BY <3>3 DEF Node
    <3>. QED
      BY <3>1, <3>2 DEF OutputType, Finer
  <2>. QED
    BY <2>1, <2>2
<1>. QED
  BY <1>1, <1>2 DEF Fits, Must

\* Validating some edges and then others, or none.
LEMMA KeepsTrans ==
  ASSUME NEW g, NEW h, NEW k, Keeps(g, h), Keeps(h, k)
  PROVE  Keeps(g, k)
BY DEF Keeps, Skeleton, Sources, Sinks

\* No edge at all leaves everything as it is.
LEMMA KeepsItself ==
  ASSUME NEW g
  PROVE  Keeps(g, g)
BY DEF Keeps, Skeleton

\* The way of the type across an edge.
LEMMA TypedIs ==
  ASSUME NEW g, Wired(g), NEW e \in Able(g), NEW h, h = Typed(g, e)
  PROVE  /\ h \in Graph /\ h = [g EXCEPT !.nodes = h.nodes]
         /\ DOMAIN h.nodes = DOMAIN g.nodes
         /\ Finer(g, h)
         /\ OutputType(h, e.from) # Nil /\ InputType(h, e.to) # Nil
         /\ IF Nil \in {OutputType(g, e.from), InputType(g, e.to)}
            THEN OutputType(h, e.from) = InputType(h, e.to) ELSE h = g
<1>. DEFINE from == e.from
            to == e.to
            out == OutputType(g, from)
            in == InputType(g, to)
<1>1. /\ g \in Graph /\ from \in Sources(g) /\ to \in Sinks(g)
      /\ out # Nil \/ in # Nil
  BY DEF Able, Wired
<1>2. /\ g.nodes \in [DOMAIN g.nodes -> Node] /\ DOMAIN g.nodes \subseteq STRING
      /\ \A n \in DOMAIN g.nodes : g.nodes[n] \in Node
      /\ g.in \in ValueType /\ g.out \in ValueType
  BY <1>1, NodesOf DEF Graph
<1>3. START \notin DOMAIN g.nodes /\ END \notin DOMAIN g.nodes
  BY DEF Wired
<1>4. in \in STRING /\ out \in STRING
  <2>1. in \in STRING
    BY <1>1, <1>2 DEF InputType, Node, Sinks, ValueType
  <2>2. from = START => out = g.in
    BY DEF OutputType, InputType
  <2>3. from # START => /\ from \in DOMAIN g.nodes
                        /\ out = IF g.nodes[from].keyed THEN "map" ELSE g.nodes[from].out
    BY <1>1, <1>3 DEF OutputType, Sources
  <2>4. from # START => out \in STRING
    <3>1. from # START => g.nodes[from].out \in STRING
      BY <1>2, <2>3 DEF Node
    <3>. QED
      BY <2>3, <3>1, Literals
  <2>. QED
    BY <1>2, <2>1, <2>2, <2>4 DEF ValueType
<1>5. ASSUME NEW n \in DOMAIN g.nodes, NEW t \in ValueType, g.nodes[n].in = Nil,
             NEW s, s = SetType(g, n, t)
      PROVE  /\ s \in Graph /\ s = [g EXCEPT !.nodes = s.nodes]
             /\ DOMAIN s.nodes = DOMAIN g.nodes /\ Finer(g, s)
             /\ s.in = g.in /\ s.out = g.out
             /\ s.nodes[n].in = t /\ s.nodes[n].out = t /\ s.nodes[n].keyed = g.nodes[n].keyed
             /\ \A m \in DOMAIN g.nodes : m # n => s.nodes[m] = g.nodes[m]
  <2>. DEFINE node == [g.nodes[n] EXCEPT !.in = t, !.out = t]
              nodes == [g.nodes EXCEPT ![n] = node]
  <2>1. node \in Node /\ node.in = t /\ node.out = t /\ node.keyed = g.nodes[n].keyed
    BY <1>2, <1>5 DEF Node, ValueType
  <2>2. /\ nodes \in [DOMAIN g.nodes -> Node] /\ nodes[n] = node
        /\ \A m \in DOMAIN g.nodes : m # n => nodes[m] = g.nodes[m]
    BY <1>2, <2>1
  <2>3. s = [g EXCEPT !.nodes = nodes]
    BY <1>5 DEF SetType
  <2>. HIDE DEF nodes, node
  <2>4. s \in Graph
    BY <1>1, <1>2, <2>2, <2>3, GraphIs
  <2>5. s.nodes = nodes /\ s.in = g.in /\ s.out = g.out
    BY <1>1, <2>3 DEF Graph
  <2>6. Finer(g, s)
    BY <1>5, <2>1, <2>2, <2>5 DEF Finer
  <2>. QED
    BY <2>1, <2>2, <2>3, <2>4, <2>5, <2>6
<1>6. CASE in = Nil
  <2>1. to \in DOMAIN g.nodes /\ g.nodes[to].in = Nil /\ to \notin {START, END} /\ out \in ValueType
    BY <1>1, <1>2, <1>3, <1>4, <1>6 DEF InputType, Sinks, ValueType
  <2>2. h = SetType(g, to, out)
    BY <1>6 DEF Typed
  <2>3. /\ h \in Graph /\ h = [g EXCEPT !.nodes = h.nodes]
        /\ DOMAIN h.nodes = DOMAIN g.nodes /\ Finer(g, h)
        /\ h.in = g.in /\ h.out = g.out
        /\ h.nodes[to].in = out /\ h.nodes[to].out = out /\ h.nodes[to].keyed = g.nodes[to].keyed
        /\ \A m \in DOMAIN g.nodes : m # to => h.nodes[m] = g.nodes[m]
    BY <1>5, <2>1, <2>2
  <2>4. InputType(h, to) = out
    BY <2>1, <2>3 DEF InputType
  <2>5. OutputType(h, from) = out
    BY <1>1, <1>3, <2>1, <2>3 DEF OutputType, InputType, Sources
  <2>. QED
    BY <1>6, <2>1, <2>3, <2>4, <2>5 DEF ValueType
<1>7. CASE in # Nil /\ out = Nil
  <2>1. /\ from \in DOMAIN g.nodes /\ from \notin {START, END} /\ ~g.nodes[from].keyed
        /\ g.nodes[from].out = Nil /\ in \in ValueType
    <3>1. from # START
      BY <1>2, <1>7 DEF OutputType, InputType, ValueType
    <3>2. from \in DOMAIN g.nodes /\ from \notin {START, END}
      BY <1>1, <1>3, <3>1 DEF Sources
    <3>3. out = IF g.nodes[from].keyed THEN "map" ELSE g.nodes[from].out
      BY <3>2 DEF OutputType
    <3>. QED
      BY <1>4, <1>7, <3>2, <3>3 DEF ValueType, Nil
  <2>2. g.nodes[from].in = Nil
    BY <1>2, <2>1 DEF Node
  <2>3. h = SetType(g, from, in)
    BY <1>7 DEF Typed
  <2>4. /\ h \in Graph /\ h = [g EXCEPT !.nodes = h.nodes]
        /\ DOMAIN h.nodes = DOMAIN g.nodes /\ Finer(g, h)
        /\ h.in = g.in /\ h.out = g.out
        /\ h.nodes[from].in = in /\ h.nodes[from].out = in /\ h.nodes[from].keyed = g.nodes[from].keyed
        /\ \A m \in DOMAIN g.nodes : m # from => h.nodes[m] = g.nodes[m]
    BY <1>5, <2>1, <2>2, <2>3
  <2>5. OutputType(h, from) = in
    BY <2>1, <2>4 DEF OutputType
  <2>6. InputType(h, to) = in
    BY <1>1, <1>3, <1>7, <2>2, <2>4 DEF InputType, Sinks
  <2>. QED
    BY <1>7, <2>4, <2>5, <2>6
<1>8. CASE in # Nil /\ out # Nil
  <2>1. h = g
    BY <1>8 DEF Typed
  <2>2. h = [g EXCEPT !.nodes = h.nodes]
    BY <1>1, <2>1 DEF Graph
  <2>3. Finer(g, h)
    BY <2>1 DEF Finer
  <2>. QED
    BY <1>1, <1>8, <2>1, <2>2, <2>3
<1>. QED
  BY <1>6, <1>7, <1>8

\* An edge that has been taken care of leaves the others as they were.
LEMMA ValidatedKeeps ==
  ASSUME NEW g, Wired(g), NEW e \in Able(g), NEW r \in Graph, Skeleton(g, r), Finer(g, r),
         r.retyped = g.retyped, r.pending = g.pending \ {e}, g.checked \subseteq r.checked,
         g.err => r.err, ~r.err => Fits(r, <<e.from, e.to>>)
  PROVE  Wired(r) /\ Keeps(g, r)
<1>1. e \in g.pending
  BY DEF Able
<1>2. Wired(r)
  <2>1. IsFiniteSet(r.pending)
    BY FS_Subset DEF Wired
  <2>. QED
    BY <2>1 DEF Wired, Skeleton, Sources, Sinks
<1>3. ASSUME ~r.err, NEW a \in Sources(g), NEW b \in Sinks(g), Settled(g, a, b)
      PROVE  Settled(r, a, b)
  <2>1. CASE \E p \in g.pending : p.from = a /\ p.to = b
    <3>1. PICK p \in g.pending : p.from = a /\ p.to = b
      BY <2>1
    <3>2. CASE p = e
      BY <1>3, <3>1, <3>2 DEF Settled
    <3>3. CASE p # e
      BY <3>1, <3>3 DEF Settled
    <3>. QED
      BY <3>2, <3>3
  <2>2. CASE a \in g.retyped \/ b \in g.retyped
    BY <2>2 DEF Settled
  <2>3. CASE Fits(g, <<a, b>>)
    <3>1. Fits(r, <<a, b>>)
      BY <1>2, <1>3, <2>3, FitsKept
    <3>. QED
      BY <3>1 DEF Settled
  <2>. QED
    BY <1>3, <2>1, <2>2, <2>3 DEF Settled
<1>. QED
  BY <1>2, <1>3 DEF Keeps

\* Which is what validating does.
LEMMA ValidateKeeps ==
  ASSUME NEW g, Wired(g), NEW e \in Able(g)
  PROVE  Wired(Validate(g, e)) /\ Keeps(g, Validate(g, e))
<1>. DEFINE from == e.from
            to == e.to
            out == OutputType(g, from)
            in == InputType(g, to)
<1>1. /\ g \in Graph /\ e \in g.pending /\ e \in Edge /\ from \in STRING /\ to \in STRING
      /\ e.maps \in Seq(Mapping)
  BY DEF Able, Wired, Graph, Edge
<1>2. PICK t : t = Typed(g, e)
  OBVIOUS
<1>3. /\ t \in Graph /\ t = [g EXCEPT !.nodes = t.nodes] /\ DOMAIN t.nodes = DOMAIN g.nodes
      /\ Finer(g, t)
      /\ OutputType(t, from) # Nil /\ InputType(t, to) # Nil
      /\ IF Nil \in {out, in} THEN OutputType(t, from) = InputType(t, to) ELSE t = g
  BY <1>2, TypedIs
<1>4. PICK d : d = [t EXCEPT !.pending = @ \ {e}]
  OBVIOUS
<1>5. d = Done(g, e)
  BY <1>2, <1>4 DEF Done
<1>6. d \in Graph
  BY <1>3, <1>4 DEF Graph
<1>7. /\ d.nodes = t.nodes /\ d.pending = g.pending \ {e} /\ d.checked = g.checked
      /\ d.cmp = g.cmp /\ d.in = g.in /\ d.out = g.out /\ d.control = g.control /\ d.data = g.data
      /\ d.branches = g.branches /\ d.err = g.err /\ d.compiled = g.compiled
      /\ d.retyped = g.retyped /\ d.targets = g.targets
  BY <1>1, <1>3, <1>4 DEF Graph
<1>8. PICK c : c = [d EXCEPT !.checked = @ \cup {<<from, to>>}]
  OBVIOUS
<1>9. c = Check(g, e)
  BY <1>5, <1>8 DEF Check
<1>10. c \in Graph
  <2>1. d.checked \cup {<<from, to>>} \in SUBSET (STRING \X STRING)
    BY <1>1, <1>6 DEF Graph
  <2>. HIDE DEF from, to
  <2>. QED
    BY <1>6, <1>8, <2>1 DEF Graph
<1>11. /\ c.nodes = d.nodes /\ c.pending = d.pending /\ c.checked = d.checked \cup {<<from, to>>}
       /\ c.cmp = d.cmp /\ c.in = d.in /\ c.out = d.out /\ c.control = d.control /\ c.data = d.data
       /\ c.branches = d.branches /\ c.err = d.err /\ c.compiled = d.compiled
       /\ c.retyped = d.retyped /\ c.targets = d.targets
  BY <1>6, <1>8 DEF Graph
<1>12. PICK r : r = Validate(g, e)
  OBVIOUS
<1>13. \/ r = d /\ e.maps = <<>> /\ (Nil \in {out, in} \/ Must(out, in))
       \/ r = c
       \/ r = [c EXCEPT !.targets = Append(@, [node |-> to, maps |-> e.maps])]
       \/ r = [d EXCEPT !.err = TRUE]
  BY <1>5, <1>9, <1>12 DEF Validate, Fail
<1>14. /\ r \in Graph /\ r.nodes = d.nodes /\ r.pending = d.pending
       /\ r.cmp = d.cmp /\ r.in = d.in /\ r.out = d.out /\ r.control = d.control /\ r.data = d.data
       /\ r.branches = d.branches /\ r.compiled = d.compiled
       /\ r.retyped = d.retyped /\ r.checked \in {d.checked, c.checked} /\ (d.err => r.err)
       /\ \/ r.err \/ r.checked = c.checked
          \/ r = d /\ e.maps = <<>> /\ (Nil \in {out, in} \/ Must(out, in))
  <2>1. CASE r = d /\ e.maps = <<>> /\ (Nil \in {out, in} \/ Must(out, in))
    BY <1>6, <2>1
  <2>2. CASE r = c
    BY <1>10, <1>11, <2>2
  <2>3. CASE r = [c EXCEPT !.targets = Append(@, [node |-> to, maps |-> e.maps])]
    <3>1. Append(c.targets, [node |-> to, maps |-> e.maps]) \in Seq(Target)
      BY <1>1, <1>10 DEF Graph, Target
    <3>2. r \in Graph
      BY <1>10, <2>3, <3>1 DEF Graph
    <3>3. /\ r.nodes = c.nodes /\ r.pending = c.pending /\ r.checked = c.checked
          /\ r.cmp = c.cmp /\ r.in = c.in /\ r.out = c.out /\ r.control = c.control
          /\ r.data = c.data /\ r.branches = c.branches /\ r.err = c.err
          /\ r.compiled = c.compiled /\ r.retyped = c.retyped
      BY <1>10, <2>3 DEF Graph
    <3>. QED
      BY <1>11, <3>2, <3>3
  <2>4. CASE r = [d EXCEPT !.err = TRUE]
    <3>1. r \in Graph /\ r.err
      BY <1>6, <2>4 DEF Graph
    <3>2. /\ r.nodes = d.nodes /\ r.pending = d.pending /\ r.checked = d.checked
          /\ r.cmp = d.cmp /\ r.in = d.in /\ r.out = d.out /\ r.control = d.control
          /\ r.data = d.data /\ r.branches = d.branches
          /\ r.compiled = d.compiled /\ r.retyped = d.retyped
      BY <1>6, <2>4 DEF Graph
    <3>. QED
      BY <3>1, <3>2
  <2>. QED
    BY <1>13, <2>1, <2>2, <2>3, <2>4
<1>15. Skeleton(g, r) /\ Finer(g, r) /\ g.checked \subseteq r.checked
  BY <1>3, <1>7, <1>11, <1>14 DEF Skeleton, Finer
<1>16. OutputType(r, from) = OutputType(t, from) /\ InputType(r, to) = InputType(t, to)
  <2>1. t.in = g.in /\ t.out = g.out
    BY <1>1, <1>3 DEF Graph
  <2>. QED
    BY <1>7, <1>14, <2>1 DEF OutputType, InputType
<1>17. ASSUME ~r.err
       PROVE  Fits(r, <<from, to>>)
  <2>1. CASE r.checked = c.checked
    BY <1>3, <1>11, <1>16, <2>1 DEF Fits
  <2>2. CASE Nil \in {out, in} \/ Must(out, in)
    BY <1>3, <1>16, <2>2 DEF Fits, Must
  <2>. QED
    BY <1>14, <1>17, <2>1, <2>2
<1>. QED
  <2>. HIDE DEF from, to, out, in
  <2>1. Wired(r) /\ Keeps(g, r)
    BY <1>7, <1>14, <1>15, <1>17, ValidatedKeeps DEF from, to
  <2>. QED
    BY <1>12, <2>1

\* One turn of updateToValidateMap.
LEMMA ValidateNextKeeps ==
  ASSUME NEW g, Wired(g)
  PROVE  Wired(ValidateNext(g)) /\ Keeps(g, ValidateNext(g))
<1>1. CASE g.err \/ Able(g) = {}
  BY <1>1, KeepsItself DEF ValidateNext
<1>2. CASE ~(g.err \/ Able(g) = {})
  <2>1. PICK e : e = CHOOSE x \in Able(g) : TRUE
    OBVIOUS
  <2>2. e \in Able(g)
    BY <1>2, <2>1
  <2>3. ValidateNext(g) = Validate(g, e)
    BY <1>2, <2>1 DEF ValidateNext
  <2>. QED
    BY <2>2, <2>3, ValidateKeeps
<1>. QED
  BY <1>1, <1>2

\* However often it is done.
LEMMA UpdateKeeps ==
  ASSUME NEW g, Wired(g)
  PROVE  Wired(UpdateToValidateMap(g)) /\ Keeps(g, UpdateToValidateMap(g))
<1>. DEFINE n == Cardinality(g.pending)
            T == {h \in Graph : Wired(h) /\ Keeps(g, h)}
            turn == [x \in T \X (1 .. n) |-> ValidateNext(x[1])]
            after == CHOOSE f : f = [k \in 0 .. n |-> IF k = 0 THEN g ELSE ValidateNext(f[k - 1])]
<1>1. n \in Nat
  BY FS_CardinalityType DEF Wired
<1>2. g \in T
  BY KeepsItself DEF Wired
<1>3. \A h \in T : ValidateNext(h) \in T
  <2>1. ASSUME NEW h \in T
        PROVE  Wired(ValidateNext(h)) /\ Keeps(g, ValidateNext(h))
    <3>1. Wired(h) /\ Keeps(g, h)
      OBVIOUS
    <3>. HIDE DEF T
    <3>. QED
      BY <3>1, ValidateNextKeeps, KeepsTrans
  <2>. QED
    BY <2>1 DEF Wired
<1>4. turn \in [T \X (1 .. n) -> T]
  <2>. HIDE DEF T, n
  <2>. QED
    BY <1>3
<1>5. PICK f : Turns(f, n, T, g, turn)
  <2>. HIDE DEF T, turn, n
  <2>. QED
    BY <1>1, <1>2, <1>4, Repeated, Zenon
<1>6. f = [k \in 0 .. n |-> IF k = 0 THEN g ELSE ValidateNext(f[k - 1])]
  <2>1. ASSUME NEW k \in 1 .. n
        PROVE  f[k] = ValidateNext(f[k - 1])
    <3>1. k - 1 \in 0 .. n
      BY <1>1
    <3>2. f[k - 1] \in T /\ f[k] = turn[<<f[k - 1], k>>]
      BY <1>5, <3>1 DEF Turns
    <3>. HIDE DEF T, n
    <3>. QED
      BY <3>2
  <2>. HIDE DEF T, turn, n
  <2>. QED
    BY <1>1, <1>5, <2>1 DEF Turns
<1>7. after = [k \in 0 .. n |-> IF k = 0 THEN g ELSE ValidateNext(after[k - 1])]
  <2>. HIDE DEF T, turn, n
  <2>. QED
    BY <1>6
<1>8. after[0] = g /\ \A k \in 1 .. n : after[k] = ValidateNext(after[k - 1])
  <2>. HIDE DEF after, n
  <2>. QED
    BY <1>1, <1>7
<1>9. \A k \in 0 .. n : after[k] \in T
  <2>. HIDE DEF after, n, T
  <2>. QED
    BY <1>1, <1>2, <1>3, <1>8, Within
<1>10. UpdateToValidateMap(g) = after[n]
  BY DEF UpdateToValidateMap, Repeat
<1>. QED
  <2>1. after[n] \in T
    BY <1>1, <1>9
  <2>. HIDE DEF after, n
  <2>. QED
    BY <1>10, <2>1

\* addToValidateMap: a new edge is settled as well, or there is an error.
LEMMA AddToValidateKeeps ==
  ASSUME NEW g, Wired(g), NEW from \in Sources(g), NEW to \in Sinks(g), NEW maps \in Seq(Mapping),
         NEW r, r = AddToValidate(g, from, to, maps)
  PROVE  Wired(r) /\ Keeps(g, r) /\ (~r.err => Settled(r, from, to))
<1>. DEFINE e == [from |-> from, to |-> to, maps |-> maps]
<1>1. g \in Graph /\ from \in STRING /\ to \in STRING
  BY NodesOf, Literals DEF Sources, Sinks, Wired
<1>2. PICK h : h = [g EXCEPT !.pending = @ \cup {e}]
  OBVIOUS
<1>3. e \in Edge
  BY <1>1 DEF Edge
<1>4. h \in Graph
  <2>. HIDE DEF e
  <2>. QED
    BY <1>1, <1>2, <1>3 DEF Graph
<1>5. /\ h.pending = g.pending \cup {e} /\ h.nodes = g.nodes /\ h.checked = g.checked
      /\ h.cmp = g.cmp /\ h.in = g.in /\ h.out = g.out /\ h.control = g.control /\ h.data = g.data
      /\ h.branches = g.branches /\ h.err = g.err /\ h.compiled = g.compiled
      /\ h.retyped = g.retyped
  <2>. HIDE DEF e
  <2>. QED
    BY <1>1, <1>2 DEF Graph
<1>6. Wired(h)
  <2>1. IsFiniteSet(g.pending)
    BY DEF Wired
  <2>2. IsFiniteSet(h.pending)
    <3>. HIDE DEF e
    <3>1. IsFiniteSet(g.pending \cup {e})
      BY <2>1, FS_AddElement
    <3>. QED
      BY <1>5, <3>1
  <2>. QED
    BY <1>4, <1>5, <2>2 DEF Wired, Sources, Sinks
<1>7. Keeps(g, h)
  BY <1>5 DEF Keeps, Skeleton, Settled, Fits, OutputType, InputType
<1>8. Settled(h, from, to)
  <2>1. e \in h.pending /\ e.from = from /\ e.to = to
    BY <1>5
  <2>. QED
    BY <2>1 DEF Settled
<1>9. r = UpdateToValidateMap(h)
  BY <1>2 DEF AddToValidate
<1>10. Wired(r) /\ Keeps(h, r)
  BY <1>6, <1>9, UpdateKeeps
<1>11. from \in Sources(h) /\ to \in Sinks(h)
  BY <1>5 DEF Sources, Sinks
<1>. QED
  BY <1>7, <1>8, <1>10, <1>11, KeepsTrans DEF Keeps

\* The order in which a loop of n turns takes the elements of a set.
Orders(order, S, n) ==
  /\ n \in Nat /\ order \in [1 .. n -> S]
  /\ \A x \in S : \E k \in 1 .. n : order[k] = x

\* SetToSeq takes every element of a finite set.
LEMMA OrderOf ==
  ASSUME NEW S, IsFiniteSet(S), NEW order, order = SetToSeq(S)
  PROVE  Orders(order, S, Len(order))
<1>. DEFINE n == Cardinality(S)
<1>1. n \in Nat /\ ExistsBijection(1 .. n, S)
  BY FS_CardinalityType
<1>2. PICK f : f \in Bijection(1 .. n, S)
  BY <1>1 DEF ExistsBijection
<1>3. f \in [1 .. n -> S] /\ IsInjective(f)
  BY <1>2 DEF Bijection, Injection, IsInjective
<1>4. order \in [1 .. n -> S] /\ IsInjective(order)
  BY <1>3 DEF SetToSeq
<1>5. Len(order) = n
  BY <1>1, <1>4
<1>6. order \in Injection(1 .. n, S)
  BY <1>4 DEF Injection, IsInjective
<1>7. Cardinality(1 .. n) = n
  BY <1>1, FS_Interval
<1>8. order \in Surjection(1 .. n, S)
  BY <1>6, <1>7, FS_Injection
<1>. QED
  BY <1>1, <1>4, <1>5, <1>8 DEF Surjection, Orders

\* An error is all that is added.
LEMMA FailKeeps ==
  ASSUME NEW g, Wired(g), NEW r, r = Fail(g)
  PROVE  Wired(r) /\ Keeps(g, r) /\ r.err
<1>1. r = [g EXCEPT !.err = TRUE] /\ g \in Graph
  BY DEF Fail, Wired
<1>2. r \in Graph /\ r.err
  BY <1>1 DEF Graph
<1>3. /\ r.pending = g.pending /\ r.nodes = g.nodes
      /\ r.cmp = g.cmp /\ r.in = g.in /\ r.out = g.out /\ r.control = g.control /\ r.data = g.data
      /\ r.branches = g.branches /\ r.compiled = g.compiled
  BY <1>1 DEF Graph
<1>. QED
  BY <1>2, <1>3 DEF Wired, Sources, Sinks, Keeps, Skeleton

\* One end of a branch.
LEMMA AddEndKeeps ==
  ASSUME NEW g, Wired(g), NEW from \in Sources(g), NEW end \in STRING, NEW r, r = AddEnd1(g, from, end)
  PROVE  Wired(r) /\ Keeps(g, r) /\ (~r.err => end \in Sinks(g) /\ Settled(r, from, end))
<1>1. CASE g.err
  BY <1>1, KeepsItself DEF AddEnd1
<1>2. CASE ~g.err /\ end \notin Sinks(g)
  <2>1. r = Fail(g)
    BY <1>2 DEF AddEnd1, Sinks
  <2>. QED
    BY <2>1, FailKeeps
<1>3. CASE ~g.err /\ end \in Sinks(g)
  <2>1. r = AddToValidate(g, from, end, <<>>)
    BY <1>3 DEF AddEnd1, Sinks
  <2>2. <<>> \in Seq(Mapping)
    OBVIOUS
  <2>. QED
    BY <1>3, <2>1, <2>2, AddToValidateKeeps
<1>. QED
  BY <1>1, <1>2, <1>3

\* The ends of a branch one after the other.
LEMMA AddEndsKeeps ==
  ASSUME NEW g, Wired(g), NEW from \in Sources(g), NEW ends \in SUBSET STRING, IsFiniteSet(ends),
         NEW r, r = AddEnds(g, from, ends)
  PROVE  Wired(r) /\ Keeps(g, r) /\ (~r.err => \A end \in ends : end \in Sinks(g) /\ Settled(r, from, end))
<1>1. PICK order : order = SetToSeq(ends)
  OBVIOUS
<1>2. PICK n : n = Len(order)
  OBVIOUS
<1>3. /\ n \in Nat /\ order \in [1 .. n -> ends]
      /\ \A x \in ends : \E k \in 1 .. n : order[k] = x
  <2>1. Orders(order, ends, Len(order))
    BY <1>1, OrderOf
  <2>. QED
    BY <1>2, <2>1 DEF Orders
<1>. DEFINE T == {h \in Graph : Wired(h) /\ Keeps(g, h)}
            turn == [x \in T \X (1 .. n) |-> AddEnd1(x[1], from, order[x[2]])]
            after == CHOOSE f : f = [k \in 0 .. n |-> IF k = 0 THEN g ELSE AddEnd1(f[k - 1], from, order[k])]
<1>4. g \in T
  BY KeepsItself DEF Wired
<1>5. ASSUME NEW h \in T, NEW k \in 1 .. n, NEW s, s = AddEnd1(h, from, order[k])
      PROVE  /\ s \in T /\ Keeps(h, s)
             /\ ~s.err => order[k] \in Sinks(h) /\ Settled(s, from, order[k])
  <2>1. Wired(h) /\ Keeps(g, h) /\ from \in Sources(h) /\ order[k] \in STRING
    BY <1>3 DEF Keeps, Skeleton, Sources
  <2>2. /\ Wired(s) /\ Keeps(h, s)
        /\ ~s.err => order[k] \in Sinks(h) /\ Settled(s, from, order[k])
    <3>. HIDE DEF T
    <3>. QED
      BY <1>5, <2>1, AddEndKeeps
  <2>3. Keeps(g, s)
    <3>. HIDE DEF T
    <3>. QED
      BY <2>1, <2>2, KeepsTrans
  <2>. QED
    BY <2>2, <2>3 DEF Wired
<1>6. turn \in [T \X (1 .. n) -> T]
  <2>. HIDE DEF T
  <2>. QED
    BY <1>5
<1>7. PICK f : Turns(f, n, T, g, turn)
  <2>. HIDE DEF T, turn
  <2>. QED
    BY <1>3, <1>4, <1>6, Repeated, Zenon
<1>8. f = [k \in 0 .. n |-> IF k = 0 THEN g ELSE AddEnd1(f[k - 1], from, order[k])]
  <2>1. ASSUME NEW k \in 1 .. n
        PROVE  f[k] = AddEnd1(f[k - 1], from, order[k])
    <3>1. k - 1 \in 0 .. n
      BY <1>3
    <3>2. f[k - 1] \in T /\ f[k] = turn[<<f[k - 1], k>>]
      BY <1>7, <3>1 DEF Turns
    <3>. HIDE DEF T
    <3>. QED
      BY <3>2
  <2>. HIDE DEF T, turn
  <2>. QED
    BY <1>3, <1>7, <2>1 DEF Turns
<1>9. after = [k \in 0 .. n |-> IF k = 0 THEN g ELSE AddEnd1(after[k - 1], from, order[k])]
  <2>. HIDE DEF T, turn
  <2>. QED
    BY <1>8
<1>10. after[0] = g /\ \A k \in 1 .. n : after[k] = AddEnd1(after[k - 1], from, order[k])
  <2>. HIDE DEF after
  <2>. QED
    BY <1>3, <1>9
<1>11. \A k \in 0 .. n : after[k] \in T
  <2>1. \A k \in 1 .. n : after[k - 1] \in T => after[k] \in T
    <3>. HIDE DEF after, T
    <3>. QED
      BY <1>5, <1>10
  <2>. HIDE DEF after, T
  <2>. QED
    BY <1>3, <1>4, <1>10, <2>1, Within
<1>12. r = after[n]
  BY <1>1, <1>2 DEF AddEnds, Repeat
<1>. DEFINE Whole(k) == ~after[k].err => \A i \in 1 .. k : order[i] \in Sinks(g) /\ Settled(after[k], from, order[i])
            P == [k \in 0 .. n |-> Whole(k)]
<1>13. \A k \in 0 .. n : P[k] = TRUE
  <2>1. P[0] = TRUE
    <3>1. Whole(0) = TRUE
      OBVIOUS
    <3>. HIDE DEF Whole
    <3>. QED
      BY <1>3, <3>1
  <2>2. ASSUME NEW k \in 1 .. n, P[k - 1] = TRUE
        PROVE  P[k] = TRUE
    <3>1. k - 1 \in 0 .. n /\ k \in 0 .. n /\ after[k - 1] \in T
      BY <1>3, <1>11
    <3>2. /\ after[k] \in T /\ Keeps(after[k - 1], after[k])
          /\ ~after[k].err => order[k] \in Sinks(after[k - 1]) /\ Settled(after[k], from, order[k])
      <4>. HIDE DEF after, T
      <4>. QED
        BY <1>5, <1>10, <3>1
    <3>3. DOMAIN after[k - 1].nodes = DOMAIN g.nodes
      <4>. HIDE DEF after
      <4>. QED
        BY <3>1 DEF Keeps, Skeleton
    <3>4. Whole(k - 1)
      BY <2>2, <3>1
    <3>5. Whole(k)
      <4>1. ASSUME ~after[k].err, NEW i \in 1 .. k
            PROVE  order[i] \in Sinks(g) /\ Settled(after[k], from, order[i])
        <5>1. CASE i = k
          <6>. HIDE DEF after, T
          <6>. QED
            BY <3>2, <3>3, <4>1, <5>1 DEF Sinks
        <5>2. CASE i # k
          <6>1. i \in 1 .. k - 1 /\ ~after[k - 1].err
            <7>. HIDE DEF after, T
            <7>. QED
              BY <3>2, <4>1, <5>2 DEF Keeps
          <6>2. order[i] \in Sinks(g) /\ Settled(after[k - 1], from, order[i])
            BY <3>4, <6>1
          <6>3. from \in Sources(after[k - 1]) /\ order[i] \in Sinks(after[k - 1])
            <7>. HIDE DEF after, T
            <7>. QED
              BY <3>3, <6>2 DEF Sources, Sinks
          <6>. QED
            <7>. HIDE DEF after, T
            <7>. QED
              BY <3>2, <4>1, <6>2, <6>3 DEF Keeps
        <5>. QED
          BY <5>1, <5>2
      <4>. QED
        BY <4>1
    <3>. QED
      BY <3>1, <3>5
  <2>. HIDE DEF P, after, T, turn
  <2>. QED
    BY <1>3, <2>1, <2>2, Counted
<1>14. Whole(n)
  <2>1. P[n] = TRUE /\ n \in 0 .. n
    BY <1>3, <1>13
  <2>. HIDE DEF Whole
  <2>. QED
    BY <2>1
<1>15. after[n] \in T
  BY <1>3, <1>11
<1>. QED
  <2>. HIDE DEF after
  <2>. QED
    BY <1>3, <1>12, <1>14, <1>15

-----------------------------------------------------------------------------
(* What is built. *)

Carries(g, a, b) ==
  \/ <<a, b>> \in g.data
  \/ \E i \in DOMAIN g.branches :
       ~g.branches[i].noData /\ g.branches[i].from = a /\ b \in g.branches[i].ends

\* Every pair that carries data is settled, and nothing is left to validate in
\* what has been compiled.
Sound(g) ==
  /\ Wired(g)
  /\ ~g.err => \A a \in Sources(g), b \in Sinks(g) : Carries(g, a, b) => Settled(g, a, b)
  /\ g.compiled => ~g.err /\ g.pending = {}

\* Which is what the run asks of a compiled graph.
LEMMA SoundFits ==
  ASSUME NEW g, Sound(g), g.compiled, NEW e \in DataPairs(g)
  PROVE  e[1] \in g.retyped \/ e[2] \in g.retyped \/ Fits(g, e)
<1>1. PICK a, b : /\ e = <<a, b>> /\ a \in Sources(g) /\ b \in Sinks(g) /\ Carries(g, a, b)
  <2>1. CASE e \in g.data
    <3>1. e \in STRING \X STRING
      BY <2>1 DEF Sound, Wired, Graph
    <3>2. e = <<e[1], e[2]>> /\ e[1] \in Sources(g) /\ e[2] \in Sinks(g)
      BY <2>1, <3>1 DEF Sound, Wired
    <3>. QED
      BY <2>1, <3>2 DEF Carries
  <2>2. CASE e \notin g.data
    <3>1. PICK p \in BranchPairs(g) : ~g.branches[p[1]].noData /\ e = <<g.branches[p[1]].from, p[2]>>
      BY <2>2 DEF DataPairs
    <3>2. p[1] \in DOMAIN g.branches /\ p[2] \in Sinks(g) /\ p[2] \in g.branches[p[1]].ends
      BY <3>1 DEF BranchPairs, Sinks
    <3>3. g.branches[p[1]].from \in Sources(g)
      BY <3>2 DEF Sound, Wired
    <3>. QED
      BY <3>1, <3>2, <3>3 DEF Carries
  <2>. QED
    BY <2>1, <2>2
<1>2. Settled(g, a, b) /\ g.pending = {}
  BY <1>1 DEF Sound
<1>. QED
  BY <1>1, <1>2 DEF Settled

\* What keeps the skeleton and what is settled stays sound.
LEMMA SoundKept ==
  ASSUME NEW g, Sound(g), ~g.compiled, NEW h, Wired(h), Keeps(g, h)
  PROVE  Sound(h)
BY DEF Sound, Keeps, Skeleton, Sources, Sinks, Carries

\* So does a graph with an error.
LEMMA SoundFail ==
  ASSUME NEW g, Sound(g), ~g.compiled
  PROVE  Sound(Fail(g))
BY FailKeeps, SoundKept DEF Sound

\* Which does not undo an error or change what has been compiled.
Stays(g, r) ==
  Sound(r) /\ r.cmp = g.cmp /\ (g.err => r.err) /\ (g.compiled => r = g)

\* A graph with these nodes and edges more.
Grown(g, r, keys, edges) ==
  /\ DOMAIN r.nodes = DOMAIN g.nodes \cup keys /\ r.branches = g.branches
  /\ g.control \cup edges \subseteq r.control /\ ~r.compiled

\* AddNode: a new node is at no edge and no branch that carries data.
LEMMA AddNodeSound ==
  ASSUME NEW g, Sound(g), NEW key \in STRING, NEW node \in Node, NEW r, r = AddNode(g, key, node)
  PROVE  /\ Stays(g, r)
         /\ ~r.err /\ ~g.compiled => Grown(g, r, {key}, {})
<1>1. CASE Frozen(g)
  BY <1>1 DEF AddNode, Frozen, Stays
<1>2. CASE ~Frozen(g) /\ r = Fail(g)
  <2>1. Sound(r)
    BY <1>2, SoundFail DEF Frozen
  <2>2. r.err /\ Keeps(g, r)
    BY <1>2, FailKeeps DEF Sound
  <2>. QED
    BY <1>2, <2>1, <2>2 DEF Frozen, Keeps, Skeleton, Stays
<1>3. CASE ~Frozen(g) /\ r # Fail(g)
  <2>. DEFINE nodes == [n \in DOMAIN g.nodes \cup {key} |-> IF n = key THEN node ELSE g.nodes[n]]
  <2>1. key \notin {START, END} \cup DOMAIN g.nodes /\ r = [g EXCEPT !.nodes = nodes]
    BY <1>3 DEF AddNode
  <2>2. g \in Graph /\ Wired(g) /\ ~g.err /\ ~g.compiled
    BY <1>3 DEF Sound, Wired, Frozen
  <2>3. /\ nodes \in [DOMAIN g.nodes \cup {key} -> Node] /\ DOMAIN g.nodes \cup {key} \in SUBSET STRING
        /\ nodes[key] = node /\ \A n \in DOMAIN g.nodes : nodes[n] = g.nodes[n]
    <3>1. DOMAIN g.nodes \subseteq STRING /\ \A n \in DOMAIN g.nodes : g.nodes[n] \in Node
      BY <2>2, NodesOf
    <3>. QED
      BY <2>1, <3>1
  <2>. HIDE DEF nodes
  <2>4. r \in Graph
    BY <2>1, <2>2, <2>3, GraphIs
  <2>5. /\ r.pending = g.pending /\ r.nodes = nodes /\ r.checked = g.checked
        /\ r.cmp = g.cmp /\ r.in = g.in /\ r.out = g.out /\ r.control = g.control /\ r.data = g.data
        /\ r.branches = g.branches /\ r.err = g.err /\ r.compiled = g.compiled
        /\ r.retyped = g.retyped
    BY <2>1, <2>2 DEF Graph
  <2>6. DOMAIN r.nodes = DOMAIN g.nodes \cup {key}
    BY <2>3, <2>5
  <2>7. Wired(r)
    <3>1. IsFiniteSet(DOMAIN r.nodes)
      <4>1. IsFiniteSet(DOMAIN g.nodes)
        BY <2>2 DEF Wired
      <4>. QED
        BY <2>6, <4>1, FS_AddElement
    <3>. QED
      BY <2>1, <2>2, <2>4, <2>5, <2>6, <3>1 DEF Wired, Sources, Sinks
  <2>8. ASSUME NEW a \in Sources(r), NEW b \in Sinks(r), Carries(r, a, b)
        PROVE  Settled(r, a, b)
    <3>1. a \in Sources(g) /\ b \in Sinks(g) /\ Carries(g, a, b)
      BY <2>2, <2>5, <2>8 DEF Carries, Wired
    <3>2. Settled(g, a, b)
      BY <2>2, <3>1 DEF Sound
    <3>3. OutputType(r, a) = OutputType(g, a) /\ InputType(r, b) = InputType(g, b)
      BY <2>3, <2>5, <3>1 DEF OutputType, InputType, Sources, Sinks
    <3>. QED
      BY <2>5, <3>2, <3>3 DEF Settled, Fits
  <2>. QED
    BY <2>1, <2>2, <2>5, <2>6, <2>7, <2>8 DEF Sound, Stays, Grown
<1>. QED
  BY <1>1, <1>2, <1>3

\* What it adds.
ControlAdded(g, r, from, to, noControl) ==
  /\ r.err = g.err /\ r.cmp = g.cmp /\ r.compiled = g.compiled
  /\ DOMAIN r.nodes = DOMAIN g.nodes /\ r.branches = g.branches /\ r.data = g.data
  /\ noControl => r.control = g.control
  /\ ~noControl => r.control = g.control \cup {<<from, to>>}

\* An edge of control alone.
LEMMA AddControlSound ==
  ASSUME NEW g, Sound(g), ~Frozen(g), NEW from \in Sources(g), NEW to \in Sinks(g), NEW noControl \in BOOLEAN,
         NEW r, r = AddControl(g, from, to, noControl)
  PROVE  Sound(r) /\ ControlAdded(g, r, from, to, noControl)
<1>1. CASE noControl
  BY <1>1 DEF AddControl, ControlAdded
<1>2. CASE ~noControl
  <2>1. g \in Graph /\ Wired(g) /\ ~g.err /\ ~g.compiled
    BY DEF Sound, Wired, Frozen
  <2>2. g.control \cup {<<from, to>>} \in SUBSET (STRING \X STRING)
    <3>1. from \in STRING /\ to \in STRING
      BY <2>1, NodesOf, Literals DEF Sources, Sinks
    <3>2. g.control \in SUBSET (STRING \X STRING)
      BY <2>1 DEF Graph
    <3>. QED
      BY <3>1, <3>2
  <2>3. r = [g EXCEPT !.control = @ \cup {<<from, to>>}]
    BY <1>2 DEF AddControl
  <2>4. r \in Graph
    BY <2>1, <2>2, <2>3 DEF Graph
  <2>5. /\ r.pending = g.pending /\ r.nodes = g.nodes /\ r.checked = g.checked
        /\ r.cmp = g.cmp /\ r.in = g.in /\ r.out = g.out /\ r.data = g.data
        /\ r.control = g.control \cup {<<from, to>>}
        /\ r.branches = g.branches /\ r.err = g.err /\ r.compiled = g.compiled
        /\ r.retyped = g.retyped
    BY <2>1, <2>3 DEF Graph
  <2>6. Wired(r)
    <3>1. IsFiniteSet(r.control)
      BY <2>1, <2>5, FS_AddElement DEF Wired
    <3>2. \A e \in r.control : e[1] \in Sources(r) /\ e[2] \in Sinks(r)
      BY <2>1, <2>5 DEF Wired, Sources, Sinks
    <3>. QED
      BY <2>1, <2>4, <2>5, <3>1, <3>2 DEF Wired, Sources, Sinks
  <2>7. \A a \in Sources(r), b \in Sinks(r) : Carries(r, a, b) => Settled(r, a, b)
    BY <2>1, <2>5 DEF Sound, Sources, Sinks, Carries, Settled, Fits, OutputType, InputType
  <2>. QED
    BY <1>2, <2>1, <2>5, <2>6, <2>7 DEF Sound, ControlAdded
<1>. QED
  BY <1>1, <1>2

\* An edge that carries data.
LEMMA AddDataSound ==
  ASSUME NEW g, Sound(g), ~Frozen(g), NEW from \in Sources(g), NEW to \in Sinks(g),
         NEW maps \in Seq(Mapping), NEW r, r = AddData(g, from, to, maps)
  PROVE  /\ Sound(r) /\ r.cmp = g.cmp /\ r.compiled = g.compiled /\ (g.err => r.err)
         /\ DOMAIN r.nodes = DOMAIN g.nodes /\ r.branches = g.branches /\ r.control = g.control
<1>1. g \in Graph /\ Wired(g) /\ ~g.err /\ ~g.compiled
  BY DEF Sound, Wired, Frozen
<1>2. PICK h : h = AddToValidate(g, from, to, maps)
  OBVIOUS
<1>3. Wired(h) /\ Keeps(g, h) /\ (~h.err => Settled(h, from, to))
  BY <1>1, <1>2, AddToValidateKeeps
<1>4. Sound(h)
  BY <1>1, <1>3, SoundKept
<1>5. CASE <<from, to>> \in g.data
  <2>1. r = Fail(g)
    BY <1>5 DEF AddData
  <2>2. Sound(r)
    BY <1>1, <2>1, SoundFail
  <2>3. Keeps(g, r)
    BY <1>1, <2>1, FailKeeps
  <2>. QED
    BY <2>2, <2>3 DEF Keeps, Skeleton
<1>6. CASE <<from, to>> \notin g.data /\ h.err
  <2>1. r = h
    BY <1>2, <1>6 DEF AddData
  <2>. QED
    BY <1>3, <1>4, <2>1 DEF Keeps, Skeleton
<1>7. CASE <<from, to>> \notin g.data /\ ~h.err
  <2>1. r = [h EXCEPT !.data = @ \cup {<<from, to>>}] /\ h \in Graph
    BY <1>2, <1>3, <1>7 DEF AddData, Wired
  <2>2. h.data \cup {<<from, to>>} \in SUBSET (STRING \X STRING)
    <3>1. from \in STRING /\ to \in STRING
      BY <1>1, NodesOf, Literals DEF Sources, Sinks
    <3>2. h.data \in SUBSET (STRING \X STRING)
      BY <2>1 DEF Graph
    <3>. QED
      BY <3>1, <3>2
  <2>3. r \in Graph
    BY <2>1, <2>2 DEF Graph
  <2>4. /\ r.pending = h.pending /\ r.nodes = h.nodes /\ r.checked = h.checked
        /\ r.cmp = h.cmp /\ r.in = h.in /\ r.out = h.out /\ r.control = h.control
        /\ r.data = h.data \cup {<<from, to>>}
        /\ r.branches = h.branches /\ r.err = h.err /\ r.compiled = h.compiled
        /\ r.retyped = h.retyped
    BY <2>1 DEF Graph
  <2>5. from \in Sources(h) /\ to \in Sinks(h) /\ h.compiled = g.compiled
    BY <1>3 DEF Keeps, Skeleton, Sources, Sinks
  <2>6. Wired(r)
    <3>1. \A e \in r.data : e[1] \in Sources(r) /\ e[2] \in Sinks(r)
      BY <1>3, <2>4, <2>5 DEF Wired, Sources, Sinks
    <3>. QED
      BY <1>3, <2>3, <2>4, <3>1 DEF Wired, Sources, Sinks
  <2>7. ASSUME NEW a \in Sources(r), NEW b \in Sinks(r), Carries(r, a, b)
        PROVE  Settled(r, a, b)
    <3>1. Settled(h, a, b)
      <4>1. CASE <<a, b>> = <<from, to>>
        BY <1>3, <1>7, <4>1
      <4>2. CASE <<a, b>> # <<from, to>>
        BY <1>4, <1>7, <2>4, <2>7, <4>2 DEF Sound, Sources, Sinks, Carries
      <4>. QED
        BY <4>1, <4>2
    <3>. QED
      BY <2>4, <3>1 DEF Settled, Fits, OutputType, InputType
  <2>8. Sound(r)
    BY <1>1, <2>4, <2>5, <2>6, <2>7 DEF Sound
  <2>. QED
    BY <1>1, <1>3, <2>4, <2>8 DEF Keeps, Skeleton
<1>. QED
  BY <1>5, <1>6, <1>7

\* AddEdge, AddInput: with control, with data or with both.
LEMMA AddEdgeSound ==
  ASSUME NEW g, Sound(g), NEW from \in STRING, NEW to \in STRING, NEW noControl \in BOOLEAN,
         NEW noData \in BOOLEAN, NEW maps \in Seq(Mapping),
         NEW r, r = AddEdgeWithMappings(g, from, to, noControl, noData, maps)
  PROVE  /\ Stays(g, r)
         /\ ~r.err /\ ~g.compiled /\ ~noControl => Grown(g, r, {}, {<<from, to>>})
<1>1. CASE Frozen(g) \/ (noControl /\ noData)
  BY <1>1 DEF AddEdgeWithMappings, Frozen, Stays
<1>2. CASE ~Frozen(g) /\ ~(noControl /\ noData) /\ EdgeFails(g, from, to, noControl)
  <2>1. r = Fail(g) /\ ~g.compiled
    BY <1>2 DEF AddEdgeWithMappings, Frozen
  <2>2. Sound(r)
    BY <2>1, SoundFail
  <2>3. r.err /\ Keeps(g, r)
    BY <2>1, FailKeeps DEF Sound
  <2>. QED
    BY <2>1, <2>2, <2>3 DEF Keeps, Skeleton, Stays
<1>3. CASE ~Frozen(g) /\ ~(noControl /\ noData) /\ ~EdgeFails(g, from, to, noControl)
  <2>1. from \in Sources(g) /\ to \in Sinks(g) /\ ~g.compiled
    BY <1>3 DEF EdgeFails, Known, Sources, Sinks, Frozen
  <2>2. PICK c : c = AddControl(g, from, to, noControl)
    OBVIOUS
  <2>3. Sound(c) /\ ControlAdded(g, c, from, to, noControl)
    BY <1>3, <2>1, <2>2, AddControlSound
  <2>4. CASE noData
    <3>1. r = c
      BY <1>3, <2>2, <2>4 DEF AddEdgeWithMappings
    <3>. QED
      BY <2>1, <2>3, <3>1 DEF ControlAdded, Stays, Grown
  <2>5. CASE ~noData
    <3>1. r = AddData(c, from, to, maps)
      BY <1>3, <2>2, <2>5 DEF AddEdgeWithMappings
    <3>2. ~Frozen(c) /\ from \in Sources(c) /\ to \in Sinks(c)
      BY <1>3, <2>1, <2>3 DEF Frozen, Sources, Sinks, ControlAdded
    <3>3. /\ Sound(r) /\ r.cmp = c.cmp /\ r.compiled = c.compiled /\ (c.err => r.err)
          /\ DOMAIN r.nodes = DOMAIN c.nodes /\ r.branches = c.branches /\ r.control = c.control
      BY <2>3, <3>1, <3>2, AddDataSound
    <3>. QED
      BY <2>1, <2>3, <3>3 DEF ControlAdded, Stays, Grown
  <2>. QED
    BY <2>4, <2>5
<1>. QED
  BY <1>1, <1>2, <1>3

\* A passthrough that has been given another type is remembered as such.
LEMMA RetypeKeeps ==
  ASSUME NEW g, Wired(g), NEW from \in Sources(g), NEW t \in ValueType, NEW r, r = Retype(g, from, t)
  PROVE  Wired(r) /\ Keeps(g, r) /\ r.err = g.err
<1>1. CASE from = START \/ ~g.nodes[from].pass
  BY <1>1, KeepsItself DEF Retype
<1>2. CASE from # START /\ g.nodes[from].pass
  <2>1. /\ from \in DOMAIN g.nodes /\ g \in Graph /\ from \in STRING
        /\ from \notin {START, END}
    BY <1>2, NodesOf DEF Sources, Wired
  <2>2. g.nodes[from] \in Node /\ g.nodes \in [DOMAIN g.nodes -> Node] /\ DOMAIN g.nodes \in SUBSET STRING
    BY <2>1, NodesOf
  <2>. DEFINE node == [g.nodes[from] EXCEPT !.in = t, !.out = t]
              nodes == [g.nodes EXCEPT ![from] = node]
              retyped == IF g.nodes[from].in \in {Nil, t} THEN g.retyped ELSE g.retyped \cup {from}
  <2>3. node \in Node /\ node.in = t /\ node.out = t /\ node.keyed = g.nodes[from].keyed
    BY <1>2, <2>2 DEF Node, ValueType
  <2>4. g.nodes[from].in = t => node = g.nodes[from]
    BY <1>2, <2>2 DEF Node
  <2>5. /\ nodes \in [DOMAIN g.nodes -> Node] /\ nodes[from] = node
        /\ \A m \in DOMAIN g.nodes : m # from => nodes[m] = g.nodes[m]
    <3>. HIDE DEF node
    <3>. QED
      BY <2>1, <2>2, <2>3
  <2>6. retyped \in SUBSET STRING
    BY <2>1 DEF Graph
  <2>7. PICK s : s = [g EXCEPT !.nodes = nodes]
    OBVIOUS
  <2>8. s = SetType(g, from, t) /\ g.retyped = s.retyped
    BY <2>1, <2>7 DEF SetType, Graph
  <2>9. r = [s EXCEPT !.retyped = retyped]
    BY <1>2, <2>8 DEF Retype
  <2>10. s \in Graph
    <3>. HIDE DEF nodes
    <3>. QED
      BY <2>1, <2>2, <2>5, <2>7, GraphIs
  <2>. HIDE DEF nodes, node, retyped
  <2>11. r \in Graph
    BY <2>6, <2>9, <2>10 DEF Graph
  <2>12. /\ s.nodes = nodes /\ s.pending = g.pending /\ s.checked = g.checked
         /\ s.cmp = g.cmp /\ s.in = g.in /\ s.out = g.out /\ s.control = g.control /\ s.data = g.data
         /\ s.branches = g.branches /\ s.err = g.err /\ s.compiled = g.compiled
    BY <2>1, <2>7 DEF Graph
  <2>13. /\ r.nodes = s.nodes /\ r.pending = s.pending /\ r.checked = s.checked
         /\ r.cmp = s.cmp /\ r.in = s.in /\ r.out = s.out /\ r.control = s.control /\ r.data = s.data
         /\ r.branches = s.branches /\ r.err = s.err /\ r.compiled = s.compiled
         /\ r.retyped = retyped
    BY <2>9, <2>10 DEF Graph
  <2>14. Wired(r) /\ Skeleton(g, r)
    BY <2>5, <2>11, <2>12, <2>13 DEF Wired, Skeleton, Sources, Sinks
  <2>15. ASSUME NEW a \in Sources(g), NEW b \in Sinks(g), Fits(g, <<a, b>>)
         PROVE  Settled(r, a, b)
    <3>1. CASE g.nodes[from].in \in {Nil, t}
      <4>1. Finer(g, r)
        BY <2>3, <2>4, <2>5, <2>12, <2>13, <3>1 DEF Finer
      <4>2. Fits(r, <<a, b>>)
        BY <2>12, <2>13, <2>14, <2>15, <4>1, FitsKept
      <4>. QED
        BY <4>2 DEF Settled
    <3>2. CASE from \in {a, b} /\ g.nodes[from].in \notin {Nil, t}
      BY <2>13, <3>2 DEF Settled, retyped
    <3>3. CASE from \notin {a, b}
      <4>1. OutputType(r, a) = OutputType(g, a) /\ InputType(r, b) = InputType(g, b)
        BY <2>5, <2>12, <2>13, <3>3 DEF OutputType, InputType, Sources, Sinks
      <4>. QED
        BY <2>12, <2>13, <2>15, <4>1 DEF Settled, Fits
    <3>. QED
      BY <3>1, <3>2, <3>3
  <2>16. g.retyped \subseteq r.retyped
    BY <2>13 DEF retyped
  <2>17. Keeps(g, r)
    BY <2>12, <2>13, <2>14, <2>15, <2>16 DEF Keeps, Settled
  <2>. QED
    BY <2>12, <2>13, <2>14, <2>17
<1>. QED
  BY <1>1, <1>2

\* What a branch adds.
BranchAdded(g, r, from, in, ends, skipData) ==
  /\ from \in Sources(g)
  /\ ~skipData => ends \subseteq Sinks(g)
  /\ DOMAIN r.nodes = DOMAIN g.nodes /\ r.control = g.control /\ ~r.compiled
  /\ r.branches = Append(g.branches, [from |-> from, in |-> in, ends |-> ends, noData |-> skipData])

\* AddBranch: its ends are nodes, unless it carries no data.
LEMMA AddBranchSound ==
  ASSUME NEW g, Sound(g), NEW from \in STRING, NEW in \in ValueType, NEW ends \in SUBSET STRING,
         IsFiniteSet(ends), NEW skipData \in BOOLEAN,
         NEW r, r = AddBranch(g, from, in, ends, skipData)
  PROVE  /\ Stays(g, r)
         /\ ~r.err /\ ~g.compiled => BranchAdded(g, r, from, in, ends, skipData)
<1>1. PICK h : h = Retype(g, from, in)
  OBVIOUS
<1>2. PICK k : k = IF skipData THEN h ELSE AddEnds(h, from, ends)
  OBVIOUS
<1>3. r = IF Frozen(g) THEN g
          ELSE IF from = END \/ ~Known(g, from) THEN Fail(g)
          ELSE IF ~Must(OutputType(h, from), in) /\ ~May(OutputType(h, from), in) THEN Fail(h)
          ELSE IF k.err THEN k
          ELSE [k EXCEPT !.branches = Append(@,
                  [from |-> from, in |-> in, ends |-> ends, noData |-> skipData])]
  BY <1>1, <1>2 DEF AddBranch
<1>4. CASE Frozen(g)
  BY <1>3, <1>4 DEF Frozen, Stays
<1>5. CASE ~Frozen(g) /\ (from = END \/ ~Known(g, from))
  <2>1. r = Fail(g) /\ ~g.compiled
    BY <1>3, <1>5 DEF Frozen
  <2>2. Sound(r)
    BY <2>1, SoundFail
  <2>3. r.err /\ Keeps(g, r)
    BY <2>1, FailKeeps DEF Sound
  <2>. QED
    BY <2>1, <2>2, <2>3 DEF Keeps, Skeleton, Stays
<1>6. CASE ~Frozen(g) /\ from # END /\ Known(g, from)
  <2>1. from \in Sources(g) /\ g \in Graph /\ Wired(g) /\ ~g.err /\ ~g.compiled
    BY <1>6 DEF Known, Sources, Sound, Wired, Frozen
  <2>2. Wired(h) /\ Keeps(g, h) /\ from \in Sources(h) /\ Sound(h) /\ ~h.compiled
    <3>1. Wired(h) /\ Keeps(g, h)
      BY <1>1, <2>1, RetypeKeeps
    <3>2. from \in Sources(h) /\ ~h.compiled
      BY <2>1, <3>1 DEF Keeps, Skeleton, Sources
    <3>. QED
      BY <2>1, <3>1, <3>2, SoundKept
  <2>3. CASE ~Must(OutputType(h, from), in) /\ ~May(OutputType(h, from), in)
    <3>1. r = Fail(h)
      BY <1>3, <1>6, <2>3
    <3>2. Sound(r)
      BY <2>2, <3>1, SoundFail
    <3>3. r.err /\ Keeps(h, r)
      BY <2>2, <3>1, FailKeeps
    <3>. QED
      BY <2>1, <2>2, <3>2, <3>3 DEF Keeps, Skeleton, Stays
  <2>4. CASE ~(~Must(OutputType(h, from), in) /\ ~May(OutputType(h, from), in))
    <3>1. /\ Wired(k) /\ Keeps(h, k)
          /\ ~k.err /\ ~skipData => \A end \in ends : end \in Sinks(h) /\ Settled(k, from, end)
      <4>1. CASE skipData
        BY <1>2, <2>2, <4>1, KeepsItself
      <4>2. CASE ~skipData
        BY <1>2, <2>2, <4>2, AddEndsKeeps
      <4>. QED
        BY <4>1, <4>2
    <3>2. Sound(k) /\ Keeps(g, k)
      BY <2>2, <3>1, SoundKept, KeepsTrans
    <3>3. CASE k.err
      <4>1. r = k
        BY <1>3, <1>6, <2>4, <3>3
      <4>. QED
        BY <2>1, <3>2, <3>3, <4>1 DEF Keeps, Skeleton, Stays
    <3>4. CASE ~k.err
      <4>. DEFINE b == [from |-> from, in |-> in, ends |-> ends, noData |-> skipData]
      <4>1. r = [k EXCEPT !.branches = Append(@, b)]
        BY <1>3, <1>6, <2>4, <3>4
      <4>2. b \in Branch /\ b.from = from /\ b.ends = ends /\ b.noData = skipData
        BY DEF Branch, ValueType
      <4>. HIDE DEF b
      <4>3. k \in Graph /\ k.branches \in Seq(Branch)
        BY <3>1 DEF Wired, Graph
      <4>4. /\ Append(k.branches, b) \in Seq(Branch)
            /\ DOMAIN Append(k.branches, b) = DOMAIN k.branches \cup {Len(k.branches) + 1}
            /\ \A i \in DOMAIN k.branches : Append(k.branches, b)[i] = k.branches[i]
            /\ Append(k.branches, b)[Len(k.branches) + 1] = b
        BY <4>2, <4>3
      <4>5. r \in Graph
        BY <4>1, <4>3, <4>4 DEF Graph
      <4>6. /\ r.pending = k.pending /\ r.nodes = k.nodes /\ r.checked = k.checked
            /\ r.cmp = k.cmp /\ r.in = k.in /\ r.out = k.out /\ r.control = k.control
            /\ r.data = k.data
            /\ r.branches = Append(k.branches, b) /\ r.err = k.err /\ r.compiled = k.compiled
            /\ r.retyped = k.retyped
        BY <4>1, <4>3 DEF Graph
      <4>7. /\ DOMAIN h.nodes = DOMAIN g.nodes /\ DOMAIN k.nodes = DOMAIN g.nodes /\ ~k.compiled
            /\ k.cmp = g.cmp /\ k.control = g.control /\ k.branches = g.branches
        BY <2>1, <2>2, <3>2 DEF Keeps, Skeleton
      <4>8. Wired(r)
        <5>1. ASSUME NEW i \in DOMAIN r.branches
              PROVE  /\ r.branches[i].from \in Sources(r)
                     /\ ~r.branches[i].noData => r.branches[i].ends \subseteq Sinks(r)
          <6>1. CASE i \in DOMAIN k.branches
            BY <3>1, <4>4, <4>6, <6>1 DEF Wired, Sources, Sinks
          <6>2. CASE i = Len(k.branches) + 1
            <7>1. r.branches[i] = b
              BY <4>4, <4>6, <6>2
            <7>. QED
              BY <2>1, <3>1, <3>4, <4>2, <4>6, <4>7, <7>1 DEF Sources, Sinks
          <6>. QED
            BY <4>4, <4>6, <6>1, <6>2
        <5>. QED
          BY <3>1, <4>5, <4>6, <5>1 DEF Wired, Sources, Sinks
      <4>9. ASSUME NEW x \in Sources(r), NEW y \in Sinks(r), Carries(r, x, y)
            PROVE  Settled(r, x, y)
        <5>1. Settled(k, x, y)
          <6>1. CASE Carries(k, x, y)
            BY <3>2, <3>4, <4>6, <6>1 DEF Sound, Sources, Sinks
          <6>2. CASE ~Carries(k, x, y)
            <7>1. PICK i \in DOMAIN r.branches :
                    ~r.branches[i].noData /\ r.branches[i].from = x /\ y \in r.branches[i].ends
              BY <4>6, <4>9, <6>2 DEF Carries
            <7>2. i = Len(k.branches) + 1
              BY <4>4, <4>6, <6>2, <7>1 DEF Carries
            <7>3. r.branches[i] = b
              BY <4>4, <4>6, <7>2
            <7>. QED
              BY <3>1, <3>4, <4>2, <7>1, <7>3
          <6>. QED
            BY <6>1, <6>2
        <5>. QED
          BY <4>6, <5>1 DEF Settled, Fits, OutputType, InputType
      <4>10. Sound(r)
        BY <4>6, <4>7, <4>8, <4>9 DEF Sound
      <4>11. BranchAdded(g, r, from, in, ends, skipData)
        <5>1. ~skipData => ends \subseteq Sinks(g)
          BY <3>1, <3>4, <4>7 DEF Sinks
        <5>. QED
          BY <2>1, <4>6, <4>7, <5>1 DEF BranchAdded, b
      <4>. QED
        BY <2>1, <4>6, <4>7, <4>10, <4>11 DEF Stays
    <3>. QED
      BY <3>3, <3>4
  <2>. QED
    BY <2>3, <2>4
<1>. QED
  BY <1>4, <1>5, <1>6

\* compile: nothing but what has been validated.
LEMMA CompileSound ==
  ASSUME NEW g, Sound(g), NEW opt \in Options, NEW r, r = Compile(g, opt)
  PROVE  /\ Sound(r) /\ r.cmp = g.cmp /\ r.err = g.err
         /\ DOMAIN r.nodes = DOMAIN g.nodes /\ r.control = g.control /\ r.branches = g.branches
<1>1. CASE ~Compilable(g, opt)
  BY <1>1 DEF Compile
<1>2. CASE Compilable(g, opt)
  <2>1. r = [g EXCEPT !.compiled = TRUE] /\ g \in Graph /\ ~g.err /\ g.pending = {}
    BY <1>2 DEF Compile, Compilable, Sound, Wired
  <2>2. r \in Graph
    BY <2>1 DEF Graph
  <2>3. /\ r.pending = g.pending /\ r.nodes = g.nodes /\ r.checked = g.checked
        /\ r.cmp = g.cmp /\ r.in = g.in /\ r.out = g.out /\ r.control = g.control /\ r.data = g.data
        /\ r.branches = g.branches /\ r.err = g.err
        /\ r.retyped = g.retyped
    BY <2>1 DEF Graph
  <2>4. Wired(r)
    BY <2>2, <2>3 DEF Sound, Wired, Sources, Sinks
  <2>5. \A a \in Sources(r), b \in Sinks(r) : Carries(r, a, b) => Settled(r, a, b)
    BY <2>1, <2>3 DEF Sound, Sources, Sinks, Carries, Settled, Fits, OutputType, InputType
  <2>. QED
    BY <2>1, <2>3, <2>4, <2>5 DEF Sound
<1>. QED
  BY <1>1, <1>2

\* A graph that nothing has been added to.
LEMMA NewGraphSound ==
  ASSUME NEW cmp \in STRING, NEW in \in ValueType, NEW out \in ValueType,
         NEW g, g = NewGraph(cmp, in, out)
  PROVE  /\ Sound(g) /\ g.cmp = cmp /\ ~g.compiled /\ ~g.err
         /\ DOMAIN g.nodes = {} /\ g.control = {} /\ g.branches = <<>>
<1>. DEFINE none == <<>>
<1>1. none \in UNION {[S -> Node] : S \in SUBSET STRING} /\ DOMAIN none = {}
  <2>1. none \in Seq(Node) /\ Len(none) = 0
    OBVIOUS
  <2>2. none \in [1 .. 0 -> Node] /\ 1 .. 0 = {}
    <3>. HIDE DEF none
    <3>. QED
      BY <2>1
  <2>3. none \in [{} -> Node]
    <3>. HIDE DEF none
    <3>. QED
      BY <2>2
  <2>4. {} \in SUBSET STRING
    OBVIOUS
  <2>. HIDE DEF none
  <2>. QED
    BY <2>3, <2>4
<1>2. none \in Seq(Branch) /\ none \in Seq(Target) /\ {} \in SUBSET (STRING \X STRING)
  OBVIOUS
<1>3. g = [cmp |-> cmp, in |-> in, out |-> out, nodes |-> none,
           control |-> {}, data |-> {}, branches |-> none, pending |-> {},
           checked |-> {}, targets |-> none, err |-> FALSE, compiled |-> FALSE,
           retyped |-> {}]
  BY DEF NewGraph
<1>. HIDE DEF none
<1>4. g \in Graph
  BY <1>1, <1>2, <1>3 DEF Graph
<1>5. /\ g.cmp = cmp /\ g.nodes = none /\ g.control = {} /\ g.data = {} /\ g.branches = none
      /\ g.pending = {} /\ ~g.err /\ ~g.compiled
  BY <1>3
<1>6. DOMAIN g.nodes = {} /\ DOMAIN g.branches = {}
  BY <1>1, <1>5
<1>7. IsFiniteSet({})
  BY FS_EmptySet
<1>8. Wired(g)
  BY <1>4, <1>5, <1>6, <1>7 DEF Wired
<1>9. \A a \in Sources(g), b \in Sinks(g) : ~Carries(g, a, b)
  BY <1>5, <1>6 DEF Carries
<1>. QED
  BY <1>5, <1>6, <1>8, <1>9 DEF Sound, none

-----------------------------------------------------------------------------
(* Chains. *)

\* The nodes of a branch or of a parallel one after the other.
LEMMA AddNodesSound ==
  ASSUME NEW g, Sound(g), NEW keys \in SUBSET STRING, IsFiniteSet(keys), NEW part \in Node,
         NEW r, r = AddNodes(g, keys, part)
  PROVE  /\ Stays(g, r)
         /\ ~r.err /\ ~g.compiled => Grown(g, r, keys, {})
<1>1. PICK order : order = SetToSeq(keys)
  OBVIOUS
<1>2. PICK n : n = Len(order)
  OBVIOUS
<1>3. /\ n \in Nat /\ order \in [1 .. n -> keys]
      /\ \A x \in keys : \E k \in 1 .. n : order[k] = x
  <2>1. Orders(order, keys, Len(order))
    BY <1>1, OrderOf
  <2>. QED
    BY <1>2, <2>1 DEF Orders
<1>. DEFINE T == {h \in Graph : Stays(g, h)}
            turn == [x \in T \X (1 .. n) |-> AddNode(x[1], order[x[2]], part)]
            after == CHOOSE f : f = [k \in 0 .. n |-> IF k = 0 THEN g ELSE AddNode(f[k - 1], order[k], part)]
<1>4. g \in T
  BY DEF Sound, Wired, Stays
<1>5. ASSUME NEW h \in T, NEW k \in 1 .. n, NEW s, s = AddNode(h, order[k], part)
      PROVE  /\ s \in T /\ (h.err => s.err)
             /\ ~s.err /\ ~h.compiled => Grown(h, s, {order[k]}, {})
  <2>1. Sound(h) /\ order[k] \in STRING
    BY <1>3 DEF Stays
  <2>2. /\ Stays(h, s)
        /\ ~s.err /\ ~h.compiled => Grown(h, s, {order[k]}, {})
    <3>. HIDE DEF T
    <3>. QED
      BY <1>5, <2>1, AddNodeSound
  <2>. QED
    BY <2>2 DEF Sound, Wired, Grown, Stays
<1>6. turn \in [T \X (1 .. n) -> T]
  <2>. HIDE DEF T
  <2>. QED
    BY <1>5
<1>7. PICK f : Turns(f, n, T, g, turn)
  <2>. HIDE DEF T, turn
  <2>. QED
    BY <1>3, <1>4, <1>6, Repeated, Zenon
<1>8. f = [k \in 0 .. n |-> IF k = 0 THEN g ELSE AddNode(f[k - 1], order[k], part)]
  <2>1. ASSUME NEW k \in 1 .. n
        PROVE  f[k] = AddNode(f[k - 1], order[k], part)
    <3>1. k - 1 \in 0 .. n
      BY <1>3
    <3>2. f[k - 1] \in T /\ f[k] = turn[<<f[k - 1], k>>]
      BY <1>7, <3>1 DEF Turns
    <3>. HIDE DEF T
    <3>. QED
      BY <3>2
  <2>. HIDE DEF T, turn
  <2>. QED
    BY <1>3, <1>7, <2>1 DEF Turns
<1>9. after = [k \in 0 .. n |-> IF k = 0 THEN g ELSE AddNode(after[k - 1], order[k], part)]
  <2>. HIDE DEF T, turn
  <2>. QED
    BY <1>8
<1>10. after[0] = g /\ \A k \in 1 .. n : after[k] = AddNode(after[k - 1], order[k], part)
  <2>. HIDE DEF after
  <2>. QED
    BY <1>3, <1>9
<1>11. \A k \in 0 .. n : after[k] \in T
  <2>1. \A k \in 1 .. n : after[k - 1] \in T => after[k] \in T
    <3>. HIDE DEF after, T
    <3>. QED
      BY <1>5, <1>10
  <2>. HIDE DEF after, T
  <2>. QED
    BY <1>3, <1>4, <1>10, <2>1, Within
<1>12. r = after[n]
  BY <1>1, <1>2 DEF AddNodes, Repeat
<1>. DEFINE Keyed(k) == ~after[k].err /\ ~g.compiled => Grown(g, after[k], {order[i] : i \in 1 .. k}, {})
            P == [k \in 0 .. n |-> Keyed(k)]
<1>13. \A k \in 0 .. n : P[k] = TRUE
  <2>1. P[0] = TRUE
    <3>1. Keyed(0) = TRUE
      <4>1. {order[i] : i \in 1 .. 0} = {}
        OBVIOUS
      <4>. HIDE DEF after
      <4>. QED
        BY <1>10, <4>1 DEF Grown
    <3>. HIDE DEF Keyed
    <3>. QED
      BY <1>3, <3>1
  <2>2. ASSUME NEW k \in 1 .. n, P[k - 1] = TRUE
        PROVE  P[k] = TRUE
    <3>1. k - 1 \in 0 .. n /\ k \in 0 .. n /\ after[k - 1] \in T
      BY <1>3, <1>11
    <3>2. /\ after[k - 1].err => after[k].err
          /\ ~after[k].err /\ ~after[k - 1].compiled => Grown(after[k - 1], after[k], {order[k]}, {})
      <4>. HIDE DEF after, T
      <4>. QED
        BY <1>5, <1>10, <3>1
    <3>3. Keyed(k - 1)
      BY <2>2, <3>1
    <3>4. Keyed(k)
      <4>1. {order[i] : i \in 1 .. k} = {order[i] : i \in 1 .. k - 1} \cup {order[k]}
        <5>1. 1 .. k = (1 .. k - 1) \cup {k}
          OBVIOUS
        <5>. QED
          BY <5>1
      <4>2. ~g.compiled /\ ~after[k - 1].err => ~after[k - 1].compiled
        BY <3>3 DEF Grown
      <4>. HIDE DEF after, T
      <4>. QED
        BY <3>2, <3>3, <4>1, <4>2 DEF Grown
    <3>. HIDE DEF Keyed
    <3>. QED
      BY <3>1, <3>4
  <2>. HIDE DEF P, after, T, turn
  <2>. QED
    BY <1>3, <2>1, <2>2, Counted
<1>14. Keyed(n)
  <2>. HIDE DEF Keyed
  <2>1. n \in 0 .. n
    BY <1>3
  <2>2. P[n] = TRUE
    <3>. HIDE DEF P, after, T, turn
    <3>. QED
      BY <1>13, <2>1
  <2>. QED
    BY <2>1, <2>2
<1>15. {order[i] : i \in 1 .. n} = keys
  BY <1>3
<1>16. after[n] \in T
  BY <1>3, <1>11
<1>. QED
  <2>. HIDE DEF after
  <2>. QED
    BY <1>12, <1>14, <1>15, <1>16

\* Edges one after the other.
LEMMA AddEdgesSound ==
  ASSUME NEW g, Sound(g), NEW edges \in SUBSET (STRING \X STRING), IsFiniteSet(edges),
         NEW r, r = AddEdges(g, edges)
  PROVE  /\ Stays(g, r)
         /\ ~r.err /\ ~g.compiled => Grown(g, r, {}, edges)
<1>1. PICK order : order = SetToSeq(edges)
  OBVIOUS
<1>2. PICK n : n = Len(order)
  OBVIOUS
<1>3. /\ n \in Nat /\ order \in [1 .. n -> edges]
      /\ \A x \in edges : \E k \in 1 .. n : order[k] = x
  <2>1. Orders(order, edges, Len(order))
    BY <1>1, OrderOf
  <2>. QED
    BY <1>2, <2>1 DEF Orders
<1>. DEFINE T == {h \in Graph : Stays(g, h)}
            turn == [x \in T \X (1 .. n) |-> AddEdge(x[1], order[x[2]][1], order[x[2]][2])]
            after == CHOOSE f : f = [k \in 0 .. n |-> IF k = 0 THEN g ELSE AddEdge(f[k - 1], order[k][1], order[k][2])]
<1>4. g \in T
  BY DEF Sound, Wired, Stays
<1>5. ASSUME NEW h \in T, NEW k \in 1 .. n, NEW s, s = AddEdge(h, order[k][1], order[k][2])
      PROVE  /\ s \in T /\ (h.err => s.err)
             /\ ~s.err /\ ~h.compiled => Grown(h, s, {}, {order[k]})
  <2>1. /\ Sound(h) /\ order[k][1] \in STRING /\ order[k][2] \in STRING
        /\ order[k] = <<order[k][1], order[k][2]>>
    BY <1>3 DEF Stays
  <2>2. s = AddEdgeWithMappings(h, order[k][1], order[k][2], FALSE, FALSE, <<>>) /\ <<>> \in Seq(Mapping)
    BY <1>5 DEF AddEdge
  <2>3. /\ Stays(h, s)
        /\ ~s.err /\ ~h.compiled /\ ~FALSE => Grown(h, s, {}, {<<order[k][1], order[k][2]>>})
    <3>. HIDE DEF T
    <3>. QED
      BY <2>1, <2>2, AddEdgeSound
  <2>. QED
    BY <2>1, <2>3 DEF Sound, Wired, Grown, Stays
<1>6. turn \in [T \X (1 .. n) -> T]
  <2>. HIDE DEF T
  <2>. QED
    BY <1>5
<1>7. PICK f : Turns(f, n, T, g, turn)
  <2>. HIDE DEF T, turn
  <2>. QED
    BY <1>3, <1>4, <1>6, Repeated, Zenon
<1>8. f = [k \in 0 .. n |-> IF k = 0 THEN g ELSE AddEdge(f[k - 1], order[k][1], order[k][2])]
  <2>1. ASSUME NEW k \in 1 .. n
        PROVE  f[k] = AddEdge(f[k - 1], order[k][1], order[k][2])
    <3>1. k - 1 \in 0 .. n
      BY <1>3
    <3>2. f[k - 1] \in T /\ f[k] = turn[<<f[k - 1], k>>]
      BY <1>7, <3>1 DEF Turns
    <3>. HIDE DEF T
    <3>. QED
      BY <3>2
  <2>. HIDE DEF T, turn
  <2>. QED
    BY <1>3, <1>7, <2>1 DEF Turns
<1>9. after = [k \in 0 .. n |-> IF k = 0 THEN g ELSE AddEdge(after[k - 1], order[k][1], order[k][2])]
  <2>. HIDE DEF T, turn
  <2>. QED
    BY <1>8
<1>10. after[0] = g /\ \A k \in 1 .. n : after[k] = AddEdge(after[k - 1], order[k][1], order[k][2])
  <2>. HIDE DEF after
  <2>. QED
    BY <1>3, <1>9
<1>11. \A k \in 0 .. n : after[k] \in T
  <2>1. \A k \in 1 .. n : after[k - 1] \in T => after[k] \in T
    <3>. HIDE DEF after, T
    <3>. QED
      BY <1>5, <1>10
  <2>. HIDE DEF after, T
  <2>. QED
    BY <1>3, <1>4, <1>10, <2>1, Within
<1>12. r = after[n]
  BY <1>1, <1>2 DEF AddEdges, Repeat
<1>. DEFINE Drawn(k) == ~after[k].err /\ ~g.compiled => Grown(g, after[k], {}, {order[i] : i \in 1 .. k})
            P == [k \in 0 .. n |-> Drawn(k)]
<1>13. \A k \in 0 .. n : P[k] = TRUE
  <2>1. P[0] = TRUE
    <3>1. Drawn(0) = TRUE
      <4>1. {order[i] : i \in 1 .. 0} = {}
        OBVIOUS
      <4>. HIDE DEF after
      <4>. QED
        BY <1>10, <4>1 DEF Grown
    <3>. HIDE DEF Drawn
    <3>. QED
      BY <1>3, <3>1
  <2>2. ASSUME NEW k \in 1 .. n, P[k - 1] = TRUE
        PROVE  P[k] = TRUE
    <3>1. k - 1 \in 0 .. n /\ k \in 0 .. n /\ after[k - 1] \in T
      BY <1>3, <1>11
    <3>2. /\ after[k - 1].err => after[k].err
          /\ ~after[k].err /\ ~after[k - 1].compiled => Grown(after[k - 1], after[k], {}, {order[k]})
      <4>. HIDE DEF after, T
      <4>. QED
        BY <1>5, <1>10, <3>1
    <3>3. Drawn(k - 1)
      BY <2>2, <3>1
    <3>4. Drawn(k)
      <4>1. {order[i] : i \in 1 .. k} = {order[i] : i \in 1 .. k - 1} \cup {order[k]}
        <5>1. 1 .. k = (1 .. k - 1) \cup {k}
          OBVIOUS
        <5>. QED
          BY <5>1
      <4>2. ~g.compiled /\ ~after[k - 1].err => ~after[k - 1].compiled
        BY <3>3 DEF Grown
      <4>. HIDE DEF after, T
      <4>. QED
        BY <3>2, <3>3, <4>1, <4>2 DEF Grown
    <3>. HIDE DEF Drawn
    <3>. QED
      BY <3>1, <3>4
  <2>. HIDE DEF P, after, T, turn
  <2>. QED
    BY <1>3, <2>1, <2>2, Counted
<1>14. Drawn(n)
  <2>. HIDE DEF Drawn
  <2>1. n \in 0 .. n
    BY <1>3
  <2>2. P[n] = TRUE
    <3>. HIDE DEF P, after, T, turn
    <3>. QED
      BY <1>13, <2>1
  <2>. QED
    BY <2>1, <2>2
<1>15. {order[i] : i \in 1 .. n} = edges
  BY <1>3
<1>16. after[n] \in T
  BY <1>3, <1>11
<1>. QED
  <2>. HIDE DEF after
  <2>. QED
    BY <1>12, <1>14, <1>15, <1>16

\* One call after another.
LEMMA StaysTrans ==
  ASSUME NEW g, NEW h, NEW k, Stays(g, h), Stays(h, k)
  PROVE  Stays(g, k)
BY DEF Stays

\* Control goes from one node to another.
Leads(g, a, b) ==
  \/ <<a, b>> \in g.control
  \/ \E i \in DOMAIN g.branches :
       g.branches[i].from = a /\ b \in g.branches[i].ends /\ b \in Sinks(g)

Onward(g, S) == \A a \in Sources(g), b \in Sinks(g) : Leads(g, a, b) /\ a \in S => b \in S
Back(g, S) == \A a \in Sources(g), b \in Sinks(g) : Leads(g, a, b) /\ b \in S => a \in S

\* Every node is on a way from START to one of the last.
Linked(g, last) ==
  /\ \A S \in SUBSET STRING : START \in S /\ Onward(g, S) => DOMAIN g.nodes \subseteq S
  /\ \A S \in SUBSET STRING : last \subseteq S /\ Back(g, S) => DOMAIN g.nodes \subseteq S

\* The ways control is passed on are those of the model.
LEMMA ControlIs ==
  ASSUME NEW g \in Graph
  PROVE  /\ \A c \in Controls(g) : Leads(g, c.from, c.to)
         /\ \A a, b : Leads(g, a, b) => \E c \in Controls(g) : c.from = a /\ c.to = b
<1>1. ASSUME NEW c \in Controls(g)
      PROVE  Leads(g, c.from, c.to)
  <2>1. CASE \E e \in g.control : c = [from |-> e[1], to |-> e[2], branch |-> 0]
    <3>1. PICK e \in g.control : c = [from |-> e[1], to |-> e[2], branch |-> 0]
      BY <2>1
    <3>2. <<e[1], e[2]>> = e
      BY DEF Graph
    <3>. QED
      BY <3>1, <3>2 DEF Leads
  <2>2. CASE \E p \in BranchPairs(g) : c = [from |-> g.branches[p[1]].from, to |-> p[2], branch |-> p[1]]
    BY <2>2 DEF Leads, BranchPairs, Sinks
  <2>. QED
    BY <2>1, <2>2 DEF Controls
<1>2. ASSUME NEW a, NEW b, Leads(g, a, b)
      PROVE  \E c \in Controls(g) : c.from = a /\ c.to = b
  <2>1. CASE <<a, b>> \in g.control
    <3>. DEFINE c == [from |-> <<a, b>>[1], to |-> <<a, b>>[2], branch |-> 0]
    <3>1. c \in Controls(g) /\ c.from = a /\ c.to = b
      BY <2>1 DEF Controls
    <3>. QED
      BY <3>1
  <2>2. CASE <<a, b>> \notin g.control
    <3>1. PICK i \in DOMAIN g.branches :
            g.branches[i].from = a /\ b \in g.branches[i].ends /\ b \in Sinks(g)
      BY <1>2, <2>2 DEF Leads
    <3>2. <<i, b>> \in BranchPairs(g)
      BY <3>1 DEF BranchPairs, Sinks
    <3>. DEFINE c == [from |-> g.branches[<<i, b>>[1]].from, to |-> <<i, b>>[2], branch |-> <<i, b>>[1]]
    <3>3. c \in Controls(g) /\ c.from = a /\ c.to = b
      BY <3>1, <3>2 DEF Controls
    <3>. QED
      BY <3>3
  <2>. QED
    BY <2>1, <2>2
<1>. QED
  BY <1>1, <1>2

\* Some nodes more, behind the last ones.
Behind(g, h, last, next, keys) ==
  /\ DOMAIN h.nodes = DOMAIN g.nodes \cup keys
  /\ \A a \in Sources(g), b \in Sinks(g) : Leads(g, a, b) => Leads(h, a, b)
  /\ \A k \in keys : \E a \in Sources(g) : Leads(h, a, k)
  /\ last \subseteq DOMAIN g.nodes /\ next \subseteq Sinks(h) /\ keys \subseteq next
  /\ \A p \in last : \E k \in next : Leads(h, p, k)

\* What is put behind the last nodes of a chain is on a way too.
LEMMA LinkedGrows ==
  ASSUME NEW g, NEW h, Wired(g), Wired(h), NEW last, NEW next, NEW keys, Linked(g, last),
         Behind(g, h, last, next, keys)
  PROVE  Linked(h, next)
<1>. USE DEF Behind
<1>1. Sources(g) \subseteq Sources(h) /\ Sinks(g) \subseteq Sinks(h)
  BY DEF Sources, Sinks
<1>2. ASSUME NEW S \in SUBSET STRING, START \in S, Onward(h, S)
      PROVE  DOMAIN h.nodes \subseteq S
  <2>1. Onward(g, S)
    BY <1>1, <1>2 DEF Onward
  <2>2. DOMAIN g.nodes \subseteq S
    BY <1>2, <2>1 DEF Linked
  <2>3. ASSUME NEW k \in keys
        PROVE  k \in S
    <3>1. PICK a \in Sources(g) : Leads(h, a, k)
      OBVIOUS
    <3>2. k \in Sinks(h) /\ a \in S
      BY <1>2, <2>2 DEF Sinks, Sources
    <3>. QED
      BY <1>1, <1>2, <3>1, <3>2 DEF Onward
  <2>. QED
    BY <2>2, <2>3
<1>3. ASSUME NEW S \in SUBSET STRING, next \subseteq S, Back(h, S)
      PROVE  DOMAIN h.nodes \subseteq S
  <2>1. Back(g, S)
    BY <1>1, <1>3 DEF Back
  <2>2. ASSUME NEW p \in last
        PROVE  p \in S
    <3>1. PICK k \in next : Leads(h, p, k)
      OBVIOUS
    <3>2. p \in Sources(h) /\ k \in Sinks(h) /\ k \in S
      BY <1>3 DEF Sources
    <3>. QED
      BY <1>3, <3>1, <3>2 DEF Back
  <2>3. DOMAIN g.nodes \subseteq S
    BY <2>1, <2>2 DEF Linked
  <2>. QED
    BY <1>3, <2>3
<1>. QED
  BY <1>2, <1>3 DEF Linked

\* A chain and its graph: nothing is compiled before its ends lead to END, and
\* until something is appended after that, every node is on a way.
Chained ==
  /\ chain \in [idx : Nat, pre : SUBSET STRING, err : BOOLEAN, hasEnd : BOOLEAN, stale : BOOLEAN]
  /\ IsFiniteSet(chain.pre)
  /\ graph.compiled => chain.hasEnd
  /\ ~graph.err /\ ~chain.stale =>
       /\ chain.pre \subseteq DOMAIN graph.nodes
       /\ Linked(graph, IF chain.hasEnd THEN {END} ELSE chain.pre)

\* What appending to the chain has to do to the graph.
Extends(h, keys) ==
  ~h.err /\ ~graph.compiled =>
     /\ ~h.compiled
     /\ ~graph.err /\ ~chain.stale /\ ~chain.hasEnd => keys \subseteq DOMAIN h.nodes /\ Linked(h, keys)

\* A chain after something has been appended.
LEMMA AdvanceChained ==
  ASSUME Sound(graph), Chained, NEW h, Stays(graph, h), NEW keys \in SUBSET STRING, IsFiniteSet(keys),
         Extends(h, keys), Advance(h, keys)
  PROVE  Chained'
<1>. DEFINE R == [idx : Nat, pre : SUBSET STRING, err : BOOLEAN, hasEnd : BOOLEAN, stale : BOOLEAN]
<1>1. graph' = h /\ chain \in R
  BY DEF Advance, Chained
<1>2. CASE Refused(h)
  <2>1. chain' = [[chain EXCEPT !.err = TRUE] EXCEPT !.idx = @ + 1]
    BY <1>2 DEF Advance, Report
  <2>2. /\ chain' \in R /\ chain'.pre = chain.pre /\ chain'.hasEnd = chain.hasEnd
        /\ chain'.stale = chain.stale
    <3>1. PICK c : c = [chain EXCEPT !.err = TRUE]
      OBVIOUS
    <3>2. c \in R /\ c.pre = chain.pre /\ c.hasEnd = chain.hasEnd /\ c.stale = chain.stale
      BY <1>1, <3>1
    <3>3. chain' = [c EXCEPT !.idx = @ + 1]
      BY <2>1, <3>1
    <3>4. chain' \in R
      BY <3>2, <3>3
    <3>. QED
      BY <3>2, <3>3, <3>4
  <2>3. CASE h.err
    <3>1. ~h.compiled
      BY <2>3 DEF Stays, Sound
    <3>. QED
      BY <1>1, <2>2, <2>3, <3>1 DEF Chained
  <2>4. CASE ~h.err
    <3>1. h.compiled /\ graph.compiled
      BY <1>2, <2>4 DEF Refused, Extends
    <3>2. h = graph
      BY <3>1 DEF Stays
    <3>3. graph' = graph /\ ~graph.err
      BY <1>1, <2>4, <3>2
    <3>. QED
      BY <2>2, <3>1, <3>3 DEF Chained
  <2>. QED
    BY <2>3, <2>4
<1>3. CASE ~Refused(h)
  <2>1. chain' = [chain EXCEPT !.idx = @ + 1, !.pre = keys, !.stale = @ \/ chain.hasEnd]
    BY <1>3 DEF Advance
  <2>2. chain.stale \in BOOLEAN /\ chain.hasEnd \in BOOLEAN /\ (chain.stale \/ chain.hasEnd) \in BOOLEAN
    BY <1>1
  <2>3. /\ chain' \in R /\ chain'.pre = keys /\ chain'.hasEnd = chain.hasEnd
        /\ chain'.stale = (chain.stale \/ chain.hasEnd)
    <3>1. PICK late : late = (chain.stale \/ chain.hasEnd)
      OBVIOUS
    <3>2. late \in BOOLEAN
      BY <2>2, <3>1
    <3>3. chain' = [chain EXCEPT !.idx = @ + 1, !.pre = keys, !.stale = late]
      BY <1>1, <2>1, <3>1
    <3>6. chain' = [idx |-> chain.idx + 1, pre |-> keys, err |-> chain.err,
                    hasEnd |-> chain.hasEnd, stale |-> late]
      BY <1>1, <3>3
    <3>4. chain' \in R
      BY <1>1, <3>2, <3>6
    <3>5. chain'.pre = keys /\ chain'.hasEnd = chain.hasEnd /\ chain'.stale = late
      BY <1>1, <3>3
    <3>. QED
      BY <3>1, <3>4, <3>5
  <2>4. ~h.err /\ ~h.compiled
    BY <1>3 DEF Refused
  <2>5. ~graph.err /\ ~graph.compiled
    BY <2>4 DEF Stays
  <2>6. ~chain.stale /\ ~chain.hasEnd => keys \subseteq DOMAIN h.nodes /\ Linked(h, keys)
    BY <2>4, <2>5 DEF Extends
  <2>7. IsFiniteSet(chain'.pre) /\ (graph'.compiled => chain'.hasEnd)
    BY <1>1, <2>3, <2>4
  <2>8. ~graph'.err /\ ~chain'.stale =>
          /\ chain'.pre \subseteq DOMAIN graph'.nodes
          /\ Linked(graph', IF chain'.hasEnd THEN {END} ELSE chain'.pre)
    BY <1>1, <2>3, <2>6
  <2>. QED
    BY <2>3, <2>7, <2>8 DEF Chained
<1>. QED
  BY <1>2, <1>3

\* The parts of a step are nodes.
LEMMA PartIsNode ==
  ASSUME NEW part \in Part
  PROVE  part \in Node /\ [part EXCEPT !.keyed = TRUE] \in Node
<1>1. part \in Node
  BY Literals DEF Part, Node, ValueType
<1>2. [part EXCEPT !.keyed = TRUE] \in Node
  BY <1>1 DEF Node
<1>. QED
  BY <1>1, <1>2

\* Appending one node.
LEMMA ChainNodeStep ==
  ASSUME Sound(graph), Chained, NEW part \in Parts, NEW own \in BOOLEAN, chain.idx < MaxSteps,
         AddChainNode(part, own)
  PROVE  Sound(graph') /\ Chained' /\ graph'.cmp = graph.cmp
<1>. USE BuildersAssumed DEF BuildersAssumption
<1>1. CASE graph.compiled
  <2>1. chain' = [chain EXCEPT !.err = TRUE] /\ graph' = graph
    BY <1>1 DEF AddChainNode, Report
  <2>. QED
    BY <2>1 DEF Chained
<1>2. CASE ~graph.compiled
  <2>1. PICK key : key = IF own THEN OwnKey ELSE Keys[chain.idx][0]
    OBVIOUS
  <2>2. PICK from : from = IF chain.pre = {} THEN {START} ELSE chain.pre
    OBVIOUS
  <2>3. key \in STRING
    <3>1. chain.idx \in 0 .. MaxSteps - 1 /\ 0 \in 0 .. 2
      BY DEF Chained
    <3>. QED
      BY <2>1, <3>1
  <2>4. from \in SUBSET STRING /\ IsFiniteSet(from)
    BY <2>2, FS_Singleton, Literals DEF Chained
  <2>5. PICK n : n = AddNode(graph, key, part)
    OBVIOUS
  <2>6. PICK edges : edges = from \X {key}
    OBVIOUS
  <2>7. PICK h : h = AddEdges(n, edges)
    OBVIOUS
  <2>8. Advance(h, {key})
    BY <1>2, <2>1, <2>2, <2>5, <2>6, <2>7 DEF AddChainNode
  <2>9. part \in Node
    BY PartIsNode
  <2>10. Stays(graph, n) /\ (~n.err => Grown(graph, n, {key}, {}))
    BY <1>2, <2>3, <2>5, <2>9, AddNodeSound
  <2>11. edges \in SUBSET (STRING \X STRING) /\ IsFiniteSet(edges)
    BY <2>3, <2>4, <2>6, FS_Singleton, FS_Product
  <2>12. Stays(n, h) /\ (~h.err /\ ~n.compiled => Grown(n, h, {}, edges))
    <3>1. Sound(n)
      BY <2>10 DEF Stays
    <3>. QED
      BY <2>7, <2>11, <3>1, AddEdgesSound
  <2>13. Stays(graph, h)
    BY <2>10, <2>12, StaysTrans
  <2>14. ASSUME ~h.err
         PROVE  /\ ~h.compiled /\ DOMAIN h.nodes = DOMAIN graph.nodes \cup {key}
                /\ graph.control \cup edges \subseteq h.control /\ h.branches = graph.branches
    <3>1. ~n.err
      BY <2>12, <2>14 DEF Stays
    <3>2. Grown(graph, n, {key}, {})
      BY <2>10, <3>1
    <3>3. Grown(n, h, {}, edges)
      BY <2>12, <2>14, <3>2 DEF Grown
    <3>. QED
      BY <3>2, <3>3 DEF Grown
  <2>15. ASSUME ~h.err, ~chain.stale, ~chain.hasEnd
         PROVE  {key} \subseteq DOMAIN h.nodes /\ Linked(h, {key})
    <3>1. ~graph.err
      BY <2>13, <2>15 DEF Stays
    <3>2. chain.pre \subseteq DOMAIN graph.nodes /\ Linked(graph, chain.pre)
      BY <2>15, <3>1 DEF Chained
    <3>3. \A a \in Sources(graph), b \in Sinks(graph) : Leads(graph, a, b) => Leads(h, a, b)
      BY <2>14, <2>15 DEF Leads, Sinks
    <3>4. \A a \in from : Leads(h, a, key)
      BY <2>6, <2>14, <2>15 DEF Leads
    <3>5. \E a \in Sources(graph) : Leads(h, a, key)
      BY <2>2, <3>2, <3>4 DEF Sources
    <3>6. \A p \in chain.pre : Leads(h, p, key)
      BY <2>2, <3>4
    <3>7. Wired(graph) /\ Wired(h)
      BY <2>13 DEF Stays, Sound
    <3>8. {key} \subseteq Sinks(h) /\ {key} \subseteq DOMAIN h.nodes
      BY <2>14, <2>15 DEF Sinks
    <3>9. Behind(graph, h, chain.pre, {key}, {key})
      BY <2>14, <2>15, <3>2, <3>3, <3>5, <3>6, <3>8 DEF Behind
    <3>10. Linked(h, {key})
      BY <3>2, <3>7, <3>9, LinkedGrows
    <3>. QED
      BY <3>8, <3>10
  <2>16. Extends(h, {key})
    BY <2>14, <2>15 DEF Extends
  <2>17. {key} \in SUBSET STRING /\ IsFiniteSet({key})
    BY <2>3, FS_Singleton
  <2>18. Chained'
    BY <2>8, <2>13, <2>16, <2>17, AdvanceChained
  <2>19. graph' = h
    BY <2>8 DEF Advance
  <2>. QED
    BY <2>13, <2>18, <2>19 DEF Stays
<1>. QED
  BY <1>1, <1>2

\* The keys of the nodes of a branch or a parallel.
LEMMA PartKeysAre ==
  ASSUME Chained, chain.idx < MaxSteps, NEW keys \in {<< 1 >>, <<1, 1>>, <<1, 2>>}, NEW p,
         p.keys = Range(keys), NEW K, K = PartKeys(p)
  PROVE  K \in SUBSET STRING /\ IsFiniteSet(K) /\ K # {}
<1>. USE BuildersAssumed DEF BuildersAssumption
<1>1. Range(keys) = {1} \/ Range(keys) = {1, 2}
  <2>1. keys = <<1>> => DOMAIN keys = {1} /\ keys[1] = 1
    OBVIOUS
  <2>2. keys = <<1, 1>> => DOMAIN keys = {1, 2} /\ keys[1] = 1 /\ keys[2] = 1
    OBVIOUS
  <2>3. keys = <<1, 2>> => DOMAIN keys = {1, 2} /\ keys[1] = 1 /\ keys[2] = 2
    OBVIOUS
  <2>. QED
    BY <2>1, <2>2, <2>3 DEF Range
<1>2. chain.idx \in 0 .. MaxSteps - 1
  BY DEF Chained
<1>3. PICK x, y : x = Keys[chain.idx][1] /\ y = Keys[chain.idx][2]
  OBVIOUS
<1>4. x \in STRING /\ y \in STRING
  <2>1. Keys[chain.idx] \in [0 .. 2 -> STRING]
    BY <1>2
  <2>. QED
    BY <1>3, <2>1
<1>5. K = {Keys[chain.idx][j] : j \in Range(keys)}
  BY DEF PartKeys
<1>6. K = {x} \/ K = {x, y}
  BY <1>1, <1>3, <1>5
<1>7. IsFiniteSet({x}) /\ IsFiniteSet({x, y})
  <2>1. IsFiniteSet({x}) /\ {x, y} = {x} \cup {y}
    BY FS_Singleton
  <2>2. IsFiniteSet({x} \cup {y})
    BY <2>1, FS_AddElement
  <2>. QED
    BY <2>1, <2>2
<1>. QED
  BY <1>4, <1>6, <1>7

\* The node they come after is the last one of the chain.
LEMMA FromIs ==
  ASSUME Chained, ~(Cardinality(chain.pre) > 1), NEW from, from = From
  PROVE  from \in STRING /\ IF chain.pre = {} THEN from = START ELSE chain.pre = {from}
<1>1. CASE chain.pre = {}
  BY <1>1, Literals DEF From
<1>2. CASE chain.pre # {}
  <2>1. IsFiniteSet(chain.pre) /\ Cardinality(chain.pre) \in Nat /\ chain.pre \in SUBSET STRING
    BY FS_CardinalityType DEF Chained
  <2>2. Cardinality(chain.pre) # 0
    BY <1>2, <2>1, FS_EmptySet
  <2>3. Cardinality(chain.pre) = 1
    BY <2>1, <2>2
  <2>4. PICK x : chain.pre = {x}
    BY <2>1, <2>3, FS_Singleton
  <2>5. from \in chain.pre
    BY <1>2 DEF From
  <2>. QED
    BY <1>2, <2>1, <2>4, <2>5
<1>. QED
  BY <1>1, <1>2

\* A graph to which nodes have been added that follow the last one.
LEMMA FollowLinked ==
  ASSUME Sound(graph), Chained, ~graph.compiled, NEW n, Stays(graph, n), NEW keys, keys # {},
         ~n.err => Grown(graph, n, keys, {}),
         NEW from, IF chain.pre = {} THEN from = START ELSE chain.pre = {from},
         NEW h, Stays(n, h),
         ~h.err /\ ~n.compiled =>
            /\ ~h.compiled /\ DOMAIN h.nodes = DOMAIN n.nodes
            /\ \A a \in Sources(n), b \in Sinks(n) : Leads(n, a, b) => Leads(h, a, b)
            /\ \A k \in keys : Leads(h, from, k)
  PROVE  Stays(graph, h) /\ Extends(h, keys)
<1>1. Stays(graph, h)
  BY StaysTrans
<1>2. ASSUME ~h.err
      PROVE  /\ ~n.err /\ Grown(graph, n, keys, {})
             /\ ~h.compiled /\ DOMAIN h.nodes = DOMAIN n.nodes
             /\ \A a \in Sources(n), b \in Sinks(n) : Leads(n, a, b) => Leads(h, a, b)
             /\ \A k \in keys : Leads(h, from, k)
  <2>1. ~n.err
    BY <1>2 DEF Stays
  <2>2. ~n.compiled /\ Grown(graph, n, keys, {})
    BY <2>1 DEF Grown
  <2>. QED
    BY <1>2, <2>1, <2>2
<1>3. ASSUME ~h.err, ~graph.err, ~chain.stale, ~chain.hasEnd
      PROVE  keys \subseteq DOMAIN h.nodes /\ Linked(h, keys)
  <2>1. /\ ~n.err /\ Grown(graph, n, keys, {})
        /\ ~h.compiled /\ DOMAIN h.nodes = DOMAIN n.nodes
        /\ \A a \in Sources(n), b \in Sinks(n) : Leads(n, a, b) => Leads(h, a, b)
        /\ \A k \in keys : Leads(h, from, k)
    BY <1>2, <1>3
  <2>2. chain.pre \subseteq DOMAIN graph.nodes /\ Linked(graph, chain.pre)
    BY <1>3 DEF Chained
  <2>3. DOMAIN h.nodes = DOMAIN graph.nodes \cup keys
    BY <2>1 DEF Grown
  <2>4. \A a \in Sources(graph), b \in Sinks(graph) : Leads(graph, a, b) => Leads(h, a, b)
    <3>1. ASSUME NEW a \in Sources(graph), NEW b \in Sinks(graph), Leads(graph, a, b)
          PROVE  Leads(h, a, b)
      <4>1. a \in Sources(n) /\ b \in Sinks(n)
        BY <2>1, <2>3 DEF Sources, Sinks
      <4>2. Leads(n, a, b)
        BY <2>1, <3>1, <4>1 DEF Leads, Grown
      <4>. QED
        BY <2>1, <4>1, <4>2
    <3>. QED
      BY <3>1
  <2>5. from \in Sources(graph) /\ \A p \in chain.pre : p = from
    BY <2>2 DEF Sources
  <2>6. Behind(graph, h, chain.pre, keys, keys)
    <3>1. keys \subseteq Sinks(h)
      BY <2>3 DEF Sinks
    <3>2. \A k \in keys : \E a \in Sources(graph) : Leads(h, a, k)
      BY <2>1, <2>5
    <3>3. \A p \in chain.pre : \E k \in keys : Leads(h, p, k)
      BY <2>1, <2>5
    <3>. QED
      BY <2>2, <2>3, <2>4, <3>1, <3>2, <3>3 DEF Behind
  <2>7. Wired(graph) /\ Wired(h)
    BY <1>1 DEF Stays, Sound
  <2>8. Linked(h, keys)
    BY <2>2, <2>6, <2>7, LinkedGrows
  <2>. QED
    BY <2>3, <2>8
<1>. QED
  BY <1>1, <1>2, <1>3 DEF Extends

\* Appending a parallel.
LEMMA ParallelStep ==
  ASSUME Sound(graph), Chained, NEW part \in Parts, NEW keys \in {<< 1 >>, <<1, 1>>, <<1, 2>>},
         AppendParallel(ParallelOf(keys), part)
  PROVE  Sound(graph') /\ Chained' /\ graph'.cmp = graph.cmp
<1>. USE BuildersAssumed DEF BuildersAssumption
<1>1. PICK p : p = ParallelOf(keys)
  OBVIOUS
<1>2. p.keys = Range(keys) /\ chain.idx < MaxSteps
  BY <1>1 DEF ParallelOf, AppendParallel
<1>3. CASE Invalid(p)
  <2>1. chain' = [chain EXCEPT !.err = TRUE] /\ graph' = graph
    BY <1>1, <1>3 DEF AppendParallel, Report
  <2>. QED
    BY <2>1 DEF Chained
<1>4. CASE ~Invalid(p)
  <2>1. PICK K : K = PartKeys(p)
    OBVIOUS
  <2>2. K \in SUBSET STRING /\ IsFiniteSet(K) /\ K # {}
    BY <1>2, <2>1, PartKeysAre
  <2>3. PICK from : from = From
    OBVIOUS
  <2>4. from \in STRING /\ IF chain.pre = {} THEN from = START ELSE chain.pre = {from}
    BY <1>4, <2>3, FromIs DEF Invalid
  <2>5. PICK keyed : keyed = [part EXCEPT !.keyed = TRUE]
    OBVIOUS
  <2>6. keyed \in Node
    BY <2>5, PartIsNode
  <2>7. PICK n : n = AddNodes(graph, K, keyed)
    OBVIOUS
  <2>8. PICK edges : edges = {from} \X K
    OBVIOUS
  <2>9. PICK h : h = AddEdges(n, edges)
    OBVIOUS
  <2>10. Advance(h, K)
    BY <1>1, <1>4, <2>1, <2>3, <2>5, <2>7, <2>8, <2>9 DEF AppendParallel
  <2>11. Stays(graph, n) /\ (~n.err /\ ~graph.compiled => Grown(graph, n, K, {}))
    BY <2>2, <2>6, <2>7, AddNodesSound
  <2>12. edges \in SUBSET (STRING \X STRING) /\ IsFiniteSet(edges)
    BY <2>2, <2>4, <2>8, FS_Singleton, FS_Product
  <2>13. Stays(n, h) /\ (~h.err /\ ~n.compiled => Grown(n, h, {}, edges))
    <3>1. Sound(n)
      BY <2>11 DEF Stays
    <3>. QED
      BY <2>9, <2>12, <3>1, AddEdgesSound
  <2>14. Stays(graph, h) /\ Extends(h, K)
    <3>1. CASE graph.compiled
      BY <2>11, <2>13, <3>1, StaysTrans DEF Extends
    <3>2. CASE ~graph.compiled
      <4>1. ASSUME ~h.err, ~n.compiled
            PROVE  /\ ~h.compiled /\ DOMAIN h.nodes = DOMAIN n.nodes
                   /\ \A a \in Sources(n), b \in Sinks(n) : Leads(n, a, b) => Leads(h, a, b)
                   /\ \A k \in K : Leads(h, from, k)
        <5>1. Grown(n, h, {}, edges)
          BY <2>13, <4>1
        <5>. QED
          BY <2>8, <5>1 DEF Grown, Leads, Sinks
      <4>2. ~n.err => Grown(graph, n, K, {})
        BY <2>11, <3>2
      <4>. QED
        BY <2>2, <2>4, <2>11, <2>13, <3>2, <4>1, <4>2, FollowLinked
    <3>. QED
      BY <3>1, <3>2
  <2>15. Chained'
    BY <2>2, <2>10, <2>14, AdvanceChained
  <2>16. graph' = h
    BY <2>10 DEF Advance
  <2>. QED
    BY <2>14, <2>15, <2>16 DEF Stays
<1>. QED
  BY <1>3, <1>4

\* Appending a branch.
LEMMA BranchStep ==
  ASSUME Sound(graph), Chained, NEW part \in Parts, NEW keys \in {<< 1 >>, <<1, 1>>, <<1, 2>>},
         NEW cond \in Conditions, AppendBranch(ChainBranchOf(keys), part, cond)
  PROVE  Sound(graph') /\ Chained' /\ graph'.cmp = graph.cmp
<1>. USE BuildersAssumed DEF BuildersAssumption
<1>1. PICK p : p = ChainBranchOf(keys)
  OBVIOUS
<1>2. p.keys = Range(keys) /\ chain.idx < MaxSteps
  BY <1>1 DEF ChainBranchOf, AppendBranch
<1>3. CASE Invalid(p)
  <2>1. chain' = [chain EXCEPT !.err = TRUE] /\ graph' = graph
    BY <1>1, <1>3 DEF AppendBranch, Report
  <2>. QED
    BY <2>1 DEF Chained
<1>4. CASE ~Invalid(p)
  <2>1. PICK K : K = PartKeys(p)
    OBVIOUS
  <2>2. K \in SUBSET STRING /\ IsFiniteSet(K) /\ K # {}
    BY <1>2, <2>1, PartKeysAre
  <2>3. PICK from : from = From
    OBVIOUS
  <2>4. from \in STRING /\ IF chain.pre = {} THEN from = START ELSE chain.pre = {from}
    BY <1>4, <2>3, FromIs DEF Invalid
  <2>5. part \in Node /\ cond \in ValueType
    BY PartIsNode
  <2>6. PICK n : n = AddNodes(graph, K, part)
    OBVIOUS
  <2>7. PICK h : h = AddBranch(n, from, cond, K, FALSE)
    OBVIOUS
  <2>8. Advance(h, K)
    BY <1>1, <1>4, <2>1, <2>3, <2>6, <2>7 DEF AppendBranch
  <2>9. Stays(graph, n) /\ (~n.err /\ ~graph.compiled => Grown(graph, n, K, {}))
    BY <2>2, <2>5, <2>6, AddNodesSound
  <2>10. Sound(n)
    BY <2>9 DEF Stays
  <2>11. Stays(n, h) /\ (~h.err /\ ~n.compiled => BranchAdded(n, h, from, cond, K, FALSE))
    BY <2>2, <2>4, <2>5, <2>7, <2>10, AddBranchSound
  <2>12. Stays(graph, h) /\ Extends(h, K)
    <3>1. CASE graph.compiled
      BY <2>9, <2>11, <3>1, StaysTrans DEF Extends
    <3>2. CASE ~graph.compiled
      <4>1. ASSUME ~h.err, ~n.compiled
            PROVE  /\ ~h.compiled /\ DOMAIN h.nodes = DOMAIN n.nodes
                   /\ \A a \in Sources(n), b \in Sinks(n) : Leads(n, a, b) => Leads(h, a, b)
                   /\ \A k \in K : Leads(h, from, k)
        <5>. DEFINE b == [from |-> from, in |-> cond, ends |-> K, noData |-> FALSE]
        <5>1. /\ K \subseteq Sinks(n) /\ DOMAIN h.nodes = DOMAIN n.nodes /\ h.control = n.control
              /\ ~h.compiled /\ h.branches = Append(n.branches, b)
          BY <2>11, <4>1 DEF BranchAdded
        <5>2. b.from = from /\ b.ends = K /\ n.branches \in Seq(Branch)
          BY <2>10 DEF Sound, Wired, Graph
        <5>. HIDE DEF b
        <5>3. /\ DOMAIN h.branches = DOMAIN n.branches \cup {Len(n.branches) + 1}
              /\ \A i \in DOMAIN n.branches : h.branches[i] = n.branches[i]
              /\ h.branches[Len(n.branches) + 1] = b
          BY <5>1, <5>2
        <5>. QED
          BY <5>1, <5>2, <5>3 DEF Leads, Sinks
      <4>2. ~n.err => Grown(graph, n, K, {})
        BY <2>9, <3>2
      <4>. QED
        BY <2>2, <2>4, <2>9, <2>11, <3>2, <4>1, <4>2, FollowLinked
    <3>. QED
      BY <3>1, <3>2
  <2>13. Chained'
    BY <2>2, <2>8, <2>12, AdvanceChained
  <2>14. graph' = h
    BY <2>8 DEF Advance
  <2>. QED
    BY <2>12, <2>13, <2>14 DEF Stays
<1>. QED
  BY <1>3, <1>4

\* Compiling a chain: first the edges to END.
LEMMA ChainCompileStep ==
  ASSUME Sound(graph), Chained, NEW opt \in Options, CompileChain(opt)
  PROVE  Sound(graph') /\ Chained' /\ graph'.cmp = graph.cmp
<1>1. CASE chain.hasEnd
  <2>1. PICK r : r = Compile(graph, opt)
    OBVIOUS
  <2>2. graph' = r /\ chain' = chain
    BY <1>1, <2>1 DEF CompileChain
  <2>3. /\ Sound(r) /\ r.cmp = graph.cmp /\ r.err = graph.err
        /\ DOMAIN r.nodes = DOMAIN graph.nodes /\ r.control = graph.control
        /\ r.branches = graph.branches
    BY <2>1, CompileSound
  <2>4. \A last : Linked(graph, last) => Linked(r, last)
    BY <2>3 DEF Linked, Onward, Back, Leads, Sources, Sinks
  <2>. QED
    BY <1>1, <2>2, <2>3, <2>4 DEF Chained
<1>2. CASE ~chain.hasEnd
  <2>1. PICK edges : edges = chain.pre \X {END}
    OBVIOUS
  <2>2. PICK e : e = AddEdges(graph, edges)
    OBVIOUS
  <2>3. PICK r : r = Compile(e, opt)
    OBVIOUS
  <2>4. /\ chain.pre # {} /\ graph' = r
        /\ chain' = [chain EXCEPT !.hasEnd = ~Refused(e)]
    BY <1>2, <2>1, <2>2, <2>3 DEF CompileChain
  <2>5. edges \in SUBSET (STRING \X STRING) /\ IsFiniteSet(edges)
    BY <2>1, FS_Singleton, FS_Product, Literals DEF Chained
  <2>6. Stays(graph, e) /\ (~e.err /\ ~graph.compiled => Grown(graph, e, {}, edges))
    BY <2>2, <2>5, AddEdgesSound
  <2>7. Sound(e) /\ ~graph.compiled
    BY <1>2, <2>6 DEF Stays, Chained
  <2>8. /\ Sound(r) /\ r.cmp = e.cmp /\ r.err = e.err
        /\ DOMAIN r.nodes = DOMAIN e.nodes /\ r.control = e.control /\ r.branches = e.branches
    BY <2>3, <2>7, CompileSound
  <2>9. PICK ended : ended = ~Refused(e)
    OBVIOUS
  <2>10. ended \in BOOLEAN /\ ended = ~e.err
    BY <2>6, <2>7, <2>9 DEF Refused, Grown
  <2>11. /\ chain' \in [idx : Nat, pre : SUBSET STRING, err : BOOLEAN, hasEnd : BOOLEAN, stale : BOOLEAN]
         /\ chain'.pre = chain.pre /\ chain'.hasEnd = ended /\ chain'.stale = chain.stale
    <3>1. chain' = [chain EXCEPT !.hasEnd = ended]
      BY <2>4, <2>9
    <3>2. chain \in [idx : Nat, pre : SUBSET STRING, err : BOOLEAN, hasEnd : BOOLEAN, stale : BOOLEAN]
      BY DEF Chained
    <3>. QED
      BY <2>10, <3>1, <3>2
  <2>12. ASSUME ~r.err, ~chain.stale
         PROVE  /\ ended /\ chain.pre \subseteq DOMAIN r.nodes
                /\ Linked(r, {END})
    <3>1. Grown(graph, e, {}, edges) /\ ~e.err /\ ~graph.err
      BY <2>6, <2>7, <2>8, <2>12 DEF Stays
    <3>2. chain.pre \subseteq DOMAIN graph.nodes /\ Linked(graph, chain.pre)
      BY <1>2, <2>12, <3>1 DEF Chained
    <3>3. DOMAIN r.nodes = DOMAIN graph.nodes /\ DOMAIN r.nodes = DOMAIN graph.nodes \cup {}
      BY <2>8, <3>1 DEF Grown
    <3>4. \A a \in Sources(graph), b \in Sinks(graph) : Leads(graph, a, b) => Leads(r, a, b)
      BY <2>8, <3>1, <3>3 DEF Leads, Sinks, Grown
    <3>5. \A p \in chain.pre : Leads(r, p, END)
      BY <2>1, <2>8, <3>1 DEF Leads, Grown
    <3>6. Behind(graph, r, chain.pre, {END}, {})
      BY <3>2, <3>3, <3>4, <3>5 DEF Behind, Sinks
    <3>7. Wired(graph) /\ Wired(r)
      BY <2>8 DEF Sound
    <3>8. Linked(r, {END})
      BY <3>2, <3>6, <3>7, LinkedGrows
    <3>. QED
      BY <2>10, <3>1, <3>2, <3>3, <3>8
  <2>13. r.compiled => ended
    BY <2>8, <2>10 DEF Sound
  <2>14. IsFiniteSet(chain.pre)
    BY DEF Chained
  <2>15. Chained'
    BY <2>4, <2>11, <2>12, <2>13, <2>14 DEF Chained
  <2>. QED
    BY <2>4, <2>6, <2>8, <2>15 DEF Stays
<1>. QED
  BY <1>1, <1>2 DEF CompileChain

\* What the calls of a chain keep.
LEMMA ChainStep ==
  ASSUME Sound(graph), Chained, ChainNext
  PROVE  Sound(graph') /\ Chained' /\ graph'.cmp = graph.cmp
<1>1. ASSUME NEW part \in Parts, Append1(part)
      PROVE  Sound(graph') /\ Chained' /\ graph'.cmp = graph.cmp
  <2>1. PICK own \in BOOLEAN : AddChainNode(part, own)
    BY <1>1 DEF Append1
  <2>. QED
    BY <1>1, <2>1, ChainNodeStep DEF Append1
<1>2. ASSUME NEW keys \in {<< 1 >>, <<1, 1>>, <<1, 2>>}, NEW part \in Parts,
             AppendParallel(ParallelOf(keys), part)
      PROVE  Sound(graph') /\ Chained' /\ graph'.cmp = graph.cmp
  BY <1>2, ParallelStep
<1>3. ASSUME NEW keys \in {<< 1 >>, <<1, 1>>, <<1, 2>>}, NEW part \in Parts, NEW cond \in Conditions,
             AppendBranch(ChainBranchOf(keys), part, cond)
      PROVE  Sound(graph') /\ Chained' /\ graph'.cmp = graph.cmp
  BY <1>3, BranchStep
<1>4. ASSUME NEW opt \in Options, CompileChain(opt)
      PROVE  Sound(graph') /\ Chained' /\ graph'.cmp = graph.cmp
  BY <1>4, ChainCompileStep
<1>. QED
  BY <1>1, <1>2, <1>3, <1>4 DEF ChainNext

-----------------------------------------------------------------------------
(* Workflows. *)

Input == [from : STRING, maps : Seq(Mapping), mode : STRING]
Fork == [from : STRING, in : ValueType, ends : SUBSET STRING]
Mapped == [all : BOOLEAN, some : BOOLEAN, terminal : SUBSET STRING, conflict : BOOLEAN]
Flow ==
  {w \in [inputs : [Targets -> Seq(Input)], static : [Targets -> SUBSET Path],
          mapped : [Targets -> Mapped], forks : Seq(Fork), added : SUBSET Steps,
          again : SUBSET Steps, ended : BOOLEAN, declared : Nat] :
     /\ \A n \in Targets : IsFiniteSet(w.static[n])
     /\ \A i \in DOMAIN w.forks : IsFiniteSet(w.forks[i].ends)}

\* What a compilation of a workflow works on, begun with a graph.
Work == [g : Graph, wf : Flow, ok : BOOLEAN]
Works(g, b) == b \in Work /\ Sound(b.g) /\ b.g.cmp = g.cmp

\* The nodes that inputs are declared for.
LEMMA TargetNames ==
  Targets \subseteq STRING /\ IsFiniteSet(Targets)
<1>1. IsFiniteSet(Steps) /\ Steps \subseteq STRING
  BY BuildersAssumed DEF BuildersAssumption
<1>. QED
  BY <1>1, FS_AddElement, Literals DEF Targets

\* A finite set in some order is a sequence.
LEMMA OrderIsSeq ==
  ASSUME NEW S, IsFiniteSet(S)
  PROVE  SetToSeq(S) \in Seq(S)
<1>1. PICK order : order = SetToSeq(S)
  OBVIOUS
<1>2. PICK n : n = Len(order)
  OBVIOUS
<1>3. n \in Nat /\ order \in [1 .. n -> S]
  BY <1>1, <1>2, OrderOf DEF Orders
<1>. QED
  BY <1>1, <1>3

\* checkAndAddMappedPath remembers names.
LEMMA MapPathsIs ==
  ASSUME NEW m \in Mapped, NEW paths \in Seq(Path), NEW r, r = MapPaths(m, paths)
  PROVE  [r EXCEPT !.conflict = FALSE] \in Mapped
<1>. DEFINE bad == {i \in DOMAIN paths : Conflicts(m, paths, i)}
            good == {i \in DOMAIN paths : Len(paths[i]) = 1 /\ \A b \in bad : i < b}
            firsts == {paths[i][1] : i \in good}
<1>1. r \in Mapped
  <2>1. CASE m.all
    <3>1. r = [m EXCEPT !.conflict = TRUE]
      BY <2>1 DEF MapPaths
    <3>. QED
      BY <3>1 DEF Mapped
  <2>2. CASE ~m.all /\ ~m.some /\ paths = <<>>
    <3>1. r = [m EXCEPT !.all = TRUE]
      BY <2>2 DEF MapPaths
    <3>. QED
      BY <3>1 DEF Mapped
  <2>3. CASE ~m.all /\ ~(~m.some /\ paths = <<>>)
    <3>1. r = [m EXCEPT !.some = TRUE, !.conflict = bad # {}, !.terminal = @ \cup firsts]
      BY <2>3 DEF MapPaths
    <3>2. firsts \subseteq STRING
      <4>1. ASSUME NEW i \in good
            PROVE  paths[i][1] \in STRING
        <5>1. paths[i] \in Seq(STRING) /\ Len(paths[i]) = 1
          BY DEF Path
        <5>2. 1 \in 1 .. Len(paths[i])
          BY <5>1
        <5>. QED
          BY <5>1, <5>2, ElementOfSeq
      <4>. HIDE DEF good
      <4>. QED
        BY <4>1
    <3>3. PICK t : t = m.terminal \cup firsts
      OBVIOUS
    <3>4. t \in SUBSET STRING
      <4>. HIDE DEF firsts
      <4>. QED
        BY <3>2, <3>3 DEF Mapped
    <3>5. PICK c : c = (bad # {})
      OBVIOUS
    <3>6. c \in BOOLEAN
      BY <3>5
    <3>7. r = [m EXCEPT !.some = TRUE, !.conflict = c, !.terminal = t]
      <4>. HIDE DEF bad, good, firsts
      <4>. QED
        BY <3>1, <3>3, <3>5 DEF Mapped
    <3>. QED
      BY <3>4, <3>6, <3>7 DEF Mapped
  <2>. QED
    BY <2>1, <2>2, <2>3
<1>. QED
  BY <1>1 DEF Mapped

\* A workflow of which what is mapped, or what is left to do for a node, is replaced.
LEMMA FlowMapped ==
  ASSUME NEW w \in Flow, NEW n \in Targets, NEW m \in Mapped
  PROVE  [w EXCEPT !.mapped[n] = m] \in Flow
<1>. DEFINE mapped == [w.mapped EXCEPT ![n] = m]
<1>1. PICK v : v = [w EXCEPT !.mapped = mapped]
  OBVIOUS
<1>2. mapped \in [Targets -> Mapped]
  BY DEF Flow
<1>. HIDE DEF mapped
<1>3. /\ v \in [inputs : [Targets -> Seq(Input)], static : [Targets -> SUBSET Path],
               mapped : [Targets -> Mapped], forks : Seq(Fork), added : SUBSET Steps,
              again : SUBSET Steps, ended : BOOLEAN, declared : Nat]
      /\ v.static = w.static /\ v.forks = w.forks
  BY <1>1, <1>2 DEF Flow
<1>4. v = [w EXCEPT !.mapped[n] = m]
  BY <1>1 DEF mapped
<1>. QED
  BY <1>3, <1>4 DEF Flow

\* No input of a node is left to do.
LEMMA FlowDone ==
  ASSUME NEW w \in Flow, NEW n \in Targets
  PROVE  [w EXCEPT !.inputs[n] = <<>>] \in Flow
<1>. DEFINE inputs == [w.inputs EXCEPT ![n] = <<>>]
<1>1. PICK v : v = [w EXCEPT !.inputs = inputs]
  OBVIOUS
<1>2. inputs \in [Targets -> Seq(Input)]
  <2>1. <<>> \in Seq(Input)
    OBVIOUS
  <2>2. w.inputs \in [Targets -> Seq(Input)]
    BY DEF Flow
  <2>. QED
    BY <2>1, <2>2
<1>. HIDE DEF inputs
<1>3. /\ v \in [inputs : [Targets -> Seq(Input)], static : [Targets -> SUBSET Path],
               mapped : [Targets -> Mapped], forks : Seq(Fork), added : SUBSET Steps,
              again : SUBSET Steps, ended : BOOLEAN, declared : Nat]
      /\ v.static = w.static /\ v.forks = w.forks
  BY <1>1, <1>2 DEF Flow
<1>4. v = [w EXCEPT !.inputs[n] = <<>>]
  BY <1>1 DEF inputs
<1>. QED
  BY <1>3, <1>4 DEF Flow

\* One input becomes an edge.
LEMMA RunInputWorks ==
  ASSUME NEW g, NEW b, Works(g, b), NEW n \in Targets, NEW d \in Input, NEW r, r = RunInput(b, n, d)
  PROVE  Works(g, r)
<1>1. b \in Work /\ b.g \in Graph /\ b.wf \in Flow /\ Sound(b.g) /\ b.g.cmp = g.cmp
  BY DEF Works, Work
<1>2. PICK m : m = IF d.mode = "dependency" THEN b.wf.mapped[n]
                   ELSE MapPaths(b.wf.mapped[n], Tos(d.maps))
  OBVIOUS
<1>3. PICK fresh : fresh = [m EXCEPT !.conflict = FALSE]
  OBVIOUS
<1>4. fresh \in Mapped
  <2>1. b.wf.mapped[n] \in Mapped
    BY <1>1 DEF Flow
  <2>2. Tos(d.maps) \in Seq(Path)
    <3>1. d.maps \in Seq(Mapping)
      BY DEF Input
    <3>2. \A i \in DOMAIN d.maps : d.maps[i] \in Mapping
      BY <3>1
    <3>3. \A i \in DOMAIN d.maps : d.maps[i].to \in Path
      BY <3>2 DEF Mapping
    <3>. QED
      BY <3>1, <3>3 DEF Tos
  <2>3. CASE d.mode = "dependency"
    BY <1>2, <1>3, <2>1, <2>3 DEF Mapped
  <2>4. CASE d.mode # "dependency"
    BY <1>2, <1>3, <2>1, <2>2, <2>4, MapPathsIs
  <2>. QED
    BY <2>3, <2>4
<1>5. PICK w : w = [b.wf EXCEPT !.mapped[n] = fresh]
  OBVIOUS
<1>6. w \in Flow
  BY <1>1, <1>4, <1>5, FlowMapped
<1>7. PICK noControl, noData : noControl = (d.mode = "indirect") /\ noData = (d.mode = "dependency")
  OBVIOUS
<1>8. PICK h : h = AddEdgeWithMappings(b.g, d.from, n, noControl, noData, d.maps)
  OBVIOUS
<1>9. Stays(b.g, h)
  <2>1. noControl \in BOOLEAN /\ noData \in BOOLEAN
    BY <1>7
  <2>2. d.from \in STRING /\ n \in STRING /\ d.maps \in Seq(Mapping)
    BY TargetNames DEF Input
  <2>. QED
    BY <1>1, <1>8, <2>1, <2>2, AddEdgeSound
<1>10. Sound(h) /\ h.cmp = g.cmp /\ h \in Graph
  BY <1>1, <1>9 DEF Stays, Sound, Wired
<1>11. PICK ok : ok = (~h.err /\ ~h.compiled)
  OBVIOUS
<1>12. \/ r = b
       \/ r = [b EXCEPT !.wf = w, !.ok = FALSE]
       \/ r = [b EXCEPT !.wf = w, !.g = h, !.ok = ok]
  BY <1>2, <1>3, <1>5, <1>7, <1>8, <1>11 DEF RunInput
<1>13. ok \in BOOLEAN
  BY <1>11
<1>14. CASE r = b
  BY <1>14
<1>15. CASE r = [b EXCEPT !.wf = w, !.ok = FALSE]
  <2>1. r \in Work /\ r.g = b.g
    BY <1>1, <1>6, <1>15 DEF Work
  <2>. QED
    BY <1>1, <2>1 DEF Works
<1>16. CASE r = [b EXCEPT !.wf = w, !.g = h, !.ok = ok]
  <2>1. r \in Work /\ r.g = h
    BY <1>1, <1>6, <1>10, <1>13, <1>16 DEF Work
  <2>. QED
    BY <1>10, <2>1 DEF Works
<1>. QED
  BY <1>12, <1>14, <1>15, <1>16

\* All inputs of a node.
LEMMA RunInputsWorks ==
  ASSUME NEW g, NEW b, Works(g, b), NEW key \in Targets, NEW r, r = RunInputs(b, key)
  PROVE  Works(g, r)
<1>. DEFINE inputs == b.wf.inputs[key]
            n == Len(inputs)
<1>3. n \in Nat /\ \A k \in 1 .. n : inputs[k] \in Input
  <2>1. b.wf \in Flow
    BY DEF Works, Work
  <2>2. inputs \in Seq(Input)
    BY <2>1 DEF Flow
  <2>. QED
    BY <2>2
<1>. DEFINE T == {c \in Work : Works(g, c)}
            turn == [x \in T \X (1 .. n) |-> RunInput(x[1], key, inputs[x[2]])]
            after == CHOOSE f : f = [k \in 0 .. n |-> IF k = 0 THEN b ELSE RunInput(f[k - 1], key, inputs[k])]
<1>1. RunInputs(b, key) = IF after[n].ok THEN [after[n] EXCEPT !.wf = [after[n].wf EXCEPT !.inputs[key] = <<>>]]
                         ELSE after[n]
  BY DEF RunInputs, Repeat
<1>. HIDE DEF inputs, n
<1>4. b \in T
  BY DEF Works
<1>5. \A c \in T, k \in 1 .. n : RunInput(c, key, inputs[k]) \in T
  <2>1. ASSUME NEW c \in T, NEW k \in 1 .. n, NEW s, s = RunInput(c, key, inputs[k])
        PROVE  s \in T
    <3>1. Works(g, s)
      BY <1>3, <2>1, RunInputWorks
    <3>. QED
      BY <3>1 DEF Works
  <2>. HIDE DEF T
  <2>. QED
    BY <2>1
<1>6. turn \in [T \X (1 .. n) -> T]
  <2>. HIDE DEF T
  <2>. QED
    BY <1>5
<1>7. PICK f : Turns(f, n, T, b, turn)
  <2>. HIDE DEF T, turn
  <2>. QED
    BY <1>3, <1>4, <1>6, Repeated, Zenon
<1>8. f = [k \in 0 .. n |-> IF k = 0 THEN b ELSE RunInput(f[k - 1], key, inputs[k])]
  <2>1. ASSUME NEW k \in 1 .. n
        PROVE  f[k] = RunInput(f[k - 1], key, inputs[k])
    <3>1. k - 1 \in 0 .. n
      BY <1>3
    <3>2. f[k - 1] \in T /\ f[k] = turn[<<f[k - 1], k>>]
      BY <1>7, <3>1 DEF Turns
    <3>. HIDE DEF T
    <3>. QED
      BY <3>2
  <2>. HIDE DEF T, turn
  <2>. QED
    BY <1>3, <1>7, <2>1 DEF Turns
<1>9. after = [k \in 0 .. n |-> IF k = 0 THEN b ELSE RunInput(after[k - 1], key, inputs[k])]
  <2>. HIDE DEF T, turn
  <2>. QED
    BY <1>8
<1>10. after[0] = b /\ \A k \in 1 .. n : after[k] = RunInput(after[k - 1], key, inputs[k])
  <2>. HIDE DEF after
  <2>. QED
    BY <1>3, <1>9
<1>11. \A k \in 0 .. n : after[k] \in T
  <2>1. \A k \in 1 .. n : after[k - 1] \in T => after[k] \in T
    <3>. HIDE DEF after, T
    <3>. QED
      BY <1>5, <1>10
  <2>. HIDE DEF after, T
  <2>. QED
    BY <1>3, <1>4, <1>10, <2>1, Within
<1>12. PICK done : done = after[n]
  OBVIOUS
<1>13. r = IF done.ok THEN [done EXCEPT !.wf = [done.wf EXCEPT !.inputs[key] = <<>>]] ELSE done
  <2>. HIDE DEF after
  <2>. QED
    BY <1>1, <1>12
<1>14. done \in Work /\ Works(g, done)
  BY <1>3, <1>11, <1>12
<1>. HIDE DEF after, T, turn
<1>15. CASE ~done.ok
  BY <1>13, <1>14, <1>15
<1>16. CASE done.ok
  <2>1. PICK w : w = [done.wf EXCEPT !.inputs[key] = <<>>]
    OBVIOUS
  <2>2. done.wf \in Flow
    BY <1>14 DEF Work
  <2>3. w \in Flow
    BY <2>1, <2>2, FlowDone
  <2>4. r = [done EXCEPT !.wf = w]
    BY <1>13, <1>16, <2>1
  <2>5. r \in Work /\ r.g = done.g
    BY <1>14, <2>3, <2>4 DEF Work
  <2>. QED
    BY <1>14, <2>5 DEF Works
<1>. QED
  BY <1>15, <1>16

\* The static values of a node.
LEMMA RunStaticWorks ==
  ASSUME NEW g, NEW b, Works(g, b), NEW n \in Targets, NEW r, r = RunStatic(b, n)
  PROVE  Works(g, r)
<1>1. /\ b \in Work /\ b.g \in Graph /\ b.wf \in Flow /\ Sound(b.g) /\ b.g.cmp = g.cmp
      /\ Wired(b.g)
  BY DEF Works, Work, Sound
<1>2. PICK paths : paths = b.wf.static[n]
  OBVIOUS
<1>3. IsFiniteSet(paths) /\ paths \in SUBSET Path
  BY <1>1, <1>2 DEF Flow
<1>4. PICK m : m = MapPaths(b.wf.mapped[n], SetToSeq(paths))
  OBVIOUS
<1>5. PICK fresh : fresh = [m EXCEPT !.conflict = FALSE]
  OBVIOUS
<1>6. fresh \in Mapped
  <2>1. b.wf.mapped[n] \in Mapped
    BY <1>1 DEF Flow
  <2>2. SetToSeq(paths) \in Seq(paths)
    BY <1>3, OrderIsSeq
  <2>3. SetToSeq(paths) \in Seq(Path)
    BY <1>3, <2>2
  <2>. QED
    BY <1>4, <1>5, <2>1, <2>3, MapPathsIs
<1>7. PICK w : w = [b.wf EXCEPT !.mapped[n] = fresh]
  OBVIOUS
<1>8. w \in Flow
  BY <1>1, <1>6, <1>7, FlowMapped
<1>. DEFINE Whole(p) == [from |-> <<>>, to |-> p]
            whole == {Whole(p) : p \in paths}
<1>9. IsFiniteSet(whole) /\ whole \subseteq Mapping
  <2>1. [p \in paths |-> Whole(p)] \in Surjection(paths, whole)
    BY DEF Surjection
  <2>2. \A p \in paths : Whole(p) \in Mapping
    <3>1. <<>> \in Path
      BY DEF Path
    <3>. QED
      BY <1>3, <3>1 DEF Mapping
  <2>3. IsFiniteSet(whole)
    BY <1>3, <2>1, FS_Surjection
  <2>. QED
    BY <2>2, <2>3
<1>10. PICK given : given = [node |-> n, maps |-> SetToSeq(whole)]
  OBVIOUS
<1>11. given \in Target
  <2>1. SetToSeq(whole) \in Seq(whole)
    <3>. HIDE DEF whole
    <3>. QED
      BY <1>9, OrderIsSeq
  <2>2. SetToSeq(whole) \in Seq(Mapping)
    <3>. HIDE DEF whole
    <3>. QED
      BY <1>9, <2>1
  <2>. HIDE DEF whole
  <2>. QED
    BY <1>10, <2>2, TargetNames DEF Target
<1>12. PICK h : h = [b.g EXCEPT !.targets = Append(@, given)]
  OBVIOUS
<1>13. \/ r = b
       \/ r = [b EXCEPT !.wf = w, !.ok = FALSE]
       \/ r = [b EXCEPT !.wf = w, !.g = h]
  <2>. HIDE DEF Whole
  <2>1. r = IF ~b.ok \/ paths = {} THEN b
            ELSE IF m.conflict THEN [b EXCEPT !.wf = w, !.ok = FALSE]
            ELSE [b EXCEPT !.wf = w, !.g = h]
    BY <1>2, <1>4, <1>5, <1>7, <1>10, <1>12 DEF RunStatic, Whole
  <2>. QED
    BY <2>1
<1>14. Sound(h) /\ h.cmp = g.cmp /\ h \in Graph
  <2>1. Append(b.g.targets, given) \in Seq(Target)
    BY <1>1, <1>11 DEF Graph
  <2>2. h \in Graph
    BY <1>1, <1>12, <2>1 DEF Graph
  <2>3. /\ h.pending = b.g.pending /\ h.nodes = b.g.nodes /\ h.checked = b.g.checked
        /\ h.cmp = b.g.cmp /\ h.in = b.g.in /\ h.out = b.g.out /\ h.control = b.g.control
        /\ h.data = b.g.data
        /\ h.branches = b.g.branches /\ h.err = b.g.err /\ h.compiled = b.g.compiled
        /\ h.retyped = b.g.retyped
    BY <1>1, <1>12 DEF Graph
  <2>4. Wired(h)
    BY <1>1, <2>2, <2>3 DEF Wired, Sources, Sinks
  <2>5. \A x \in Sources(h), y \in Sinks(h) : Carries(h, x, y) => Carries(b.g, x, y)
    BY <2>3 DEF Carries
  <2>6. \A x \in Sources(h), y \in Sinks(h) : Settled(b.g, x, y) => Settled(h, x, y)
    BY <2>3 DEF Settled, Fits, OutputType, InputType
  <2>7. Sound(h)
    BY <1>1, <2>3, <2>4, <2>5, <2>6 DEF Sound, Sources, Sinks
  <2>. QED
    BY <1>1, <2>2, <2>3, <2>7
<1>15. CASE r = b
  BY <1>15
<1>16. CASE r = [b EXCEPT !.wf = w, !.ok = FALSE]
  <2>1. r \in Work /\ r.g = b.g
    BY <1>1, <1>8, <1>16 DEF Work
  <2>. QED
    BY <1>1, <2>1 DEF Works
<1>17. CASE r = [b EXCEPT !.wf = w, !.g = h]
  <2>1. r \in Work /\ r.g = h
    BY <1>1, <1>8, <1>14, <1>17 DEF Work
  <2>. QED
    BY <1>14, <2>1 DEF Works
<1>. QED
  BY <1>13, <1>15, <1>16, <1>17

EachInputs(b, order, n) == Repeat(LAMBDA c, k : RunInputs(c, order[k]), b, n)

\* The inputs of all nodes.
LEMMA WiredWorks ==
  ASSUME NEW g, NEW b, Works(g, b), NEW n \in Nat, NEW order \in [1 .. n -> Targets],
         NEW r, r = EachInputs(b, order, n)
  PROVE  Works(g, r)
<1>. DEFINE T == {c \in Work : Works(g, c)}
            turn == [x \in T \X (1 .. n) |-> RunInputs(x[1], order[x[2]])]
            after == CHOOSE f : f = [k \in 0 .. n |-> IF k = 0 THEN b ELSE RunInputs(f[k - 1], order[k])]
<1>1. r = after[n]
  BY DEF Repeat, EachInputs
<1>3. n \in Nat
  OBVIOUS
<1>4. b \in T
  BY DEF Works
<1>5. \A c \in T, k \in 1 .. n : RunInputs(c, order[k]) \in T
  <2>1. ASSUME NEW c \in T, NEW k \in 1 .. n, NEW s, s = RunInputs(c, order[k])
        PROVE  s \in T
    <3>1. Works(g, s)
      BY <2>1, RunInputsWorks
    <3>. QED
      BY <3>1 DEF Works
  <2>. HIDE DEF T
  <2>. QED
    BY <2>1
<1>6. turn \in [T \X (1 .. n) -> T]
  <2>. HIDE DEF T
  <2>. QED
    BY <1>5
<1>7. PICK f : Turns(f, n, T, b, turn)
  <2>. HIDE DEF T, turn
  <2>. QED
    BY <1>3, <1>4, <1>6, Repeated, Zenon
<1>8. f = [k \in 0 .. n |-> IF k = 0 THEN b ELSE RunInputs(f[k - 1], order[k])]
  <2>1. ASSUME NEW k \in 1 .. n
        PROVE  f[k] = RunInputs(f[k - 1], order[k])
    <3>1. k - 1 \in 0 .. n
      BY <1>3
    <3>2. f[k - 1] \in T /\ f[k] = turn[<<f[k - 1], k>>]
      BY <1>7, <3>1 DEF Turns
    <3>. HIDE DEF T
    <3>. QED
      BY <3>2
  <2>. HIDE DEF T, turn
  <2>. QED
    BY <1>3, <1>7, <2>1 DEF Turns
<1>9. after = [k \in 0 .. n |-> IF k = 0 THEN b ELSE RunInputs(after[k - 1], order[k])]
  <2>. HIDE DEF T, turn
  <2>. QED
    BY <1>8
<1>10. after[0] = b /\ \A k \in 1 .. n : after[k] = RunInputs(after[k - 1], order[k])
  <2>. HIDE DEF after
  <2>. QED
    BY <1>3, <1>9
<1>11. \A k \in 0 .. n : after[k] \in T
  <2>1. \A k \in 1 .. n : after[k - 1] \in T => after[k] \in T
    <3>. HIDE DEF after, T
    <3>. QED
      BY <1>5, <1>10
  <2>. HIDE DEF after, T
  <2>. QED
    BY <1>3, <1>4, <1>10, <2>1, Within
<1>12. after[n] \in T
  BY <1>11
<1>. QED
  <2>. HIDE DEF after
  <2>. QED
    BY <1>1, <1>12

EachStatic(b, order, n) == Repeat(LAMBDA c, k : RunStatic(c, order[k]), b, n)

\* The static values of all nodes.
LEMMA StaticsWork ==
  ASSUME NEW g, NEW b, Works(g, b), NEW n \in Nat, NEW order \in [1 .. n -> Targets],
         NEW r, r = EachStatic(b, order, n)
  PROVE  Works(g, r)
<1>. DEFINE T == {c \in Work : Works(g, c)}
            turn == [x \in T \X (1 .. n) |-> RunStatic(x[1], order[x[2]])]
            after == CHOOSE f : f = [k \in 0 .. n |-> IF k = 0 THEN b ELSE RunStatic(f[k - 1], order[k])]
<1>1. r = after[n]
  BY DEF Repeat, EachStatic
<1>3. n \in Nat
  OBVIOUS
<1>4. b \in T
  BY DEF Works
<1>5. \A c \in T, k \in 1 .. n : RunStatic(c, order[k]) \in T
  <2>1. ASSUME NEW c \in T, NEW k \in 1 .. n, NEW s, s = RunStatic(c, order[k])
        PROVE  s \in T
    <3>1. Works(g, s)
      BY <2>1, RunStaticWorks
    <3>. QED
      BY <3>1 DEF Works
  <2>. HIDE DEF T
  <2>. QED
    BY <2>1
<1>6. turn \in [T \X (1 .. n) -> T]
  <2>. HIDE DEF T
  <2>. QED
    BY <1>5
<1>7. PICK f : Turns(f, n, T, b, turn)
  <2>. HIDE DEF T, turn
  <2>. QED
    BY <1>3, <1>4, <1>6, Repeated, Zenon
<1>8. f = [k \in 0 .. n |-> IF k = 0 THEN b ELSE RunStatic(f[k - 1], order[k])]
  <2>1. ASSUME NEW k \in 1 .. n
        PROVE  f[k] = RunStatic(f[k - 1], order[k])
    <3>1. k - 1 \in 0 .. n
      BY <1>3
    <3>2. f[k - 1] \in T /\ f[k] = turn[<<f[k - 1], k>>]
      BY <1>7, <3>1 DEF Turns
    <3>. HIDE DEF T
    <3>. QED
      BY <3>2
  <2>. HIDE DEF T, turn
  <2>. QED
    BY <1>3, <1>7, <2>1 DEF Turns
<1>9. after = [k \in 0 .. n |-> IF k = 0 THEN b ELSE RunStatic(after[k - 1], order[k])]
  <2>. HIDE DEF T, turn
  <2>. QED
    BY <1>8
<1>10. after[0] = b /\ \A k \in 1 .. n : after[k] = RunStatic(after[k - 1], order[k])
  <2>. HIDE DEF after
  <2>. QED
    BY <1>3, <1>9
<1>11. \A k \in 0 .. n : after[k] \in T
  <2>1. \A k \in 1 .. n : after[k - 1] \in T => after[k] \in T
    <3>. HIDE DEF after, T
    <3>. QED
      BY <1>5, <1>10
  <2>. HIDE DEF after, T
  <2>. QED
    BY <1>3, <1>4, <1>10, <2>1, Within
<1>12. after[n] \in T
  BY <1>11
<1>. QED
  <2>. HIDE DEF after
  <2>. QED
    BY <1>1, <1>12

\* The branches that have been declared.
LEMMA RunBranchesSound ==
  ASSUME NEW g, Sound(g), wf \in Flow, NEW r, r = RunBranches(g)
  PROVE  Sound(r) /\ r.cmp = g.cmp
<1>. DEFINE n == Len(wf.forks)
<1>. DEFINE T == {h \in Graph : Sound(h) /\ h.cmp = g.cmp}
            turn == [x \in T \X (1 .. n) |-> RunBranch(x[1], wf.forks[x[2]])]
            after == CHOOSE f : f = [k \in 0 .. n |-> IF k = 0 THEN g ELSE RunBranch(f[k - 1], wf.forks[k])]
<1>1. r = after[n]
  BY DEF RunBranches, Repeat
<1>3. n \in Nat /\ \A k \in 1 .. n : wf.forks[k] \in Fork /\ IsFiniteSet(wf.forks[k].ends)
  <2>1. wf.forks \in Seq(Fork) /\ \A k \in DOMAIN wf.forks : IsFiniteSet(wf.forks[k].ends)
    BY DEF Flow
  <2>. QED
    BY <2>1
<1>. HIDE DEF n
<1>4. g \in T
  BY DEF Sound, Wired
<1>5. \A h \in T, k \in 1 .. n : RunBranch(h, wf.forks[k]) \in T
  <2>1. ASSUME NEW h \in T, NEW k \in 1 .. n
        PROVE  RunBranch(h, wf.forks[k]) \in T
    <3>1. PICK f : f = wf.forks[k]
      OBVIOUS
    <3>2. f \in Fork /\ IsFiniteSet(f.ends)
      BY <1>3, <3>1
    <3>3. f.from \in STRING /\ f.in \in ValueType /\ f.ends \in SUBSET STRING
      BY <3>2 DEF Fork
    <3>4. PICK s : s = AddBranch(h, f.from, f.in, f.ends, TRUE)
      OBVIOUS
    <3>5. Stays(h, s)
      <4>1. Sound(h)
        OBVIOUS
      <4>. HIDE DEF T
      <4>. QED
        BY <3>2, <3>3, <3>4, <4>1, AddBranchSound
    <3>6. s \in T
      BY <3>5 DEF Stays, Sound, Wired
    <3>. HIDE DEF T
    <3>. QED
      BY <3>1, <3>4, <3>6 DEF RunBranch
  <2>. HIDE DEF T
  <2>. QED
    BY <2>1
<1>6. turn \in [T \X (1 .. n) -> T]
  <2>. HIDE DEF T
  <2>. QED
    BY <1>5
<1>7. PICK f : Turns(f, n, T, g, turn)
  <2>. HIDE DEF T, turn
  <2>. QED
    BY <1>3, <1>4, <1>6, Repeated, Zenon
<1>8. f = [k \in 0 .. n |-> IF k = 0 THEN g ELSE RunBranch(f[k - 1], wf.forks[k])]
  <2>1. ASSUME NEW k \in 1 .. n
        PROVE  f[k] = RunBranch(f[k - 1], wf.forks[k])
    <3>1. k - 1 \in 0 .. n
      BY <1>3
    <3>2. f[k - 1] \in T /\ f[k] = turn[<<f[k - 1], k>>]
      BY <1>7, <3>1 DEF Turns
    <3>. HIDE DEF T
    <3>. QED
      BY <3>2
  <2>. HIDE DEF T, turn
  <2>. QED
    BY <1>3, <1>7, <2>1 DEF Turns
<1>9. after = [k \in 0 .. n |-> IF k = 0 THEN g ELSE RunBranch(after[k - 1], wf.forks[k])]
  <2>. HIDE DEF T, turn
  <2>. QED
    BY <1>8
<1>10. after[0] = g /\ \A k \in 1 .. n : after[k] = RunBranch(after[k - 1], wf.forks[k])
  <2>. HIDE DEF after
  <2>. QED
    BY <1>3, <1>9
<1>11. \A k \in 0 .. n : after[k] \in T
  <2>1. \A k \in 1 .. n : after[k - 1] \in T => after[k] \in T
    <3>. HIDE DEF after, T
    <3>. QED
      BY <1>5, <1>10
  <2>. HIDE DEF after, T
  <2>. QED
    BY <1>3, <1>4, <1>10, <2>1, Within
<1>12. after[n] \in T
  BY <1>3, <1>11
<1>. QED
  <2>. HIDE DEF after
  <2>. QED
    BY <1>1, <1>12

\* Compiling a workflow.
LEMMA WorkflowCompileStep ==
  ASSUME Sound(graph), wf \in Flow, NEW opt \in Options, CompileWorkflow(opt)
  PROVE  Sound(graph') /\ wf' \in Flow /\ graph'.cmp = graph.cmp
<1>1. PICK order \in SetToSeqs(Targets) :
        LET begun == [g |-> RunBranches(graph), wf |-> wf, ok |-> TRUE]
            wired == Repeat(LAMBDA b, k : RunInputs(b, order[k]), begun, Len(order))
            done == Repeat(LAMBDA b, k : RunStatic(b, order[k]), wired, Len(order))
        IN /\ graph' = IF done.ok THEN Compile(done.g, opt) ELSE done.g
           /\ wf' = done.wf
  BY Zenon DEF CompileWorkflow
<1>2. PICK n : n = Len(order)
  OBVIOUS
<1>3. n \in Nat /\ order \in [1 .. n -> Targets]
  <2>1. Cardinality(Targets) \in Nat
    BY TargetNames, FS_CardinalityType
  <2>2. order \in [1 .. Cardinality(Targets) -> Targets]
    BY DEF SetToSeqs
  <2>. QED
    BY <1>2, <2>1, <2>2
<1>4. PICK h : h = RunBranches(graph)
  OBVIOUS
<1>5. PICK begun : begun = [g |-> h, wf |-> wf, ok |-> TRUE]
  OBVIOUS
<1>6. PICK wired : wired = EachInputs(begun, order, n)
  OBVIOUS
<1>7. PICK done : done = EachStatic(wired, order, n)
  OBVIOUS
<1>8. graph' = (IF done.ok THEN Compile(done.g, opt) ELSE done.g) /\ wf' = done.wf
  BY <1>1, <1>2, <1>4, <1>5, <1>6, <1>7, Zenon DEF EachInputs, EachStatic
<1>9. PICK g : g = graph
  OBVIOUS
<1>10. Sound(h) /\ h.cmp = g.cmp
  BY <1>4, <1>9, RunBranchesSound
<1>11. Works(g, begun)
  BY <1>5, <1>10 DEF Works, Work, Sound, Wired
<1>12. Works(g, wired)
  BY <1>3, <1>6, <1>11, WiredWorks
<1>13. Works(g, done)
  BY <1>3, <1>7, <1>12, StaticsWork
<1>14. Sound(done.g) /\ done.g.cmp = g.cmp /\ done.wf \in Flow
  BY <1>13 DEF Works, Work
<1>15. PICK r : r = Compile(done.g, opt)
  OBVIOUS
<1>16. Sound(r) /\ r.cmp = done.g.cmp
  BY <1>14, <1>15, CompileSound
<1>. QED
  BY <1>8, <1>9, <1>14, <1>15, <1>16

\* The fields of a workflow, of which some are replaced.
Declares(inputs, static, forks) ==
  /\ inputs \in [Targets -> Seq(Input)]
  /\ static \in [Targets -> SUBSET Path]
  /\ \A n \in Targets : IsFiniteSet(static[n])
  /\ forks \in Seq(Fork)
  /\ \A i \in DOMAIN forks : IsFiniteSet(forks[i].ends)

Redone(w, inputs, static, forks, ended) ==
  w = [inputs |-> inputs, static |-> static, mapped |-> wf.mapped, forks |-> forks,
       added |-> wf.added, again |-> wf.again, ended |-> ended, declared |-> wf.declared + 1]

\* Such a workflow is one.
LEMMA FlowIs ==
  ASSUME wf \in Flow, NEW inputs, NEW static, NEW forks, Declares(inputs, static, forks),
         NEW ended \in BOOLEAN, NEW w, Redone(w, inputs, static, forks, ended)
  PROVE  w \in Flow
<1>1. /\ wf.mapped \in [Targets -> Mapped] /\ wf.declared + 1 \in Nat
      /\ wf.added \in SUBSET Steps /\ wf.again \in SUBSET Steps
  BY DEF Flow
<1>. QED
  BY <1>1 DEF Flow, Declares, Redone

\* What a workflow consists of.
LEMMA FlowFields ==
  ASSUME wf \in Flow
  PROVE  /\ Declares(wf.inputs, wf.static, wf.forks)
         /\ wf.ended \in BOOLEAN
         /\ wf = [inputs |-> wf.inputs, static |-> wf.static, mapped |-> wf.mapped, forks |-> wf.forks,
                  added |-> wf.added, again |-> wf.again, ended |-> wf.ended, declared |-> wf.declared]
<1>1. wf \in [inputs : [Targets -> Seq(Input)], static : [Targets -> SUBSET Path],
              mapped : [Targets -> Mapped], forks : Seq(Fork), added : SUBSET Steps,
              again : SUBSET Steps, ended : BOOLEAN, declared : Nat]
  BY DEF Flow
<1>2. wf = [inputs |-> wf.inputs, static |-> wf.static, mapped |-> wf.mapped, forks |-> wf.forks,
            added |-> wf.added, again |-> wf.again, ended |-> wf.ended, declared |-> wf.declared]
  BY <1>1
<1>3. Declares(wf.inputs, wf.static, wf.forks)
  BY DEF Flow, Declares
<1>. QED
  BY <1>1, <1>2, <1>3

\* Declaring an input.
LEMMA InputDeclared ==
  ASSUME wf \in Flow, NEW n \in Targets, NEW d \in Input, NEW w,
         w = [wf EXCEPT !.inputs[n] = Append(@, d), !.declared = @ + 1]
  PROVE  w \in Flow
<1>1. PICK inputs : inputs = [wf.inputs EXCEPT ![n] = Append(@, d)]
  OBVIOUS
<1>2. inputs \in [Targets -> Seq(Input)]
  <2>1. wf.inputs \in [Targets -> Seq(Input)]
    BY FlowFields DEF Declares
  <2>2. Append(wf.inputs[n], d) \in Seq(Input)
    BY <2>1
  <2>. QED
    BY <1>1, <2>1, <2>2
<1>7. PICK ended \in BOOLEAN : ended = wf.ended
  BY FlowFields
<1>3. Redone(w, inputs, wf.static, wf.forks, ended)
  <2>1. w = [wf EXCEPT !.inputs = inputs, !.declared = @ + 1]
    BY <1>1
  <2>. QED
    BY <1>7, <2>1, FlowFields DEF Redone
<1>4. Declares(inputs, wf.static, wf.forks)
  BY <1>2, FlowFields DEF Declares
<1>. QED
  BY <1>3, <1>4, FlowIs

\* Declaring a static value.
LEMMA StaticDeclared ==
  ASSUME wf \in Flow, NEW n \in Targets, NEW path \in Path, NEW w,
         w = [wf EXCEPT !.static[n] = @ \cup {path}, !.declared = @ + 1]
  PROVE  w \in Flow
<1>1. PICK static : static = [wf.static EXCEPT ![n] = @ \cup {path}]
  OBVIOUS
<1>2. wf.static \in [Targets -> SUBSET Path] /\ \A m \in Targets : IsFiniteSet(wf.static[m])
  BY FlowFields DEF Declares
<1>3. static \in [Targets -> SUBSET Path]
  <2>1. wf.static[n] \cup {path} \in SUBSET Path
    BY <1>2
  <2>. QED
    BY <1>1, <1>2, <2>1
<1>4. ASSUME NEW m \in Targets
      PROVE  IsFiniteSet(static[m])
  <2>1. PICK before : before = wf.static[m]
    OBVIOUS
  <2>2. IsFiniteSet(before) /\ (static[m] = before \/ static[m] = before \cup {path})
    BY <1>1, <1>2, <2>1
  <2>3. IsFiniteSet(before \cup {path})
    BY <2>2, FS_AddElement
  <2>. QED
    BY <2>2, <2>3
<1>7. PICK ended \in BOOLEAN : ended = wf.ended
  BY FlowFields
<1>5. Redone(w, wf.inputs, static, wf.forks, ended)
  <2>1. w = [wf EXCEPT !.static = static, !.declared = @ + 1]
    BY <1>1
  <2>. QED
    BY <1>7, <2>1, FlowFields DEF Redone
<1>6. Declares(wf.inputs, static, wf.forks)
  BY <1>3, <1>4, FlowFields DEF Declares
<1>. QED
  BY <1>5, <1>6, FlowIs

\* Declaring a branch.
LEMMA ForkDeclared ==
  ASSUME wf \in Flow, NEW f \in Fork, IsFiniteSet(f.ends), NEW w,
         w = [wf EXCEPT !.forks = Append(@, f), !.declared = @ + 1]
  PROVE  w \in Flow
<1>1. PICK forks : forks = Append(wf.forks, f)
  OBVIOUS
<1>2. wf.forks \in Seq(Fork) /\ \A i \in DOMAIN wf.forks : IsFiniteSet(wf.forks[i].ends)
  BY FlowFields DEF Declares
<1>3. /\ forks \in Seq(Fork)
      /\ \A i \in DOMAIN forks : (i \in DOMAIN wf.forks /\ forks[i] = wf.forks[i]) \/ forks[i] = f
  BY <1>1, <1>2
<1>4. \A i \in DOMAIN forks : IsFiniteSet(forks[i].ends)
  BY <1>2, <1>3
<1>7. PICK ended \in BOOLEAN : ended = wf.ended
  BY FlowFields
<1>5. Redone(w, wf.inputs, wf.static, forks, ended)
  <2>1. w = [wf EXCEPT !.forks = forks, !.declared = @ + 1]
    BY <1>1
  <2>. QED
    BY <1>7, <2>1, FlowFields DEF Redone
<1>6. Declares(wf.inputs, wf.static, forks)
  BY <1>3, <1>4, FlowFields DEF Declares
<1>. QED
  BY <1>5, <1>6, FlowIs

\* A key given a new WorkflowNode.
LEMMA InitNodeIsFlow ==
  ASSUME wf \in Flow, NEW n \in Steps
  PROVE  InitNode(n) \in Flow
<1>1. PICK again : again = IF wf.mapped[n] = NoPath THEN wf.again ELSE wf.again \cup {n}
  OBVIOUS
<1>2. PICK inputs, static, mapped :
        /\ inputs = [wf.inputs EXCEPT ![n] = <<>>]
        /\ static = [wf.static EXCEPT ![n] = {}]
        /\ mapped = [wf.mapped EXCEPT ![n] = NoPath]
  OBVIOUS
<1>3. n \in Targets
  BY DEF Targets
<1>4. /\ wf.inputs \in [Targets -> Seq(Input)] /\ wf.static \in [Targets -> SUBSET Path]
      /\ wf.mapped \in [Targets -> Mapped] /\ wf.forks \in Seq(Fork)
      /\ wf.added \in SUBSET Steps /\ wf.again \in SUBSET Steps
      /\ wf.ended \in BOOLEAN /\ wf.declared \in Nat
      /\ \A m \in Targets : IsFiniteSet(wf.static[m])
      /\ \A i \in DOMAIN wf.forks : IsFiniteSet(wf.forks[i].ends)
  BY DEF Flow
<1>5. inputs \in [Targets -> Seq(Input)] /\ static \in [Targets -> SUBSET Path]
  BY <1>2, <1>3, <1>4
<1>6. mapped \in [Targets -> Mapped]
  <2>1. NoPath \in Mapped
    BY DEF NoPath, Mapped
  <2>. QED
    BY <1>2, <1>3, <1>4, <2>1
<1>7. \A m \in Targets : IsFiniteSet(static[m])
  <2>1. \A m \in Targets : static[m] = {} \/ static[m] = wf.static[m]
    BY <1>2, <1>4
  <2>. QED
    BY <1>4, <2>1, FS_EmptySet
<1>8. again \in SUBSET Steps /\ wf.added \cup {n} \in SUBSET Steps
  BY <1>1, <1>4
<1>9. InitNode(n) = [inputs |-> inputs, static |-> static, mapped |-> mapped, forks |-> wf.forks,
                     added |-> wf.added \cup {n}, again |-> again, ended |-> wf.ended,
                     declared |-> wf.declared]
  <2>1. InitNode(n) = [wf EXCEPT !.inputs = inputs, !.static = static, !.mapped = mapped,
                                 !.added = @ \cup {n}, !.again = again]
    BY <1>1, <1>2 DEF InitNode
  <2>. QED
    BY <2>1, FlowFields
<1>10. PICK added : added = wf.added \cup {n}
  OBVIOUS
<1>11. PICK r : r = InitNode(n)
  OBVIOUS
<1>12. r = [inputs |-> inputs, static |-> static, mapped |-> mapped, forks |-> wf.forks,
            added |-> added, again |-> again, ended |-> wf.ended, declared |-> wf.declared]
  BY <1>9, <1>10, <1>11
<1>13. r \in Flow
  BY <1>4, <1>5, <1>6, <1>7, <1>8, <1>10, <1>12 DEF Flow
<1>. QED
  BY <1>11, <1>13

\* What the calls of a workflow keep.
LEMMA WorkflowStep ==
  ASSUME Sound(graph), wf \in Flow, WorkflowNext
  PROVE  Sound(graph') /\ wf' \in Flow /\ graph'.cmp = graph.cmp
<1>. USE BuildersAssumed DEF BuildersAssumption
<1>1. ASSUME NEW n \in Steps, NEW part \in StepParts, AddStep(n, part)
      PROVE  Sound(graph') /\ wf' \in Flow /\ graph'.cmp = graph.cmp
  <2>1. PICK r : r = AddNode(graph, n, part)
    OBVIOUS
  <2>2. n \in STRING /\ part \in Node
    BY PartIsNode
  <2>3. Stays(graph, r)
    BY <2>1, <2>2, AddNodeSound
  <2>4. graph' = r /\ wf' = InitNode(n)
    BY <1>1, <2>1 DEF AddStep
  <2>5. InitNode(n) \in Flow
    BY InitNodeIsFlow
  <2>. QED
    BY <2>3, <2>4, <2>5 DEF Stays
<1>2. ASSUME NEW n \in Targets, NEW from \in (Steps \cup {START}) \ {n}, NEW maps \in Mappings,
             NEW mode \in {"direct", "indirect", "dependency"}, AddInput(n, from, maps, mode)
      PROVE  Sound(graph') /\ wf' \in Flow /\ graph'.cmp = graph.cmp
  <2>1. PICK d : d = [from |-> from, maps |-> maps, mode |-> mode]
    OBVIOUS
  <2>2. d \in Input
    BY <2>1, Literals DEF Input
  <2>3. wf' = [wf EXCEPT !.inputs[n] = Append(@, d), !.declared = @ + 1] /\ graph' = graph
    BY <1>2, <2>1 DEF AddInput
  <2>4. PICK w : w = [wf EXCEPT !.inputs[n] = Append(@, d), !.declared = @ + 1]
    OBVIOUS
  <2>5. w \in Flow
    BY <2>2, <2>4, InputDeclared
  <2>. QED
    BY <2>3, <2>4, <2>5
<1>3. ASSUME NEW n \in Targets, NEW path \in Statics, SetStaticValue(n, path)
      PROVE  Sound(graph') /\ wf' \in Flow /\ graph'.cmp = graph.cmp
  <2>1. PICK w : w = [wf EXCEPT !.static[n] = @ \cup {path}, !.declared = @ + 1]
    OBVIOUS
  <2>2. n \in Targets /\ path \in Path
    OBVIOUS
  <2>3. w \in Flow
    BY <2>1, <2>2, StaticDeclared
  <2>. QED
    BY <1>3, <2>1, <2>3 DEF SetStaticValue
<1>4. ASSUME NEW from \in Steps \cup {START}, NEW cond \in StepConditions,
             NEW ends \in SUBSET (Targets \ {from}), AddWorkflowBranch(from, cond, ends)
      PROVE  Sound(graph') /\ wf' \in Flow /\ graph'.cmp = graph.cmp
  <2>1. PICK f : f = [from |-> from, in |-> cond, ends |-> ends]
    OBVIOUS
  <2>2. f \in Fork /\ IsFiniteSet(f.ends)
    <3>1. ends \in SUBSET STRING /\ IsFiniteSet(ends)
      BY TargetNames, FS_Subset
    <3>. QED
      BY <2>1, <3>1, Literals DEF Fork
  <2>3. PICK w : w = [wf EXCEPT !.forks = Append(@, f), !.declared = @ + 1]
    OBVIOUS
  <2>4. wf' = w /\ graph' = graph
    BY <1>4, <2>1, <2>3 DEF AddWorkflowBranch
  <2>6. w \in Flow
    BY <2>2, <2>3, ForkDeclared
  <2>. QED
    BY <2>4, <2>6
<1>5. ASSUME NEW from \in Steps, NEW maps \in Mappings, AddEnd(from, maps)
      PROVE  Sound(graph') /\ wf' \in Flow /\ graph'.cmp = graph.cmp
  <2>1. PICK r : r = AddEdgeWithMappings(graph, from, END, FALSE, FALSE, maps)
    OBVIOUS
  <2>2. from \in STRING /\ END \in STRING /\ maps \in Seq(Mapping)
    BY Literals
  <2>3. Stays(graph, r)
    BY <2>1, <2>2, AddEdgeSound
  <2>4. graph' = r /\ wf' = [wf EXCEPT !.ended = TRUE, !.declared = @ + 1]
    BY <1>5, <2>1 DEF AddEnd
  <2>5. wf' \in Flow
    <3>1. PICK w : w = [wf EXCEPT !.ended = TRUE, !.declared = @ + 1]
      OBVIOUS
    <3>2. Redone(w, wf.inputs, wf.static, wf.forks, TRUE)
      BY <3>1, FlowFields DEF Redone
    <3>3. w \in Flow
      BY <3>2, FlowFields, FlowIs
    <3>. QED
      BY <2>4, <3>1, <3>3
  <2>. QED
    BY <2>3, <2>4, <2>5 DEF Stays
<1>6. ASSUME NEW opt \in Options, CompileWorkflow(opt)
      PROVE  Sound(graph') /\ wf' \in Flow /\ graph'.cmp = graph.cmp
  BY <1>6, WorkflowCompileStep
<1>. DEFINE Kept == Sound(graph') /\ wf' \in Flow /\ graph'.cmp = graph.cmp
<1>7. (\E n \in Steps, part \in StepParts : AddStep(n, part)) => Kept
  BY <1>1
<1>8. (\E n \in Targets : \E from \in (Steps \cup {START}) \ {n}, maps \in Mappings,
                            mode \in {"direct", "indirect", "dependency"} : AddInput(n, from, maps, mode)) => Kept
  BY <1>2
<1>9. (\E n \in Targets, path \in Statics : SetStaticValue(n, path)) => Kept
  BY <1>3
<1>10. (\E from \in Steps \cup {START} : \E cond \in StepConditions, ends \in SUBSET (Targets \ {from}) \ {{}} :
          AddWorkflowBranch(from, cond, ends)) => Kept
  BY <1>4
<1>11. (\E from \in Steps, maps \in Mappings : AddEnd(from, maps)) => Kept
  BY <1>5
<1>12. (\E opt \in Options : CompileWorkflow(opt)) => Kept
  BY <1>6
<1>. HIDE DEF Kept
<1>13. Kept
  BY <1>7, <1>8, <1>9, <1>10, <1>11, <1>12 DEF WorkflowNext
<1>. QED
  BY <1>13 DEF Kept

-----------------------------------------------------------------------------
(* All of them. *)

\* What the calls of a plain graph keep.
LEMMA GraphStep ==
  ASSUME Sound(graph), GraphNext
  PROVE  Sound(graph') /\ graph'.cmp = graph.cmp
<1>. USE BuildersAssumed DEF BuildersAssumption
<1>1. ASSUME NEW n \in GraphNodes, NEW part \in Node, graph' = AddNode(graph, n, part)
      PROVE  Sound(graph') /\ graph'.cmp = graph.cmp
  <2>1. PICK r : r = AddNode(graph, n, part)
    OBVIOUS
  <2>2. Stays(graph, r)
    BY <2>1, AddNodeSound
  <2>. QED
    BY <1>1, <2>1, <2>2 DEF Stays
<1>2. ASSUME NEW n \in GraphNodes, NEW t \in GraphTypes, graph' = AddComponentNode(graph, n, t[1], t[2])
      PROVE  Sound(graph') /\ graph'.cmp = graph.cmp
  <2>1. Component(t[1], t[2]) \in Node
    <3>1. t[1] \in ValueType /\ t[2] \in ValueType
      OBVIOUS
    <3>. QED
      BY <3>1 DEF Component, Node, ValueType
  <2>. QED
    BY <1>1, <1>2, <2>1 DEF AddComponentNode
<1>3. ASSUME NEW n \in GraphNodes, graph' = AddPassthroughNode(graph, n)
      PROVE  Sound(graph') /\ graph'.cmp = graph.cmp
  <2>1. Passthrough \in Node
    BY Literals DEF Passthrough, Node
  <2>. QED
    BY <1>1, <1>3, <2>1 DEF AddPassthroughNode
<1>4. ASSUME NEW n \in GraphNodes, graph' = AddNode(graph, n, Misfit("a", "a"))
      PROVE  Sound(graph') /\ graph'.cmp = graph.cmp
  <2>1. Misfit("a", "a") \in Node
    <3>1. "a" \in STRING /\ "a" # Nil
      BY Literals DEF Nil
    <3>. QED
      BY <3>1 DEF Misfit, Component, Node
  <2>. QED
    BY <1>1, <1>4, <2>1
<1>5. ASSUME NEW from \in GraphNodes \cup {START, END}, NEW to \in GraphNodes \cup {START, END},
             graph' = AddEdge(graph, from, to)
      PROVE  Sound(graph') /\ graph'.cmp = graph.cmp
  <2>1. PICK r : r = AddEdgeWithMappings(graph, from, to, FALSE, FALSE, <<>>)
    OBVIOUS
  <2>2. from \in STRING /\ to \in STRING
    BY Literals
  <2>4. <<>> \in Seq(Mapping)
    OBVIOUS
  <2>3. Stays(graph, r)
    BY <2>1, <2>2, <2>4, AddEdgeSound
  <2>. QED
    BY <1>5, <2>1, <2>3 DEF Stays, AddEdge
<1>6. ASSUME NEW from \in GraphNodes \cup {START, END}, NEW to \in GraphNodes \cup {START, END},
             NEW cond \in Conditions, graph' = AddBranch(graph, from, cond, {to, END}, FALSE)
      PROVE  Sound(graph') /\ graph'.cmp = graph.cmp
  <2>1. PICK ends : ends = {to, END}
    OBVIOUS
  <2>2. from \in STRING /\ cond \in ValueType /\ ends \in SUBSET STRING
    BY <2>1, Literals
  <2>3. IsFiniteSet(ends)
    <3>1. IsFiniteSet({to}) /\ ends = {to} \cup {END}
      BY <2>1, FS_Singleton
    <3>. QED
      BY <3>1, FS_AddElement
  <2>4. PICK r : r = AddBranch(graph, from, cond, ends, FALSE)
    OBVIOUS
  <2>5. Stays(graph, r)
    BY <2>2, <2>3, <2>4, AddBranchSound
  <2>. QED
    BY <1>6, <2>1, <2>4, <2>5 DEF Stays
<1>7. ASSUME NEW opt \in Options, graph' = Compile(graph, opt)
      PROVE  Sound(graph') /\ graph'.cmp = graph.cmp
  <2>1. PICK r : r = Compile(graph, opt)
    OBVIOUS
  <2>2. Sound(r) /\ r.cmp = graph.cmp
    BY <2>1, CompileSound
  <2>. QED
    BY <1>7, <2>1, <2>2
<1>. QED
  BY <1>2, <1>3, <1>4, <1>5, <1>6, <1>7 DEF GraphNext

\* Of the three builders.
BuilderInv ==
  /\ Sound(graph) /\ wf \in Flow
  /\ graph.cmp = "chain" => Chained

\* It holds at first.
LEMMA BuilderInit0 ==
  BuilderInit => BuilderInv
<1>. USE BuildersAssumed DEF BuildersAssumption
<1>. SUFFICES ASSUME BuilderInit
              PROVE  BuilderInv
  OBVIOUS
<1>1. /\ graph.cmp \in STRING /\ graph.in \in ValueType /\ graph.out \in ValueType
      /\ graph = NewGraph(graph.cmp, graph.in, graph.out)
  BY DEF BuilderInit
<1>2. PICK g, cmp, in, out :
        g = NewGraph(cmp, in, out) /\ cmp = graph.cmp /\ in = graph.in /\ out = graph.out
  OBVIOUS
<1>3. Sound(g) /\ ~g.compiled /\ DOMAIN g.nodes = {}
  BY <1>1, <1>2, NewGraphSound
<1>4. graph = g
  BY <1>1, <1>2
<1>5. Chained
  <2>1. chain = [idx |-> 0, pre |-> {}, err |-> FALSE, hasEnd |-> FALSE, stale |-> FALSE]
    BY DEF BuilderInit, ChainInit
  <2>2. IsFiniteSet({})
    BY FS_EmptySet
  <2>3. Linked(graph, {})
    BY <1>3, <1>4 DEF Linked
  <2>. QED
    BY <1>3, <1>4, <2>1, <2>2, <2>3 DEF Chained
<1>6. wf \in Flow
  <2>1. wf = [inputs |-> [n \in Targets |-> <<>>], static |-> [n \in Targets |-> {}],
              mapped |-> [n \in Targets |-> NoPath], forks |-> <<>>, added |-> {}, again |-> {},
              ended |-> FALSE, declared |-> 0]
    BY DEF BuilderInit, WorkflowInit
  <2>2. NoPath \in Mapped
    BY DEF NoPath, Mapped
  <2>3. IsFiniteSet({})
    BY FS_EmptySet
  <2>4. <<>> \in Seq(Input) /\ <<>> \in Seq(Fork) /\ DOMAIN <<>> = {}
    OBVIOUS
  <2>. QED
    BY <2>1, <2>2, <2>3, <2>4 DEF Flow
<1>. QED
  BY <1>3, <1>4, <1>5, <1>6 DEF BuilderInv

\* Every call of one of the builders keeps the invariant.
LEMMA BuilderStep ==
  BuilderInv /\ [BuilderNext]_builderVars => BuilderInv'
<1>. SUFFICES ASSUME BuilderInv, [BuilderNext]_builderVars
              PROVE  BuilderInv'
  OBVIOUS
<1>1. CASE graph.cmp = "graph" /\ GraphNext /\ UNCHANGED <<chain, wf>>
  <2>1. Sound(graph') /\ graph'.cmp = graph.cmp
    BY <1>1, GraphStep DEF BuilderInv
  <2>. QED
    BY <1>1, <2>1 DEF BuilderInv
<1>2. CASE graph.cmp = "chain" /\ ChainNext /\ UNCHANGED wf
  <2>1. Sound(graph') /\ Chained' /\ graph'.cmp = graph.cmp
    BY <1>2, ChainStep DEF BuilderInv
  <2>. QED
    BY <1>2, <2>1 DEF BuilderInv
<1>3. CASE graph.cmp = "workflow" /\ WorkflowNext /\ UNCHANGED chain
  <2>1. Sound(graph') /\ wf' \in Flow /\ graph'.cmp = graph.cmp
    BY <1>3, WorkflowStep DEF BuilderInv
  <2>. QED
    BY <1>3, <2>1 DEF BuilderInv
<1>4. CASE UNCHANGED builderVars
  BY <1>4 DEF builderVars, BuilderInv, Chained
<1>. QED
  BY <1>1, <1>2, <1>3, <1>4 DEF BuilderNext

\* In a compiled graph the types of both ends of every edge that carries data
\* agree or are checked when a value passes, but for passthroughs that a branch
\* has given another type.
THEOREM EdgesCorrect == BuilderSpec => []EdgesFit
<1>1. BuilderInv => EdgesFit
  BY SoundFits DEF BuilderInv, EdgesFit
<1>. QED
  BY <1>1, BuilderInit0, BuilderStep, PTL DEF BuilderSpec

\* In a compiled chain every node lies on a way from START to END, unless
\* nodes were appended after a compilation that failed.
THEOREM ChainCorrect == BuilderSpec => []ChainWhole
<1>1. BuilderInv => ChainWhole
  <2>. SUFFICES ASSUME BuilderInv, graph.cmp = "chain", graph.compiled, ~chain.stale
                PROVE  ChainWhole
    BY DEF ChainWhole
  <2>1. graph \in Graph /\ DOMAIN graph.nodes \subseteq STRING /\ Linked(graph, {END})
    <3>1. graph \in Graph /\ ~graph.err /\ Chained
      BY DEF BuilderInv, Sound, Wired
    <3>2. Linked(graph, {END})
      BY <3>1 DEF Chained
    <3>. QED
      BY <3>1, <3>2, NodesOf
  <2>2. ASSUME NEW S \in SUBSET (DOMAIN graph.nodes \cup {START, END}), START \in S,
               \A c \in Controls(graph) : c.from \in S => c.to \in S
        PROVE  DOMAIN graph.nodes \subseteq S
    <3>1. Onward(graph, S)
      BY <2>1, <2>2, ControlIs DEF Onward
    <3>2. S \in SUBSET STRING
      BY <2>1, Literals
    <3>. QED
      BY <2>1, <2>2, <3>1, <3>2 DEF Linked
  <2>3. ASSUME NEW S \in SUBSET (DOMAIN graph.nodes \cup {START, END}), END \in S,
               \A c \in Controls(graph) : c.to \in S => c.from \in S
        PROVE  DOMAIN graph.nodes \subseteq S
    <3>1. Back(graph, S)
      BY <2>1, <2>3, ControlIs DEF Back
    <3>2. S \in SUBSET STRING /\ {END} \subseteq S
      BY <2>1, <2>3, Literals
    <3>. QED
      BY <2>1, <3>1, <3>2 DEF Linked
  <2>. QED
    BY <2>2, <2>3 DEF ChainWhole
<1>. QED
  BY <1>1, BuilderInit0, BuilderStep, PTL DEF BuilderSpec

-----------------------------------------------------------------------------
(* validateDAG. *)

\* There are finitely many ways control is passed on, between nodes.
LEMMA ControlsFinite ==
  ASSUME NEW g, Wired(g)
  PROVE  /\ IsFiniteSet(Controls(g))
         /\ \A c \in Controls(g) : c.from \in Sources(g) /\ c.to \in Sinks(g)
<1>. DEFINE OfEdge(e) == [from |-> e[1], to |-> e[2], branch |-> 0]
            OfBranch(p) == [from |-> g.branches[p[1]].from, to |-> p[2], branch |-> p[1]]
            byEdge == {OfEdge(e) : e \in g.control}
            byBranch == {OfBranch(p) : p \in BranchPairs(g)}
<1>1. g \in Graph /\ IsFiniteSet(g.control) /\ IsFiniteSet(DOMAIN g.nodes)
  BY DEF Wired
<1>2. IsFiniteSet(byEdge)
  <2>1. [e \in g.control |-> OfEdge(e)] \in Surjection(g.control, byEdge)
    BY DEF Surjection
  <2>. HIDE DEF byEdge
  <2>. QED
    BY <1>1, <2>1, FS_Surjection
<1>3. IsFiniteSet(BranchPairs(g))
  <2>1. IsFiniteSet(DOMAIN g.branches)
    <3>1. g.branches \in Seq(Branch)
      BY <1>1 DEF Graph
    <3>2. PICK m \in Nat : DOMAIN g.branches = 1 .. m
      BY <3>1
    <3>3. IsFiniteSet(1 .. m)
      BY FS_Interval
    <3>. QED
      BY <3>2, <3>3
  <2>2. IsFiniteSet(DOMAIN g.nodes \cup {END})
    BY <1>1, FS_AddElement
  <2>3. IsFiniteSet((DOMAIN g.branches) \X (DOMAIN g.nodes \cup {END}))
    BY <2>1, <2>2, FS_Product
  <2>. QED
    BY <2>3, FS_Subset DEF BranchPairs
<1>4. IsFiniteSet(byBranch)
  <2>1. [p \in BranchPairs(g) |-> OfBranch(p)] \in Surjection(BranchPairs(g), byBranch)
    BY DEF Surjection
  <2>. HIDE DEF byBranch
  <2>. QED
    BY <1>3, <2>1, FS_Surjection
<1>5. Controls(g) = byEdge \cup byBranch
  BY DEF Controls
<1>6. IsFiniteSet(Controls(g))
  <2>. HIDE DEF byEdge, byBranch
  <2>. QED
    BY <1>2, <1>4, <1>5, FS_Union
<1>7. ASSUME NEW c \in byEdge
      PROVE  c.from \in Sources(g) /\ c.to \in Sinks(g)
  BY DEF Wired
<1>8. ASSUME NEW c \in byBranch
      PROVE  c.from \in Sources(g) /\ c.to \in Sinks(g)
  BY DEF Wired, BranchPairs, Sinks
<1>. QED
  BY <1>5, <1>6, <1>7, <1>8

\* The predecessors of a node that are left.
Into(g, n, left) == {c \in Controls(g) : c.to = n /\ c.from \in left}

\* What has been removed takes no node along that waits for another.
Stripped(g, s) ==
  /\ s \in [left : SUBSET DOMAIN g.nodes, count : [DOMAIN g.nodes -> Int]]
  /\ \A n \in s.left : s.count[n] = Cardinality(Into(g, n, s.left))
  /\ \A S \in SUBSET DOMAIN g.nodes : Waiting(g, S) => S \subseteq s.left

\* At first all nodes are left.
LEMMA StripBegins ==
  ASSUME NEW g, Wired(g), NEW s, s = [left |-> DOMAIN g.nodes, count |-> Predecessors(g)]
  PROVE  Stripped(g, s)
<1>1. s.left = DOMAIN g.nodes /\ s.count = Predecessors(g) /\ START \notin DOMAIN g.nodes
  BY DEF Wired
<1>2. ASSUME NEW n \in DOMAIN g.nodes
      PROVE  /\ Predecessors(g)[n] = Cardinality(Into(g, n, DOMAIN g.nodes))
             /\ Predecessors(g)[n] \in Int
  <2>1. {c \in Controls(g) : c.to = n /\ c.from # START} = Into(g, n, DOMAIN g.nodes)
    BY <1>1, ControlsFinite DEF Into, Sources
  <2>2. Predecessors(g)[n] = Cardinality({c \in Controls(g) : c.to = n /\ c.from # START})
    BY DEF Predecessors
  <2>6. Predecessors(g)[n] = Cardinality(Into(g, n, DOMAIN g.nodes))
    BY <2>1, <2>2
  <2>3. IsFiniteSet(Controls(g)) /\ Into(g, n, DOMAIN g.nodes) \in SUBSET Controls(g)
    BY ControlsFinite DEF Into
  <2>4. IsFiniteSet(Into(g, n, DOMAIN g.nodes))
    BY <2>3, FS_Subset
  <2>5. Cardinality(Into(g, n, DOMAIN g.nodes)) \in Nat
    BY <2>4, FS_CardinalityType
  <2>. QED
    BY <2>5, <2>6
<1>3. Predecessors(g) \in [DOMAIN g.nodes -> Int]
  <2>1. Predecessors(g) = [n \in DOMAIN g.nodes |-> Predecessors(g)[n]]
    BY DEF Predecessors
  <2>. QED
    BY <1>2, <2>1
<1>. QED
  BY <1>1, <1>2, <1>3 DEF Stripped

\* A turn removes a node that nothing is left to lead to.
LEMMA StripTurn ==
  ASSUME NEW g, Wired(g), NEW s, Stripped(g, s), NEW r, r = StripOne(g, s)
  PROVE  /\ Stripped(g, r)
         /\ Free(s) # {} => \E n \in s.left : r.left = s.left \ {n}
<1>1. CASE Free(s) = {}
  BY <1>1 DEF StripOne
<1>2. CASE Free(s) # {}
  <2>1. PICK n : n = CHOOSE x \in Free(s) : TRUE
    OBVIOUS
  <2>2. n \in s.left /\ s.count[n] = 0
    BY <1>2, <2>1 DEF Free
  <2>3. r = [left |-> s.left \ {n}, count |-> [x \in DOMAIN g.nodes |-> s.count[x] - ControlsFrom(g, n, x)]]
    BY <1>2, <2>1 DEF StripOne
  <2>4. /\ r.left = s.left \ {n}
        /\ r.count = [x \in DOMAIN g.nodes |-> s.count[x] - ControlsFrom(g, n, x)]
    BY <2>3
  <2>5. /\ s.left \subseteq DOMAIN g.nodes /\ s.count \in [DOMAIN g.nodes -> Int]
        /\ \A x \in s.left : s.count[x] = Cardinality(Into(g, x, s.left))
        /\ \A S \in SUBSET DOMAIN g.nodes : Waiting(g, S) => S \subseteq s.left
    BY DEF Stripped
  <2>6. IsFiniteSet(Controls(g))
    BY ControlsFinite
  <2>7. ASSUME NEW x
        PROVE  /\ ControlsFrom(g, n, x) \in Nat
               /\ IsFiniteSet(Into(g, x, s.left)) /\ Cardinality(Into(g, x, s.left)) \in Nat
               /\ Cardinality(Into(g, x, s.left \ {n})) = Cardinality(Into(g, x, s.left)) - ControlsFrom(g, n, x)
    <3>. DEFINE from == {c \in Controls(g) : c.from = n /\ c.to = x}
                all == Into(g, x, s.left)
    <3>1. from \in SUBSET Controls(g) /\ all \in SUBSET Controls(g) /\ from \subseteq all
      BY <2>2 DEF Into
    <3>2. IsFiniteSet(from) /\ IsFiniteSet(all)
      BY <2>6, <3>1, FS_Subset
    <3>3. Cardinality(from) \in Nat /\ Cardinality(all) \in Nat
      BY <3>2, FS_CardinalityType
    <3>4. Into(g, x, s.left \ {n}) = all \ from
      BY <2>2 DEF Into
    <3>5. all \cap from = from
      BY <3>1
    <3>6. Cardinality(all \ from) = Cardinality(all) - Cardinality(all \cap from)
      <4>. HIDE DEF from, all
      <4>. QED
        BY <3>2, FS_Difference
    <3>7. ControlsFrom(g, n, x) = Cardinality(from)
      BY DEF ControlsFrom
    <3>. HIDE DEF from
    <3>. QED
      BY <3>2, <3>3, <3>4, <3>5, <3>6, <3>7
  <2>8. r.count \in [DOMAIN g.nodes -> Int]
    <3>1. ASSUME NEW x \in DOMAIN g.nodes
          PROVE  s.count[x] - ControlsFrom(g, n, x) \in Int
      <4>1. ControlsFrom(g, n, x) \in Nat
        BY <2>7
      <4>2. s.count[x] \in Int
        BY <2>5
      <4>. QED
        BY <4>1, <4>2
    <3>. QED
      BY <2>4, <3>1
  <2>9. \A x \in r.left : r.count[x] = Cardinality(Into(g, x, r.left))
    <3>1. ASSUME NEW x \in r.left
          PROVE  r.count[x] = Cardinality(Into(g, x, r.left))
      <4>1. x \in s.left /\ x \in DOMAIN g.nodes
        BY <2>4, <2>5
      <4>2. r.count[x] = s.count[x] - ControlsFrom(g, n, x)
        BY <2>4, <4>1
      <4>3. s.count[x] = Cardinality(Into(g, x, s.left))
        BY <2>5, <4>1
      <4>4. Cardinality(Into(g, x, s.left \ {n})) = Cardinality(Into(g, x, s.left)) - ControlsFrom(g, n, x)
        BY <2>7
      <4>. QED
        BY <2>4, <4>2, <4>3, <4>4
    <3>. QED
      BY <3>1
  <2>10. ASSUME NEW S \in SUBSET DOMAIN g.nodes, Waiting(g, S)
         PROVE  S \subseteq r.left
    <3>1. S \subseteq s.left
      BY <2>5, <2>10
    <3>2. Cardinality(Into(g, n, s.left)) = 0
      BY <2>2, <2>5
    <3>3. Into(g, n, s.left) = {}
      BY <2>7, <3>2, FS_EmptySet
    <3>4. n \notin S
      BY <2>10, <3>1, <3>3 DEF Waiting, Into
    <3>. QED
      BY <2>4, <3>1, <3>4
  <2>11. r \in [left : SUBSET DOMAIN g.nodes, count : [DOMAIN g.nodes -> Int]]
    BY <2>3, <2>4, <2>5, <2>8
  <2>12. Stripped(g, r)
    BY <2>9, <2>10, <2>11 DEF Stripped
  <2>. QED
    BY <2>2, <2>4, <2>12
<1>. QED
  BY <1>1, <1>2

\* In a graph without loops there is such a node until none is left.
LEMMA StripGoesOn ==
  ASSUME NEW g, Wired(g), Acyclic(g), NEW s, Stripped(g, s), s.left # {}
  PROVE  Free(s) # {}
<1>. SUFFICES ASSUME Free(s) = {}
              PROVE  FALSE
  OBVIOUS
<1>1. s.left \in SUBSET DOMAIN g.nodes
  BY DEF Stripped
<1>2. ASSUME NEW n \in s.left
      PROVE  \E c \in Controls(g) : c.to = n /\ c.from \in s.left
  <2>1. Cardinality(Into(g, n, s.left)) # 0
    BY DEF Free, Stripped
  <2>2. Into(g, n, s.left) # {}
    BY <2>1, FS_EmptySet
  <2>. QED
    BY <2>2 DEF Into
<1>3. Waiting(g, s.left)
  BY <1>2 DEF Waiting
<1>. QED
  BY <1>1, <1>3 DEF Acyclic

\* validateDAG, for any graph.
LEMMA StripDecides ==
  ASSUME NEW g, Wired(g)
  PROVE  ValidateDAG(g) <=> Acyclic(g)
<1>. DEFINE first == [left |-> DOMAIN g.nodes, count |-> Predecessors(g)]
            n == Cardinality(DOMAIN g.nodes)
<1>. DEFINE T == {s \in [left : SUBSET DOMAIN g.nodes, count : [DOMAIN g.nodes -> Int]] : Stripped(g, s)}
            turn == [x \in T \X (1 .. n) |-> StripOne(g, x[1])]
            after == CHOOSE f : f = [k \in 0 .. n |-> IF k = 0 THEN first ELSE StripOne(g, f[k - 1])]
<1>1. Strip(g) = after[n]
  BY DEF Strip, Repeat
<1>2. IsFiniteSet(DOMAIN g.nodes)
  BY DEF Wired
<1>3. n \in Nat
  BY <1>2, FS_CardinalityType
<1>4. first \in T
  <2>1. PICK s : s = first
    OBVIOUS
  <2>2. Stripped(g, s)
    BY <2>1, StripBegins
  <2>. QED
    BY <2>1, <2>2 DEF Stripped
<1>13. first.left = DOMAIN g.nodes
  OBVIOUS
<1>. HIDE DEF first, n
<1>5. \A s \in T : StripOne(g, s) \in T
  <2>1. ASSUME NEW s \in T, NEW r, r = StripOne(g, s)
        PROVE  r \in T
    <3>1. Stripped(g, r)
      BY <2>1, StripTurn
    <3>. QED
      BY <3>1 DEF Stripped
  <2>. HIDE DEF T
  <2>. QED
    BY <2>1
<1>6. turn \in [T \X (1 .. n) -> T]
  <2>. HIDE DEF T
  <2>. QED
    BY <1>5
<1>7. PICK f : Turns(f, n, T, first, turn)
  <2>. HIDE DEF T, turn
  <2>. QED
    BY <1>3, <1>4, <1>6, Repeated, Zenon
<1>8. f = [k \in 0 .. n |-> IF k = 0 THEN first ELSE StripOne(g, f[k - 1])]
  <2>1. ASSUME NEW k \in 1 .. n
        PROVE  f[k] = StripOne(g, f[k - 1])
    <3>1. k - 1 \in 0 .. n
      BY <1>3
    <3>2. f[k - 1] \in T /\ f[k] = turn[<<f[k - 1], k>>]
      BY <1>7, <3>1 DEF Turns
    <3>. HIDE DEF T
    <3>. QED
      BY <3>2
  <2>. HIDE DEF T, turn
  <2>. QED
    BY <1>3, <1>7, <2>1 DEF Turns
<1>9. after = [k \in 0 .. n |-> IF k = 0 THEN first ELSE StripOne(g, after[k - 1])]
  <2>. HIDE DEF T, turn
  <2>. QED
    BY <1>8
<1>10. after[0] = first /\ \A k \in 1 .. n : after[k] = StripOne(g, after[k - 1])
  <2>. HIDE DEF after
  <2>. QED
    BY <1>3, <1>9
<1>11. \A k \in 0 .. n : after[k] \in T
  <2>1. \A k \in 1 .. n : after[k - 1] \in T => after[k] \in T
    <3>. HIDE DEF after, T
    <3>. QED
      BY <1>5, <1>10
  <2>. HIDE DEF after, T
  <2>. QED
    BY <1>3, <1>4, <1>10, <2>1, Within
<1>. DEFINE Fewer(k) == Acyclic(g) => Cardinality(after[k].left) = n - k
            P == [k \in 0 .. n |-> Fewer(k)]
<1>14. \A k \in 0 .. n : P[k] = TRUE
  <2>1. P[0] = TRUE
    <3>1. Fewer(0) = TRUE
      <4>. HIDE DEF after
      <4>. QED
        BY <1>3, <1>10, <1>13 DEF n
    <3>. HIDE DEF Fewer
    <3>. QED
      BY <1>3, <3>1
  <2>2. ASSUME NEW k \in 1 .. n, P[k - 1] = TRUE
        PROVE  P[k] = TRUE
    <3>1. k - 1 \in 0 .. n /\ k \in 0 .. n /\ after[k - 1] \in T
      BY <1>3, <1>11
    <3>2. PICK s, r : s = after[k - 1] /\ r = after[k]
      OBVIOUS
    <3>3. Stripped(g, s) /\ r = StripOne(g, s)
      <4>. HIDE DEF after
      <4>. QED
        BY <1>10, <3>1, <3>2
    <3>4. Fewer(k - 1)
      BY <2>2, <3>1
    <3>5. Fewer(k)
      <4>1. ASSUME Acyclic(g)
            PROVE  Cardinality(r.left) = n - k
        <5>1. Cardinality(s.left) = n - (k - 1)
          BY <3>2, <3>4, <4>1
        <5>2. IsFiniteSet(s.left)
          BY <1>2, <3>3, FS_Subset DEF Stripped
        <5>3. s.left # {}
          BY <1>3, <5>1, <5>2, FS_EmptySet
        <5>4. PICK m \in s.left : r.left = s.left \ {m}
          BY <3>3, <4>1, <5>3, StripGoesOn, StripTurn
        <5>5. Cardinality(r.left) = Cardinality(s.left) - 1
          BY <5>2, <5>4, FS_RemoveElement
        <5>. QED
          BY <1>3, <5>1, <5>5
      <4>. HIDE DEF after
      <4>. QED
        BY <3>2, <4>1
    <3>. HIDE DEF Fewer
    <3>. QED
      BY <3>1, <3>5
  <2>. HIDE DEF P, after, T, turn
  <2>. QED
    BY <1>3, <2>1, <2>2, Counted
<1>15. Fewer(n)
  <2>1. P[n] = TRUE /\ n \in 0 .. n
    BY <1>3, <1>14
  <2>. HIDE DEF Fewer
  <2>. QED
    BY <2>1
<1>16. PICK s : s = after[n]
  OBVIOUS
<1>17. Stripped(g, s) /\ s.left \subseteq DOMAIN g.nodes
  <2>1. after[n] \in T
    BY <1>3, <1>11
  <2>. HIDE DEF after
  <2>. QED
    BY <1>16, <2>1 DEF Stripped
<1>18. ValidateDAG(g) <=> s.left = {}
  <2>. HIDE DEF after
  <2>. QED
    BY <1>1, <1>16 DEF ValidateDAG
<1>19. ASSUME s.left = {}
       PROVE  Acyclic(g)
  BY <1>17, <1>19 DEF Stripped, Acyclic
<1>20. ASSUME Acyclic(g)
       PROVE  s.left = {}
  <2>1. Cardinality(s.left) = 0
    <3>. HIDE DEF after
    <3>. QED
      BY <1>3, <1>15, <1>16, <1>20
  <2>2. IsFiniteSet(s.left)
    BY <1>2, <1>17, FS_Subset
  <2>. QED
    BY <2>1, <2>2, FS_EmptySet
<1>. QED
  BY <1>18, <1>19, <1>20

\* validateDAG accepts exactly the graphs without a cycle of control, whatever
\* has been built by then.
THEOREM DagCorrect == BuilderSpec => []DagIsAcyclic
<1>1. BuilderInv => DagIsAcyclic
  BY StripDecides DEF BuilderInv, Sound, DagIsAcyclic
<1>. QED
  BY <1>1, BuilderInit0, BuilderStep, PTL DEF BuilderSpec

=============================================================================
