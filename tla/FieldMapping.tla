--------------------------- MODULE FieldMapping ---------------------------
(***************************************************************************)
(* What field mappings do when a compiled workflow runs                    *)
(* (compose/field_mapping.go): every edge takes fields out of what its     *)
(* predecessor returned, the results are merged, and an input of the       *)
(* node's type is made of them, in the order of a Go map.                  *)
(*                                                                         *)
(* A value is a tree: a leaf, nil, or a node with the fields of a struct   *)
(* or the keys of a map.  A pointer is the value it points to, or nil.     *)
(* Reflection is modelled as far as it decides whether an assignment       *)
(* arrives: what is not addressable cannot be set, and what was copied     *)
(* into a map is no longer what is set.                                    *)
(***************************************************************************)
EXTENDS Naturals, Sequences, FiniteSets, SequencesExt

CONSTANTS
  Types,    \* a sequence of types of inputs
  Feeds     \* what a node is given: [into, stream, edges], the first an index
            \* of Types; an edge is [value, maps]

VARIABLE
  fm  \* edges not taken from yet, taken (per edge), values (merged, left to
      \* assign), input, state ("take", "assign", "done", "failed", "panic"),
      \* and the feed they belong to

Type(kind, of) == [kind |-> kind, of |-> of]
LeafType == Type("leaf", <<>>)
AnyType == Type("any", <<>>)
NoType == Type("invalid", <<>>)
MapType(elem) == Type("map", "*" :> elem)
PtrType(elem) == Type("ptr", "*" :> elem)
StructType(fields) == Type("struct", fields)

Leaf(x) == [is |-> "leaf", leaf |-> x, at |-> <<>>]
NilValue == [is |-> "nil", leaf |-> <<>>, at |-> <<>>]
Tree(f) == [is |-> "node", leaf |-> <<>>, at |-> f]
With(v, key, x) == Tree((key :> x) @@ v.at)

RECURSIVE ZeroOf(_)
ZeroOf(t) ==
  CASE t.kind = "leaf" -> Leaf(<<>>)
    [] t.kind = "struct" -> Tree([f \in DOMAIN t.of |-> ZeroOf(t.of[f])])
    [] OTHER -> NilValue

(* newInstanceByType *)
RECURSIVE newInstanceByType(_)
newInstanceByType(t) ==
  CASE t.kind = "map" -> Tree(<<>>)
    [] t.kind = "ptr" -> newInstanceByType(t.of["*"])
    [] OTHER -> ZeroOf(t)

(* checkAndExtractFieldType: the type at the end of a path, any as soon as *)
(* there is an interface on it.                                            *)
RECURSIVE checkAndExtractFieldType(_, _)
checkAndExtractFieldType(path, t) ==
  CASE path = <<>> -> t
    [] t.kind = "ptr" -> checkAndExtractFieldType(path, t.of["*"])
    [] t.kind = "map" -> checkAndExtractFieldType(Tail(path), t.of["*"])
    [] t.kind = "struct" /\ Head(path) \in DOMAIN t.of ->
         checkAndExtractFieldType(Tail(path), t.of[Head(path)])
    [] t.kind = "any" -> t
    [] OTHER -> NoType

----------------------------------------------------------------------------
(* fieldMap and takeOne: what a mapping takes from the output v.           *)

Taken(v) == [how |-> "value", v |-> v]
Missing == [how |-> "missing", v |-> NilValue]
Wrong == [how |-> "error", v |-> NilValue]

RECURSIVE takeOne(_, _)
takeOne(v, path) ==
  CASE path = <<>> -> Taken(v)
    [] v.is # "node" -> Wrong
    [] Head(path) \notin DOMAIN v.at -> Missing
    [] OTHER -> takeOne(v.at[Head(path)], Tail(path))

(* The check of a value that validateFieldMapping leaves to the run.       *)
checker(x, t) ==
  \/ t.kind = "any"
  \/ x.is = "nil" /\ t.kind \in {"map", "ptr"}
  \/ x.is = "leaf" /\ t.kind = "leaf"
  \/ x.is = "node" /\ t.kind # "leaf"

(* A stream may lack a key in one of its chunks, a value may not.          *)
fieldMap(edge, allowMapKeyNotFound) ==
  FoldLeft(LAMBDA r, m :
             LET x == takeOne(edge.value, m.from)
             IN CASE ~r.ok -> r
                  [] x.how = "value" -> [r EXCEPT !.map = (m.to :> x.v) @@ @]
                  [] x.how = "missing" /\ allowMapKeyNotFound -> r
                  [] OTHER -> [r EXCEPT !.ok = FALSE],
           [ok |-> TRUE, map |-> <<>>], edge.maps)

----------------------------------------------------------------------------
(* assignOne. at says what the value is to reflection: "settable"; "fresh",*)
(* just made for a key that was not there, with a copy of it in the map    *)
(* that is renewed once; "lost", part of what was such a copy; "copy", read*)
(* from a map, where nothing can be set.                                   *)

Assigned(v) == [ok |-> TRUE, v |-> v]
Unassignable(v) == [ok |-> FALSE, v |-> v]

(* Mutant: makes a new map or struct each time.                            *)
instantiateAlways(v, t) ==
  IF t.kind \in {"ptr", "map"} THEN newInstanceByType(t) ELSE v

instantiateIfNeeded(v, t) ==
  IF t.kind \in {"ptr", "map"} /\ v.is = "nil" THEN newInstanceByType(t) ELSE v

RECURSIVE assignOne(_, _, _, _, _)
assignOne(v, t, path, x, at) ==
  LET key == Head(path)
      last == Len(path) = 1
  IN CASE t.kind = "ptr" -> assignOne(v, t.of["*"], path, x, "settable")
       [] t.kind = "any" /\ v.is # "node" /\ at = "copy" -> Unassignable(v)
       [] t.kind = "any" /\ v.is # "node" /\ at = "lost" -> Assigned(v)
       [] t.kind = "any" -> assignOne(v, MapType(AnyType), path, x, at)
       [] t.kind = "map" /\ last ->
            Assigned(With(v, key, IF x.is = "nil" THEN ZeroOf(t.of["*"]) ELSE x))
       [] t.kind = "map" ->
            LET known == key \in DOMAIN v.at
                elem == IF known THEN v.at[key] ELSE newInstanceByType(t.of["*"])
                r == assignOne(elem, t.of["*"], Tail(path), x, IF known THEN "copy" ELSE "fresh")
            IN [r EXCEPT !.v = With(v, key, @)]
       [] at = "lost" \/ (last /\ x.is = "nil") -> Assigned(v)
       [] last -> IF at = "copy" THEN Unassignable(v) ELSE Assigned(With(v, key, x))
       [] OTHER ->
            LET field == instantiateIfNeeded(v.at[key], t.of[key])
                r == assignOne(field, t.of[key], Tail(path), x, IF at = "fresh" THEN "lost" ELSE at)
            IN IF field # v.at[key] /\ at = "copy" THEN Unassignable(v)
               ELSE [r EXCEPT !.v = With(v, key, @)]

----------------------------------------------------------------------------
NoMapping == fm = [state |-> "none"]

MappingInit ==
  fm \in {[feed |-> f, todo |-> f.edges, taken |-> <<>>, values |-> <<>>,
           input |-> newInstanceByType(Types[f.into]), state |-> "take"] : f \in Feeds}

(* The handler of an edge: fieldMap, or streamFieldMap on a chunk, and the *)
(* checks.                                                                 *)
TakeFields(edge) ==
  /\ fm.state = "take" /\ edge \in fm.todo
  /\ LET r == fieldMap(edge, fm.feed.stream)
         fits(to) == checker(r.map[to], checkAndExtractFieldType(to, Types[fm.feed.into]))
     IN fm' = IF r.ok /\ \A to \in DOMAIN r.map : fits(to) THEN [fm EXCEPT !.todo = @ \ {edge}, !.taken = Append(@, r.map)]
              ELSE [fm EXCEPT !.state = "failed"]

(* mergeValues of the maps: a key that comes twice is an error.            *)
Merge ==
  /\ fm.state = "take" /\ fm.todo = {}
  /\ LET all == FoldLeft(LAMBDA f, m : f @@ m, <<>>, fm.taken)
         count == FoldLeft(LAMBDA n, m : n + Cardinality(DOMAIN m), 0, fm.taken)
     IN fm' = IF Cardinality(DOMAIN all) = count
              THEN [fm EXCEPT !.values = all, !.taken = <<>>, !.state = "assign"]
              ELSE [fm EXCEPT !.state = "failed"]

(* One turn of the loop of convertTo, over a Go map.                       *)
Assign(to) ==
  /\ fm.state = "assign" /\ to \in DOMAIN fm.values
  /\ LET x == fm.values[to]
         left == [k \in DOMAIN fm.values \ {to} |-> fm.values[k]]
         r == IF to = <<>> THEN Assigned(x)
              ELSE assignOne(fm.input, Types[fm.feed.into], to, x, "settable")
     IN fm' = [fm EXCEPT !.values = left, !.input = r.v,
                         !.state = IF ~r.ok THEN "panic"
                                   ELSE IF left = <<>> THEN "done" ELSE @]

Converted == fm.state = "assign" /\ fm.values = <<>> /\ fm' = [fm EXCEPT !.state = "done"]

MappingNext ==
  \/ \E edge \in fm.todo : TakeFields(edge)
  \/ Merge
  \/ \E to \in DOMAIN fm.values : Assign(to)
  \/ Converted

----------------------------------------------------------------------------
(* The targets that pass through a struct held by value in a map: the      *)
(* paths up to the struct.                                                 *)
Held(t, to) ==
  {k \in 1 .. Len(to) - 1 :
     /\ checkAndExtractFieldType(SubSeq(to, 1, k), t).kind = "struct"
     /\ checkAndExtractFieldType(SubSeq(to, 1, k - 1), t).kind = "map"}

(* There assignOne loses a value that is deeper, and panics at the second. *)
Fragile(t, targets) ==
  \E to \in targets : \E k \in Held(t, to) :
    \/ /\ Len(to) > k + 1
       /\ checkAndExtractFieldType(SubSeq(to, 1, k + 1), t).kind \in {"struct", "any"}
    \/ \E other \in targets \ {to} : IsPrefix(SubSeq(to, 1, k), other)

Mapped == {p \in fm.feed.edges \X UNION {Range(e.maps) : e \in fm.feed.edges} :
             p[2] \in Range(p[1].maps)}
Source(p) == takeOne(p[1].value, p[2].from)

RECURSIVE Leaves(_)
Leaves(v) ==
  CASE v.is = "leaf" -> IF v.leaf = <<>> THEN {} ELSE {<<>>}
    [] v.is = "nil" -> {}
    [] OTHER -> UNION {{<<f>> \o p : p \in Leaves(v.at[f])} : f \in DOMAIN v.at}

(* Whatever the order, the input a node is given has at the target of each *)
(* mapping what the mapping takes from the predecessor's output, if it is  *)
(* there, and nothing anywhere else: targets that share a map or a struct  *)
(* do not undo each other (field_mapping.go:243-245). An error means that a*)
(* source is missing or does not fit, or that a target comes twice. Left   *)
(* out are the targets behind a struct that a map holds by value.          *)
EachTargetAssigned ==
  fm.state # "none" /\ ~Fragile(Types[fm.feed.into], {p[2].to : p \in Mapped}) =>
    /\ fm.state # "panic"
    /\ fm.state = "failed" =>
         \/ \E p \in Mapped :
              \/ Source(p).how # "value"
              \/ ~checker(Source(p).v, checkAndExtractFieldType(p[2].to, Types[fm.feed.into]))
         \/ \E p, q \in Mapped : p[1] # q[1] /\ p[2].to = q[2].to
    /\ fm.state = "done" =>
         /\ \A p \in Mapped :
              Source(p).how = "value" /\ Source(p).v.is # "nil" =>
                takeOne(fm.input, p[2].to) = Source(p)
         /\ \A leaf \in Leaves(fm.input) : \E p \in Mapped : IsPrefix(p[2].to, leaf)
============================================================================
