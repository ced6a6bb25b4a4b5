--------------------------- MODULE Serialization ---------------------------
(***************************************************************************)
(* How a checkpoint gets into the store and back                           *)
(* (internal/serialization/serialization.go).  The value that one process  *)
(* marshals is unmarshalled by another, whose registry may be another.     *)
(*                                                                         *)
(* A type is [kind, name, of]: "basic", "struct" and "json" (a struct that *)
(* marshals itself) have a name, "map", "slice", "array" and "ptr" an      *)
(* element, and "any" is an interface.  A value is nil, a leaf, a node with*)
(* fields, elements or what a pointer points to, or what an interface      *)
(* holds together with its type.  What may fail returns <<>> or the one    *)
(* result; what is in an interface and not its dynamic type is lost.       *)
(***************************************************************************)
EXTENDS Naturals, Sequences, FiniteSets, SequencesExt

CONSTANTS
  Checkpoints,   \* [held, target]: the value to save, as an interface holds
                 \* it, and the type of the variable it is loaded into
  Registrations  \* the calls of GenericRegister, [key, type], in their order

VARIABLE
  store  \* [held, target, writer, reader, data, out, state], where writer and
         \* reader are the registrations of the two processes so far

TypeOf(kind, name, of) == [kind |-> kind, name |-> name, of |-> of]
Basic == TypeOf("basic", "", <<>>)
AnyType == TypeOf("any", "", <<>>)
Ptr(elem) == TypeOf("ptr", "", "*" :> elem)
MapOf(elem) == TypeOf("map", "", "*" :> elem)
SliceOf(elem) == TypeOf("slice", "", "*" :> elem)
ArrayOf(elem) == TypeOf("array", "", "*" :> elem)
Elem(t) == t.of["*"]

ValueOf(is, leaf, type, at) == [is |-> is, leaf |-> leaf, type |-> type, at |-> at]
Null == ValueOf("nil", <<>>, <<>>, <<>>)
Atom(x) == ValueOf("leaf", <<x>>, <<>>, <<>>)
Node(f) == ValueOf("node", <<>>, <<>>, f)
Held(t, v) == ValueOf("held", <<>>, <<t>>, "*" :> v)

(* An array has two elements; the keys of all nodes are strings.           *)
RECURSIVE Zero(_)
Zero(t) ==
  CASE t.kind \in {"basic", "json"} -> Atom(0)
    [] t.kind = "struct" -> Node([f \in DOMAIN t.of |-> Zero(t.of[f])])
    [] t.kind = "array" -> Node([i \in {"1", "2"} |-> Zero(Elem(t))])
    [] OTHER -> Null

(* derefPointerNum and resolvePointerNum *)
RECURSIVE derefPointerNum(_), resolvePointerNum(_, _), Wrap(_, _)
derefPointerNum(t) ==
  IF t.kind # "ptr" THEN [num |-> 0, type |-> t]
  ELSE LET d == derefPointerNum(Elem(t)) IN [d EXCEPT !.num = @ + 1]
resolvePointerNum(n, t) == IF n = 0 THEN t ELSE Ptr(resolvePointerNum(n - 1, t))
Wrap(n, v) == IF n = 0 THEN v ELSE Node("*" :> Wrap(n - 1, v))

(* GenericRegister: neither the key nor the type may be there yet.         *)
GenericRegister(reg, key, type) ==
  IF \E r \in reg : r.key = key \/ r.type = type THEN reg
  ELSE reg \cup {[key |-> key, type |-> type]}
Known(reg, t) ==
  t.kind \in {"basic", "any"} \/ \E r \in reg : r.type = t.name

(* extractType: the type without its name for an array, which is a slice;  *)
(* and restoreType, whose keys must be known to the reader.                *)
RECURSIVE extractType(_, _), Restores(_, _)
extractType(t, reg) ==
  CASE t.kind \in {"ptr", "map", "slice"} ->
         LET e == extractType(Elem(t), reg) IN [i \in DOMAIN e |-> [t EXCEPT !.of = "*" :> e[i]]]
    [] t.kind = "array" ->
         LET e == extractType(Elem(t), reg) IN [i \in DOMAIN e |-> SliceOf(e[i])]
    [] OTHER -> IF Known(reg, t) THEN <<t>> ELSE <<>>
Restores(t, reg) ==
  IF t.kind \in {"ptr", "map", "slice"} THEN Restores(Elem(t), reg) ELSE Known(reg, t)

----------------------------------------------------------------------------
(* internalStruct: nothing, or the type if it was in an interface, and JSON*)
(* or what is in it.  The type is [how, ptrs, type].                       *)

Nothing == [some |-> FALSE, type |-> <<>>, json |-> Null, at |-> <<>>]
Written(type, json, at) == [some |-> TRUE, type |-> type, json |-> json, at |-> at]

(* Follows the pointers up to a nil one: that is where counting ends.      *)
RECURSIVE Pointed(_, _, _)
Pointed(v, t, n) ==
  IF t.kind # "ptr" THEN [num |-> n, nil |-> FALSE, v |-> v, type |-> t]
  ELSE IF v.is = "nil" THEN [num |-> n + 1, nil |-> TRUE, v |-> v, type |-> derefPointerNum(t).type]
  ELSE Pointed(v.at["*"], Elem(t), n + 1)

(* Mutant: leaves a zero out although only the interface knew its type.    *)
OmittedHeld(v, t) == v = Zero(t) \/ (v.is = "held" /\ v.at["*"] = Zero(v.type[1]))

Omitted(v, t) == v = Zero(t)

RECURSIVE internalMarshal(_, _, _)
internalMarshal(v, fieldType, reg) ==
  LET unspecific == fieldType.kind = "any"
      p == Pointed(IF unspecific THEN v.at["*"] ELSE v,
                   IF unspecific THEN v.type[1] ELSE fieldType, 0)
      type(how, t) == IF unspecific THEN <<[how |-> how, ptrs |-> p.num, type |-> t]>> ELSE <<>>
      named == ~unspecific \/ ((p.type.kind \in {"basic", "struct", "json"}) /\ Known(reg, p.type))
      fieldOf(k) == IF p.type.kind = "struct" THEN p.type.of[k] ELSE Elem(p.type)
      parts == [k \in DOMAIN p.v.at |-> internalMarshal(p.v.at[k], fieldOf(k), reg)]
      at == [k \in DOMAIN parts |-> parts[k][1]]
      elem == extractType(Elem(p.type), reg)
  IN CASE Omitted(v, fieldType) -> <<Nothing>>
       [] p.nil -> IF named THEN <<Written(type("simple", p.type), Null, <<>>)>> ELSE <<>>
       [] p.type.kind \in {"basic", "json"} ->
            IF named THEN <<Written(type("simple", p.type), p.v, <<>>)>> ELSE <<>>
       [] \E k \in DOMAIN parts : parts[k] = <<>> -> <<>>
       [] p.type.kind = "struct" ->
            IF named THEN <<Written(type("struct", p.type), Null, at)>> ELSE <<>>
       [] OTHER ->
            IF unspecific /\ elem = <<>> THEN <<>>
            ELSE LET how == IF p.type.kind = "map" THEN "map" ELSE "slice"
                 IN <<Written(IF unspecific THEN type(how, elem[1]) ELSE <<>>, Null, at)>>

----------------------------------------------------------------------------
FromJSON(t, json) ==
  IF json.is = "nil" THEN Zero(t) ELSE Wrap(derefPointerNum(t).num, json)

(* setStructField, setMapKVs and setSliceElems for one element, which was  *)
(* left out, or is what an interface holds.                                *)
SetElem(t, r) ==
  CASE r.is = "nil" -> Zero(t)
    [] t.kind = "any" -> r
    [] OTHER -> r.at["*"]

RECURSIVE internalUnmarshal(_, _, _)
internalUnmarshal(e, typ, reg) ==
  LET found == e.type[1]
      t == CASE e.type = <<>> -> typ
             [] found.how = "map" -> MapOf(found.type)
             [] found.how = "slice" -> SliceOf(found.type)
             [] OTHER -> resolvePointerNum(found.ptrs, found.type)
      base == derefPointerNum(t).type
      known == IF e.type = <<>> THEN TRUE
               ELSE IF found.how \in {"map", "slice"} THEN Restores(found.type, reg)
               ELSE Known(reg, found.type)
      simple == base.kind \in {"basic", "json"} \/ (e.type # <<>> /\ found.how = "simple")
      fieldOf(k) == IF base.kind = "struct" THEN base.of[k] ELSE Elem(base)
      parts == [k \in DOMAIN e.at |-> internalUnmarshal(e.at[k], fieldOf(k), reg)]
      elems == [k \in DOMAIN parts |-> SetElem(fieldOf(k), parts[k][1])]
      created == IF base.kind \in {"map", "slice"} THEN <<>> ELSE Zero(base).at
  IN CASE ~e.some -> <<Null>>
       [] ~known -> <<>>
       [] simple -> <<Held(t, FromJSON(t, e.json))>>
       [] \E k \in DOMAIN parts : parts[k] = <<>> -> <<>>
       [] OTHER -> <<Held(t, Wrap(derefPointerNum(t).num, Node(elems @@ created)))>>

(* set: the pointers of the target are made, those of the source followed. *)
RECURSIVE set(_, _, _)
set(target, t, v) ==
  CASE target.kind = "any" -> <<Held(t, v)>>
    [] target = t -> <<v>>
    [] target.kind = "ptr" ->
         LET r == set(Elem(target), t, v) IN [i \in DOMAIN r |-> Wrap(1, r[i])]
    [] t.kind = "ptr" -> IF v.is = "nil" THEN <<Zero(target)>> ELSE set(target, Elem(t), v.at["*"])
    [] OTHER -> <<>>

----------------------------------------------------------------------------
NoStore == store = [state |-> "none"]

StoreInit ==
  store \in {[held |-> c.held, target |-> c.target, writer |-> 0, reader |-> 0,
              data |-> Nothing, out |-> Null, state |-> "alive"] : c \in Checkpoints}

Registered(n) ==
  FoldLeft(LAMBDA reg, r : GenericRegister(reg, r.key, r.type), {}, SubSeq(Registrations, 1, n))

Register ==
  /\ \/ store.state = "alive" /\ store.writer < Len(Registrations)
        /\ store' = [store EXCEPT !.writer = @ + 1]
     \/ store.state = "saved" /\ store.reader < Len(Registrations)
        /\ store' = [store EXCEPT !.reader = @ + 1]

Marshal ==
  /\ store.state = "alive"
  /\ LET e == internalMarshal(store.held, AnyType, Registered(store.writer))
     IN store' = IF e = <<>> THEN [store EXCEPT !.state = "unsaved"]
                 ELSE [store EXCEPT !.data = e[1], !.state = "saved"]

Unmarshal ==
  /\ store.state = "saved"
  /\ LET val == internalUnmarshal(store.data, store.target, Registered(store.reader))
         r == IF val = <<>> THEN <<>> ELSE set(store.target, val[1].type[1], val[1].at["*"])
     IN store' = IF r = <<>> THEN [store EXCEPT !.state = "unloaded"]
                 ELSE [store EXCEPT !.out = r[1], !.state = "loaded"]

StoreNext == Register \/ Marshal \/ Unmarshal

----------------------------------------------------------------------------
(* What comes back of a value: of what an interface holds, a map or a slice*)
(* loses the pointers to it, an array is a slice, and a nil pointer has no *)
(* more pointers below it; behind a pointer, nil is the empty value if it  *)
(* is a struct, a map or a slice, and if not the outermost pointer is nil. *)
RECURSIVE Back(_, _)
Back(v, t) ==
  LET held == IF v.is = "held" THEN v.type[1] ELSE t
      p == Pointed(IF v.is = "held" THEN v.at["*"] ELSE v, held, 0)
      elem(k) == IF p.type.kind = "struct" THEN p.type.of[k] ELSE Elem(p.type)
      content == IF p.type.kind \in {"basic", "json"} THEN p.v
                 ELSE Node([k \in DOMAIN p.v.at |-> Back(p.v.at[k], elem(k))])
      created == CASE p.type.kind \in {"map", "slice"} -> Node(<<>>)
                   [] OTHER -> Zero(p.type)
      n == derefPointerNum(t).num
  IN CASE v = Zero(t) -> v
       [] v.is = "held" /\ p.nil -> Held(resolvePointerNum(p.num, p.type), Null)
       [] v.is = "held" ->
            CASE p.type.kind = "array" -> Held(SliceOf(Elem(p.type)), content)
              [] p.type.kind \in {"map", "slice"} -> Held(p.type, content)
              [] OTHER -> Held(held, Wrap(p.num, content))
       [] p.nil -> IF p.type.kind \in {"basic", "json"} THEN Null ELSE Wrap(n, created)
       [] OTHER -> Wrap(n, content)

(* The types that a registry must know, and whether something is held that *)
(* no registry can know: a nil pointer to a map, a slice or an array.      *)
RECURSIVE Needs(_), Unknowable(_), Bases(_)
Bases(t) == IF t.kind \in {"ptr", "map", "slice", "array"} THEN Bases(Elem(t))
            ELSE IF t.kind \in {"struct", "json"} THEN {t.name} ELSE {}
Needs(v) == (IF v.is = "held" THEN Bases(v.type[1]) ELSE {}) \cup UNION {Needs(v.at[k]) : k \in DOMAIN v.at}
Unknowable(v) ==
  \/ /\ v.is = "held"
     /\ LET p == Pointed(v.at["*"], v.type[1], 0)
        IN p.nil /\ p.type.kind \in {"map", "slice", "array"}
  \/ \E k \in DOMAIN v.at : Unknowable(v.at[k])

TypesOf(n) == {r.type : r \in Registered(n)}

(* A checkpoint that could be saved comes back as it was, but for the      *)
(* losses that Back names, to whatever variable it is loaded into, if the  *)
(* process that loads it has registered the types; and saving or loading   *)
(* fails for no other reason than an unknown type                          *)
(* (serialization.go:244-418, 420-505).                                    *)
SavedComesBack ==
  /\ store.state = "loaded" =>
       LET back == Back(store.held, AnyType)
       IN <<store.out>> = set(store.target, back.type[1], back.at["*"])
  /\ store.state = "unsaved" =>
       Unknowable(store.held) \/ ~(Needs(store.held) \subseteq TypesOf(store.writer))
  /\ store.state = "unloaded" => ~(Needs(store.held) \subseteq TypesOf(store.reader))
============================================================================
