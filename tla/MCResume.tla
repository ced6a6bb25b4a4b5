----------------------------- MODULE MCResume -----------------------------
(* What resumption rests on: the states of interrupted components find     *)
(* them, the checkpoint of a nested graph finds its graph, and a checkpoint*)
(* survives the store. One of two nested graphs interrupts.                *)
EXTENDS MCResumeInfo, NestedResume, Serialization

VARIABLE part

\* A struct with fields of every kind, and what its interface may hold.
Inner == TypeOf("struct", "T", "x" :> Basic)
Unregistered == TypeOf("struct", "U", "x" :> Basic)
Marshaler == TypeOf("json", "J", <<>>)
Outer ==
  TypeOf("struct", "S", "i" :> AnyType @@ "p" :> Ptr(Ptr(Basic)) @@ "q" :> Ptr(Ptr(Inner)) @@
                        "m" :> MapOf(Inner) @@ "n" :> Ptr(MapOf(Basic)) @@ "a" :> ArrayOf(Basic))
To(v) == Wrap(1, v)
Items(x, y, z) == Node("1" :> x @@ "2" :> y @@ "3" :> z)
Pair(x, y) == Node("1" :> x @@ "2" :> y)
One == Node("x" :> Atom(1))
HeldValues ==
  {Null, Held(Basic, Atom(0)), Held(Basic, Atom(1)), Held(Inner, One), Held(Inner, Zero(Inner)),
   Held(Ptr(Inner), Null), Held(Ptr(Inner), To(Zero(Inner))), Held(Ptr(Ptr(Inner)), Null),
   Held(Ptr(Ptr(Inner)), To(Null)), Held(Unregistered, One), Held(Marshaler, Atom(1)),
   Held(Ptr(Marshaler), Null), Held(MapOf(Basic), Null), Held(MapOf(Inner), Node("k" :> One)),
   Held(Ptr(MapOf(Basic)), To(Node("k" :> Atom(1)))), Held(Ptr(SliceOf(Basic)), Null),
   Held(MapOf(Marshaler), Node(<<>>)), Held(ArrayOf(Basic), Pair(Atom(1), Atom(0))),
   Held(SliceOf(AnyType), Items(Held(Inner, One), Null, Held(MapOf(Ptr(Unregistered)), Null))),
   Held(SliceOf(AnyType), Items(Held(Ptr(Inner), To(One)), Null, Held(Basic, Atom(0)))),
   Held(MapOf(SliceOf(Ptr(Inner))), Node("k" :> Pair(Null, To(One)) @@ "l" :> Null))}
FieldValues ==
  [i : {Held(Inner, One)}, p : {Null, To(Null), To(To(Atom(0))), To(To(Atom(1)))},
   q : {Null, To(Null), To(To(One))}, m : {Null, Node(<<>>), Node("k" :> One @@ "l" :> Zero(Inner))},
   n : {Null, To(Null), To(Node("k" :> Atom(0)))}, a : {Zero(ArrayOf(Basic)), Pair(Atom(0), Atom(1))}]
MCCheckpoints ==
  LET values == FieldValues \cup {[Zero(Outer).at EXCEPT !["i"] = h] : h \in HeldValues}
  IN {[held |-> Held(Ptr(Outer), To(Node(f))), target |-> t] :
        f \in values, t \in {Outer, Ptr(Outer), AnyType}}
MCRegistrations ==
  <<[key |-> "s", type |-> "S"], [key |-> "t", type |-> "T"], [key |-> "t", type |-> "J"],
    [key |-> "x", type |-> "T"], [key |-> "j", type |-> "J"]>>

resumeVars == <<part, nestedVars, vars, store>>

ResumeInit ==
  /\ part \in {"info", "nested", "store"}
  /\ Init /\ NestedInit
  /\ IF part = "store" THEN StoreInit ELSE NoStore

ResumeNext ==
  /\ UNCHANGED part
  /\ \/ part = "info" /\ Next /\ UNCHANGED <<nestedVars, store>>
     \/ part = "nested" /\ NestedNext /\ UNCHANGED <<vars, store>>
     \/ part = "store" /\ StoreNext /\ UNCHANGED <<vars, nestedVars>>

ResumeSpec == ResumeInit /\ [][ResumeNext]_resumeVars

============================================================================
