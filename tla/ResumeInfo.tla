----------------------------- MODULE ResumeInfo -----------------------------
(***************************************************************************)
(* How the states of interrupted components find their way back to them:   *)
(* internal/core (address.go, resume.go, interrupt.go), and its use by the *)
(* graph engine (compose/checkpoint.go), by agent tools (adk/agent_tool.go)*)
(* and by Runner (adk/runner.go, adk/interrupt.go).                        *)
(*                                                                         *)
(* Components form a tree: an agent, its graph, a node of it, a tool call, *)
(* the agent inside that tool.  A component is its address; the id of an   *)
(* interrupt is made anew for every run and stands for the address it was  *)
(* raised at, so that ids are components too.  One globalResumeInfo is     *)
(* shared by everything that runs below a resumed run: AppendAddressSegment*)
(* takes from it on the way into a component, and every component that     *)
(* loads a checkpoint of its own writes into it (PopulateInterruptState).  *)
(***************************************************************************)
EXTENDS Naturals, FiniteSets

CONSTANTS
  Component,
  Root,
  Parent,    \* of every component but Root
  Loader,    \* components that keep a checkpoint of what is inside them
  Graph,     \* the loaders that are graphs: their own interrupt is in it
  Parallel,  \* components that run what is inside them concurrently
  Repeats,   \* components that may run what is inside them a second time
  Rank,      \* the order in which the others run it
  MaxRuns    \* bound: the first run and its resumptions

ASSUME ResumeAssumption ==
  /\ Root \in Component
  /\ Parent \in [Component \ {Root} -> Component]
  /\ Graph \subseteq Loader /\ Loader \subseteq Component
  /\ Parallel \subseteq Component /\ Repeats \subseteq Component
  /\ Rank \in [Component -> Nat]
  /\ MaxRuns \in Nat

Children(n) == {m \in Component \ {Root} : Parent[m] = n}
Leaf == {n \in Component : Children(n) = {}}

\* What is inside n: the least set with its children and theirs.
Below ==
  [n \in Component |->
    {m \in Component :
      \A S \in SUBSET Component :
        Children(n) \subseteq S /\ (\A k \in S : Children(k) \subseteq S) => m \in S}]

\* Addresses start at the run, and something is inside it; a graph that has
\* nothing inside has nothing to stop at, and keeps no checkpoint.
ASSUME TreeAssumption ==
  /\ Component = {Root} \union Below[Root]
  /\ Leaf \cap (Graph \union {Root}) = {}

VARIABLES
  run,     \* which run this is: 1 is the first one
  saved,   \* components in the interrupt the last run ended with
  info,    \* the globalResumeInfo
  pc,      \* per component
  got,     \* addrCtx.interruptState: nil, an empty one, or the state saved
  target,  \* addrCtx.isResumeTarget
  fresh,   \* components that run what is inside them from the start
  again,   \* components that ran what is inside them a second time
  loaded   \* history: the components that loaded a checkpoint in this run

vars == <<run, saved, info, pc, got, target, fresh, again, loaded>>

NoInfo == [addr |-> {}, state |-> {}, used |-> {}, data |-> {}, dataUsed |-> {}]

Over == {"done", "interrupted"}

Init ==
  /\ run = 1
  /\ saved = {}
  /\ info = NoInfo
  /\ pc = [n \in Component |-> IF n = Root THEN "ready" ELSE "out"]
  /\ got = [n \in Component |-> "nil"]
  /\ target = [n \in Component |-> FALSE]
  /\ fresh = Component
  /\ again = {}
  /\ loaded = {}

-----------------------------------------------------------------------------
(* internal/core. *)

\* Mutant: a state is not marked as used.
TakenKeeps(i, n) ==
  LET found == n \in i.addr /\ n \notin i.used
      named == found /\ n \in i.data \ i.dataUsed
  IN [state  |-> IF ~found THEN "nil" ELSE IF n \in i.state THEN "state" ELSE "empty",
      target |-> named,
      info   |-> [i EXCEPT !.dataUsed = IF named THEN @ \union {n} ELSE @]]

\* AppendAddressSegment: the first id with this address that is not used gives
\* its state, and the resume data of that id if there is any.
Taken(i, n) ==
  LET found == n \in i.addr /\ n \notin i.used
      named == found /\ n \in i.data \ i.dataUsed
  IN [state  |-> IF ~found THEN "nil" ELSE IF n \in i.state THEN "state" ELSE "empty",
      target |-> named,
      info   |-> [i EXCEPT !.used = IF found THEN @ \union {n} ELSE @,
                           !.dataUsed = IF named THEN @ \union {n} ELSE @]]

\* PopulateInterruptState: addresses are added, the states replaced.
Populated(i, ids) == [i EXCEPT !.addr = @ \union ids, !.state = ids]

\* What the checkpoint of n holds: the interrupt inside it, and for a graph
\* its own.
Kept(n) == saved \cap (Below[n] \union IF n \in Graph THEN {n} ELSE {})

-----------------------------------------------------------------------------
(* Running the components. *)

\* Components n has still to run what is inside it.
Wanted(n) == IF n \in fresh THEN Children(n) ELSE Children(n) \cap saved

MayEnter(n) ==
  LET p == Parent[n] IN
    /\ n # Root
    /\ pc[p] = "ready"
    /\ pc[n] = "out"
    /\ n \in Wanted(p)
    /\ p \notin Parallel =>
         \A m \in Wanted(p) : Rank[m] < Rank[n] => pc[m] \in Over

\* The component is entered.  One that was interrupted but finds no state
\* cannot go on ("cannot find interrupt state").
Enter(n) ==
  /\ MayEnter(n)
  /\ LET taken == Taken(info, n) IN
       /\ info' = taken.info
       /\ got' = [got EXCEPT ![n] = taken.state]
       /\ target' = [target EXCEPT ![n] = taken.target]
       /\ pc' = [pc EXCEPT ![n] = CASE taken.state = "empty" -> "failed"
                                    [] taken.state = "state" /\ n \in Loader -> "load"
                                    [] OTHER -> "ready"]
       /\ fresh' = IF taken.state = "nil" THEN fresh \union {n} ELSE fresh \ {n}
  /\ UNCHANGED <<run, saved, again, loaded>>

\* It loads its checkpoint.  A graph finds its own address in it: what it has
\* not got yet it gets, and unless resume data was taken for it it becomes a
\* resume target, named or not.
Load(n) ==
  /\ pc[n] = "load"
  /\ LET i == Populated(info, Kept(n))
         own == n \in Graph /\ n \in Kept(n)
     IN /\ info' = IF own THEN [i EXCEPT !.used = @ \union {n}, !.dataUsed = @ \union {n}]
                   ELSE i
        /\ got' = IF own /\ n \notin i.used THEN [got EXCEPT ![n] = "state"] ELSE got
        /\ target' = IF own /\ n \notin i.dataUsed THEN [target EXCEPT ![n] = TRUE]
                     ELSE target
  /\ pc' = [pc EXCEPT ![n] = "ready"]
  /\ loaded' = loaded \union {n}
  /\ UNCHANGED <<run, saved, fresh, again>>

\* A leaf that was interrupted goes on only if it is the target, and raises its
\* interrupt again otherwise; one that was not may do either.
Finish(n) ==
  /\ n \in Leaf
  /\ pc[n] = "ready"
  /\ \E result \in Over :
       /\ got[n] = "state" => (result = "done" <=> target[n])
       /\ pc' = [pc EXCEPT ![n] = result]
  /\ UNCHANGED <<run, saved, info, got, target, fresh, again, loaded>>

\* Mutant: one that is done hides the interrupts of the others.
ReturnHides(n) ==
  /\ n \notin Leaf
  /\ pc[n] = "ready"
  /\ \A m \in Wanted(n) : pc[m] \in Over
  /\ pc' = [pc EXCEPT ![n] = IF \E m \in Wanted(n) : pc[m] = "done"
                             THEN "done" ELSE "interrupted"]
  /\ UNCHANGED <<run, saved, info, got, target, fresh, again, loaded>>

\* A component with others inside is interrupted if one of them is.
Return(n) ==
  /\ n \notin Leaf
  /\ pc[n] = "ready"
  /\ \A m \in Wanted(n) : pc[m] \in Over
  /\ pc' = [pc EXCEPT ![n] = IF \E m \in Wanted(n) : pc[m] = "interrupted"
                             THEN "interrupted" ELSE "done"]
  /\ UNCHANGED <<run, saved, info, got, target, fresh, again, loaded>>

\* A loop visits what is inside the component once more.
Again(n) ==
  /\ n \in Repeats \ again
  /\ n \notin Leaf
  /\ pc[n] = "ready"
  /\ \A m \in Wanted(n) : pc[m] = "done"
  /\ again' = again \union {n}
  /\ fresh' = fresh \union {n}
  /\ pc' = [m \in Component |-> IF m \in Below[n] THEN "out" ELSE pc[m]]
  /\ UNCHANGED <<run, saved, info, got, target, loaded>>

\* A failed component fails what it is in, up to the run.
Fail(n) ==
  /\ n # Root
  /\ pc[n] = "failed"
  /\ pc[Parent[n]] = "ready"
  /\ pc' = [pc EXCEPT ![Parent[n]] = "failed"]
  /\ UNCHANGED <<run, saved, info, got, target, fresh, again, loaded>>

\* Root causes are what the user may name.
Resume ==
  /\ pc[Root] = "interrupted"
  /\ run < MaxRuns
  /\ \E named \in SUBSET {n \in Leaf : pc[n] = "interrupted"} :
       info' = [NoInfo EXCEPT !.data = named]
  /\ run' = run + 1
  /\ saved' = {n \in Component : pc[n] = "interrupted"}
  /\ pc' = [n \in Component |-> IF n = Root THEN "load" ELSE "out"]
  /\ got' = [n \in Component |-> "nil"]
  /\ target' = [n \in Component |-> FALSE]
  /\ fresh' = Component \ {Root}
  /\ again' = {}
  /\ loaded' = {}

Step(n) == Enter(n) \/ Load(n) \/ Finish(n) \/ Return(n) \/ Again(n) \/ Fail(n)

Next == Resume \/ \E n \in Component : Step(n)

Spec == Init /\ [][Next]_vars

-----------------------------------------------------------------------------

Entered(n) == pc[n] # "out" /\ n # Root

(* A component that was interrupted and is entered again in the resumed    *)
(* run finds the state it saved (GetInterruptState), whatever loads a      *)
(* checkpoint of its own meanwhile.                                        *)
StateFound == \A n \in Component : got[n] # "empty"

(* What the code has of it: a state is missing only because a component    *)
(* beside this one, which it is not inside of, has loaded its checkpoint.  *)
LostOnlyToSibling ==
  \A n \in Component : got[n] = "empty" =>
    \E m \in loaded : n \notin Below[m] \union {m}

(* A state is handed out once: a loop that comes by again in the resumed   *)
(* run starts from nothing instead of going back to the interrupt.         *)
LaterVisitsStartFresh ==
  \A n \in Component : \A m \in Below[n] :
    n \in again /\ Entered(m) => got[m] = "nil" /\ ~target[m]

(* A leaf is told it is a resume target exactly if its interrupt was named *)
(* and it is back where it was interrupted, through every checkpoint that  *)
(* is loaded on the way.                                                   *)
TargetsReached ==
  \A n \in Leaf :
    Entered(n) /\ got[n] # "nil" => (target[n] <=> n \in info.data)

(* An interrupt is not lost: a run that ends without one has taken every   *)
(* leaf the run before left interrupted to its end, as its target.         *)
NothingLeftInterrupted ==
  pc[Root] = "done" => \A n \in Leaf \cap saved : n \in info.data

(* A saved state goes to the component that saved it, once, and is missing *)
(* only because of a sibling that loaded a checkpoint.                     *)
StatesComeHome == LostOnlyToSibling /\ LaterVisitsStartFresh

(* Exactly the leaves that were named go on, and a run that ends well has  *)
(* left none that was interrupted.                                         *)
NamedGoOn == TargetsReached /\ NothingLeftInterrupted

=============================================================================
