--------------------------- MODULE GraphChannels ---------------------------
(***************************************************************************)
(* The channels of a compiled graph: src/compose/dag.go (AllPredecessor    *)
(* trigger mode, Workflow), src/compose/pregel.go (AnyPredecessor) and the *)
(* channelManager of src/compose/graph_manager.go that feeds them.         *)
(*                                                                         *)
(* A channel belongs to the node, or END, that reads it.  Only what a      *)
(* trigger decision can observe is kept: of the value a predecessor wrote  *)
(* the model keeps which predecessor it is from, so a merged input is the  *)
(* set of its sources and the empty set is the zero value.  All channels   *)
(* of a graph are one record of relations between predecessor and channel. *)
(*                                                                         *)
(* The run loop that calls these operators is GraphRun.  No definition     *)
(* here is RECURSIVE, so the modules that extend this one can hold         *)
(* theorems.                                                               *)
(***************************************************************************)
EXTENDS Naturals, FiniteSets

CONSTANTS
  Node,       \* keys of graph.nodes
  START, END, \* the two reserved keys
  WriteTo,    \* chanCall.writeTo: data successors added by AddEdge
  Controls,   \* chanCall.controls: control successors added by AddEdge
  Branches,   \* chanCall.writeToBranches: a set of Branch for each source
  Dag         \* TRUE: dagChannelBuilder, FALSE: pregelChannelBuilder

Src == Node \union {START}
Dst == Node \union {END}

\* A branch offers its endNodes; noDataFlow branches only order (Workflow).
Branch == [ends : SUBSET Dst, noDataFlow : BOOLEAN]

ASSUME GraphAssumption ==
  /\ START \notin Dst
  /\ END \notin Src
  /\ WriteTo \in [Src -> SUBSET Dst]
  /\ Controls \in [Src -> SUBSET Dst]
  /\ Branches \in [Src -> SUBSET Branch]
  /\ Dag \in BOOLEAN

(***************************************************************************)
(* The tables compile() builds from the edges and the branches.            *)
(***************************************************************************)
BranchEnds(s) == UNION {b.ends : b \in Branches[s]}

DataBranchEnds(s) == UNION {b.ends : b \in {c \in Branches[s] : ~c.noDataFlow}}

\* controlPredecessors, as the pairs <<predecessor, channel>>
ControlEdges == {e \in Src \X Dst : e[2] \in Controls[e[1]] \union BranchEnds(e[1])}

\* dataPredecessors
DataEdges == {e \in Src \X Dst : e[2] \in WriteTo[e[1]] \union DataBranchEnds(e[1])}

\* successors, which a skip follows
SuccessorEdges ==
  {e \in Node \X Dst : e[2] \in WriteTo[e[1]] \union Controls[e[1]] \union BranchEnds(e[1])}

\* The predecessors of d in the relation E.
Preds(E, d) == {s \in Src : <<s, d>> \in E}

(***************************************************************************)
(* The channels.                                                           *)
(***************************************************************************)
Channels ==
  [ready   : SUBSET (Src \X Dst),  \* ControlPredecessors that are Ready
   skip    : SUBSET (Src \X Dst),  \* ControlPredecessors that are Skipped
   data    : SUBSET (Src \X Dst),  \* DataPredecessors that are true
   vals    : SUBSET (Src \X Dst),  \* Values
   skipped : SUBSET Dst]           \* the channels whose Skipped is set

\* initChannelManager: every control predecessor Waiting, no value.
InitChannels ==
  [ready |-> {}, skip |-> {}, data |-> {}, vals |-> {}, skipped |-> {}]

\* reportValues of the writes W (pairs).  Values of a node that is not a
\* data predecessor are dropped, and a skipped channel takes none.
ReportValues(c, W) ==
  LET taken == {e \in W \intersect DataEdges : ~Dag \/ e[2] \notin c.skipped}
  IN  [c EXCEPT !.vals = @ \union taken,
                !.data = IF Dag THEN @ \union taken ELSE @]

\* reportDependencies of the completions D (pairs).  It overwrites a skip
\* that the same predecessor reported before.
ReportDependencies(c, D) ==
  LET met == {e \in D \intersect ControlEdges : Dag /\ e[2] \notin c.skipped}
  IN  [c EXCEPT !.ready = @ \union met, !.skip = @ \ met]

\* reportSkip of the pairs K, in any order.  A channel that is told of a
\* skip is Skipped when each of its control predecessors is.
ReportSkip(c, K) ==
  LET met    == K \intersect ControlEdges
      skips  == c.skip \union met
      told   == {d \in Dst : Preds(K, d) # {}}
  IN  [c EXCEPT !.skip = skips,
                !.ready = @ \ met,
                !.data = @ \union (K \intersect DataEdges),
                !.skipped = (@ \ told) \union
                            {d \in told : Preds(ControlEdges, d) \subseteq Preds(skips, d)}]

\* Mutant: get does not wait for the data predecessors.
ReadyIgnoresData(c, d) ==
  /\ Dag /\ d \notin c.skipped
  /\ Preds(ControlEdges, d) # {}
  /\ Preds(ControlEdges, d) \subseteq Preds(c.ready \union c.skip, d)

\* The condition under which get of channel d returns a value.
Ready(c, d) ==
  IF Dag
  THEN /\ d \notin c.skipped
       /\ Preds(ControlEdges, d) \union Preds(DataEdges, d) # {}
       /\ Preds(ControlEdges, d) \subseteq Preds(c.ready \union c.skip, d)
       /\ Preds(DataEdges, d) \subseteq Preds(c.data, d)
  ELSE Preds(c.vals, d) # {}

(***************************************************************************)
(* channelManager.reportBranch: when a channel has been skipped by all of  *)
(* its control predecessors, the skip travels on to its successors.  F is  *)
(* the set of skips the branches themselves report.  The code walks a work *)
(* list; the order of the walk does not matter, because a report only adds *)
(* to c.skip: it ends with the least set that is closed under reporting.   *)
(***************************************************************************)

\* All skips reported when the channels in S answer that they are skipped.
SkipsFrom(F, S) == F \union {e \in SuccessorEdges : e[1] \in S}

\* S is closed when no other channel would answer that it is skipped.
SkipClosed(c, F, S) ==
  LET K == SkipsFrom(F, S)
  IN  \A d \in {x \in Dst : Preds(K, x) # {}} :
        Preds(ControlEdges, d) \subseteq Preds(c.skip \union K, d) => d \in S

SkipClosure(c, F) ==
  LET closed == {S \in SUBSET Dst : SkipClosed(c, F, S)}
  IN  {d \in Dst : \A S \in closed : d \in S}

\* Mutant: the skip does not travel on.
ReportBranchOneHop(c, F) == IF ~Dag THEN c ELSE ReportSkip(c, F)

ReportBranch(c, F) ==
  IF ~Dag \/ F = {} THEN c ELSE ReportSkip(c, SkipsFrom(F, SkipClosure(c, F)))

(***************************************************************************)
(* resolveCompletedTasks followed by updateValues and updateDependencies,  *)
(* for the tasks T and the successors pick[t] their branches selected.     *)
(***************************************************************************)

\* What the branches of t may select: each branch any of its endNodes.  A
\* set of selections, with the branches of t united.
Selections(t) ==
  {UNION {f[b] : b \in Branches[t]} :
     f \in {g \in [Branches[t] -> SUBSET BranchEnds(t)] :
              \A b \in Branches[t] : g[b] \subseteq b.ends}}

\* calculateBranch: an end node that no branch of t selected is skipped by t.
Unselected(T, pick) ==
  {e \in T \X Dst : e[2] \in BranchEnds(e[1]) \ pick[e[1]]}

Writes(T, pick) == {e \in T \X Dst : e[2] \in WriteTo[e[1]] \union pick[e[1]]}

Completions(T, pick) == {e \in T \X Dst : e[2] \in Controls[e[1]] \union pick[e[1]]}

UpdateChannels(c, T, pick) ==
  ReportDependencies(
    ReportValues(ReportBranch(c, Unselected(T, pick)), Writes(T, pick)),
    Completions(T, pick))

\* getFromReadyChannels: the channels that hand out a task, and the channels
\* once those have been emptied.
ReadyChannels(c) == {d \in Dst : Ready(c, d)}

Without(E, R) == {e \in E : e[2] \notin R}

\* Mutant: get keeps the values it has handed out.
TakeReadyKeepsValues(c) ==
  LET R == ReadyChannels(c)
  IN  [c EXCEPT !.ready = Without(@, R), !.skip = Without(@, R), !.data = Without(@, R)]

TakeReady(c) ==
  LET R == ReadyChannels(c)
  IN  [c EXCEPT !.ready = Without(@, R), !.skip = Without(@, R),
                !.data = Without(@, R), !.vals = Without(@, R)]
=============================================================================
