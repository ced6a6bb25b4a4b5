---------------------------- MODULE NestedResume ----------------------------
(***************************************************************************)
(* Graphs inside a graph across an interrupt: how the checkpoint of a      *)
(* nested graph reaches it again (src/compose/checkpoint.go, the loops of  *)
(* createTasks and restoreTasks in src/compose/graph_run.go).              *)
(*                                                                         *)
(* The outer graph runs all its nodes in every round, as a cyclic graph    *)
(* does with its super steps, and waits for all of them.  A nested graph   *)
(* runs its own nodes 1..Steps one after the other; its checkpoint is how  *)
(* many are done.  Every node has compile options, so the loops forward    *)
(* the checkpoint for plain nodes too.  Nested graphs have no nested       *)
(* graphs of their own.  What GraphRun says of channels is not repeated.   *)
(***************************************************************************)
EXTENDS Naturals, FiniteSets

CONSTANTS
  Sub,           \* nodes that are graphs
  Plain,         \* the other nodes
  MayInterrupt,  \* the nodes that may interrupt
  Steps,         \* nodes of a nested graph
  MaxRounds,     \* bound: rounds of the outer graph
  MaxFaults      \* bound: interrupts over all calls

Nodes == Sub \union Plain

NestedAssumption ==
  /\ IsFiniteSet(Nodes)
  /\ Sub \intersect Plain = {}
  /\ MayInterrupt \subseteq Nodes
  /\ Steps \in Nat \ {0}
  /\ MaxRounds \in Nat \ {0}
  /\ MaxFaults \in Nat
ASSUME NestedAssumed == NestedAssumption

VARIABLES
  phase,      \* "create" or "restore" tasks, "run" them, "idle" or "end"
  round,
  todo,       \* nodes the loop over the tasks has not come to
  ctx,        \* the checkpoint in the context, as the loop has it now
  subGraphs,  \* SubGraphs of the outer checkpoint, as <<node, steps done>>
  outcome,    \* of the tasks: "running", "ok" or "interrupt"
  at,         \* steps done in the current visit of a nested graph
  checkpoint, \* the outer checkpoint in the store: RerunNodes and SubGraphs
  runs,       \* history: how often step k of nested graph n ran this visit
  faults      \* history: interrupts so far

nestedVars == <<phase, round, todo, ctx, subGraphs, outcome, at, checkpoint, runs, faults>>

Progress == 0 .. Steps

\* What checkPointKey holds: the outer checkpoint, one of a nested graph
\* that has done some steps, or nothing.
TopGraph == [of |-> "root", done |-> 0]
NoCheckpoint == [of |-> "nothing", done |-> 0]
Nested(k) == [of |-> "nested", done |-> k]

NoRuns == [e \in Sub \X (1 .. Steps) |-> 0]

NestedInit ==
  /\ phase = "create"
  /\ round = 1
  /\ todo = Nodes
  /\ ctx = NoCheckpoint
  /\ subGraphs = {}
  /\ outcome = [n \in {} |-> "ok"]
  /\ at = [n \in Sub |-> 0]
  /\ checkpoint = [rerun |-> {}, subGraphs |-> {}]
  /\ runs = NoRuns
  /\ faults = 0

\* Mutant: leaves the checkpoint where it was.
forwardCheckPointKeeps(n) ==
  \/ /\ ctx = TopGraph
     /\ \E k \in Progress : <<n, k>> \in subGraphs /\ ctx' = Nested(k)
     /\ UNCHANGED subGraphs
  \/ /\ ctx = TopGraph
     /\ \A k \in Progress : <<n, k>> \notin subGraphs
     /\ ctx' = NoCheckpoint
     /\ UNCHANGED subGraphs
  \/ ctx # TopGraph /\ ctx' = NoCheckpoint /\ UNCHANGED subGraphs

\* forwardCheckPoint: the outer checkpoint gives up that of n, once; in the
\* checkpoint of a nested graph, and in none, there is nothing for n.
forwardCheckPoint(n) ==
  \/ /\ ctx = TopGraph
     /\ \E k \in Progress : /\ <<n, k>> \in subGraphs
                            /\ ctx' = Nested(k)
                            /\ subGraphs' = subGraphs \ {<<n, k>>}
  \/ /\ ctx = TopGraph
     /\ \A k \in Progress : <<n, k>> \notin subGraphs
     /\ ctx' = NoCheckpoint
     /\ UNCHANGED subGraphs
  \/ ctx # TopGraph /\ ctx' = NoCheckpoint /\ UNCHANGED subGraphs

\* One turn of the loop of createTasks or restoreTasks, in map order.  The
\* forwarded context stays for the turns that follow.  A nested graph that
\* finds a checkpoint in its context starts from it.
Create(n) ==
  /\ phase \in {"create", "restore"}
  /\ n \in todo
  /\ todo' = todo \ {n}
  /\ forwardCheckPoint(n)
  /\ at' = [s \in Sub |-> IF s = n THEN ctx'.done ELSE at[s]]
  /\ outcome' = [m \in DOMAIN outcome \union {n} |->
                   IF m = n THEN "running" ELSE outcome[m]]
  /\ phase' = IF todo' = {} THEN "run" ELSE phase
  /\ UNCHANGED <<round, checkpoint, runs, faults>>

Running(n) == phase = "run" /\ n \in DOMAIN outcome /\ outcome[n] = "running"

StepOnce(n) ==
  /\ Running(n)
  /\ at[n] < Steps
  /\ at' = [at EXCEPT ![n] = @ + 1]
  /\ runs' = [runs EXCEPT ![<<n, at[n] + 1>>] = @ + 1]
  /\ UNCHANGED <<phase, round, todo, ctx, subGraphs, outcome, checkpoint, faults>>

Complete(n) ==
  /\ Running(n)
  /\ n \in Sub => at[n] = Steps
  /\ outcome' = [outcome EXCEPT ![n] = "ok"]
  /\ UNCHANGED <<phase, round, todo, ctx, subGraphs, at, checkpoint, runs, faults>>

Interrupt(n) ==
  /\ Running(n)
  /\ n \in MayInterrupt /\ faults < MaxFaults
  /\ n \in Sub => at[n] < Steps
  /\ outcome' = [outcome EXCEPT ![n] = "interrupt"]
  /\ faults' = faults + 1
  /\ UNCHANGED <<phase, round, todo, ctx, subGraphs, at, checkpoint, runs>>

Interrupted == {n \in DOMAIN outcome : outcome[n] = "interrupt"}

AllWaited == phase = "run" /\ \A n \in DOMAIN outcome : outcome[n] # "running"

\* The tasks of the round have ended well: calculateNextTasks goes on to
\* createTasks, with the context of run.
NextRound ==
  /\ AllWaited /\ Interrupted = {}
  /\ round' = round + 1
  /\ IF round = MaxRounds
     THEN phase' = "end" /\ UNCHANGED <<todo, ctx>>
     ELSE phase' = "create" /\ todo' = Nodes /\ ctx' = TopGraph
  /\ outcome' = [n \in {} |-> "ok"]
  /\ runs' = NoRuns
  /\ UNCHANGED <<subGraphs, at, checkpoint, faults>>

\* handleInterruptWithSubGraphAndRerunNodes
Save ==
  /\ AllWaited /\ Interrupted # {}
  /\ checkpoint' = [rerun     |-> Interrupted,
               subGraphs |-> {<<n, at[n]>> : n \in Interrupted \intersect Sub}]
  /\ phase' = "idle"
  /\ UNCHANGED <<round, todo, ctx, subGraphs, outcome, at, runs, faults>>

\* The next call with the checkpoint id.
CallAgain ==
  /\ phase = "idle"
  /\ phase' = "restore"
  /\ todo' = checkpoint.rerun
  /\ ctx' = TopGraph
  /\ subGraphs' = checkpoint.subGraphs
  /\ outcome' = [n \in {} |-> "ok"]
  /\ UNCHANGED <<round, at, checkpoint, runs, faults>>

NestedNext ==
  \/ \E n \in Nodes : Create(n) \/ Complete(n) \/ Interrupt(n)
  \/ \E n \in Sub : StepOnce(n)
  \/ NextRound \/ Save \/ CallAgain

NestedSpec == NestedInit /\ [][NestedNext]_nestedVars

-----------------------------------------------------------------------------
\* An interrupted nested graph goes on where it was: no node of it that
\* completed runs again in the same visit (checkpoint.go:152-163,
\* graph_run.go:771-782, 651-655).
ContinuesWhereItWas == \A e \in DOMAIN runs : runs[e] <= 1

\* A checkpoint is used for the visit that left it and never for a later one
\* ("only forward once", checkpoint.go:159).
NextVisitStartsFresh ==
  [][\A n \in Sub : phase = "create" /\ n \in todo /\ n \notin todo' => at'[n] = 0]_nestedVars

\* An interrupted nested graph goes on from its own checkpoint and runs
\* nothing of it twice, and no later visit of it sees that checkpoint
\* (checkpoint.go:152-163).
NestedGraphsResume == []ContinuesWhereItWas /\ NextVisitStartsFresh

\* What that rests on: never do two nodes interrupt before the outer graph
\* saves.
OneInterrupts == \A m, n \in Interrupted : m = n

=============================================================================
