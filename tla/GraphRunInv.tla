---------------------------- MODULE GraphRunInv ----------------------------
(***************************************************************************)
(* The inductive invariants behind the theorems of GraphRunProofs.         *)
(***************************************************************************)
EXTENDS GraphRun

\* No interrupt of the two kinds is mixed: either every wait takes all tasks,
\* or there is no node to interrupt before or after.  SaveHit may lose tasks
\* otherwise.
Unmixed == NeedAll \/ InterruptBefore \union InterruptAfter = {}

\* Every task that was handed out is in exactly one place until its output
\* is passed on: nextTasks, the task manager, or one of the lists of received
\* and given up tasks; or it is in the checkpoint.  Inductive if Unmixed.
Where ==
  CASE pc = "loop"                          -> next \union running
    [] pc \in {"wait", "resolve"}           -> running \union got \union timedOut
    [] pc \in {"drainRerun", "saveRerun"}   -> running \union got \union more \union timedOut
    [] pc = "saveHit"                       -> next
    [] OTHER                                -> hist.owed

TasksAccounted ==
  /\ pc # "stopped" => result = "none"
  /\ pc # "drainHit"
  /\ hist.owed = Where
  /\ pc = "idle" => running = {} /\ hist.owed = {}
  /\ pc \in {"wait", "resolve"} => more = {}
  /\ pc \in {"wait", "resolve", "drainRerun", "saveRerun"} =>
       /\ running \intersect (got \union more \union timedOut) = {}
       /\ timedOut \intersect (got \union more) = {}
       /\ \A n \in got \union more : out[n] # "none"
  /\ pc \in {"drainRerun", "saveRerun"} => \A n \in got : out[n] # "err"
  /\ pc = "saveRerun" => running = {}
  /\ pc = "saveHit" => more = {} /\ timedOut = {}
  /\ pc = "resolve" /\ (NeedAll \/ canceled) => running = {}
  /\ saved.present => /\ saved.hist.owed = saved.inputs \union saved.rerun
                      /\ saved.inputs \intersect saved.rerun = {}
  /\ NoTaskLost

\* The part of a call in which a node to interrupt before or after has been
\* seen is never the part that starts tasks.  Inductive.
HitsAccounted ==
  /\ pc = "idle" => running = {} /\ ~saved.present
  /\ pc \in {"saveRerun", "saveHit"} => running = {}
  /\ pc = "loop" =>
       \A n \in next \intersect InterruptBefore :
         saved.present /\ n \in saved.before \union saved.rerun
  /\ pc \in {"drainHit", "saveHit"} => next \intersect InterruptBefore \subseteq before
  /\ saved.present => saved.inputs \intersect InterruptBefore \subseteq saved.before
  /\ pc \in {"idle", "loop", "wait", "resolve"} =>
       \A n \in InterruptAfter :
         hist.times[n] = IF saved.present THEN saved.hist.times[n] ELSE 0
  /\ BeforeHonoured

\* A run that is about to save tasks to run again has one.
RerunsKnown == pc \in {"drainRerun", "saveRerun"} => Interrupted(got) \union timedOut # {}

\* A task that has succeeded carries one of the selections of its branches,
\* and so does the input of the graph.  Inductive.
PicksKnown ==
  /\ pc = "idle" <=> runs = 0
  /\ pc = "idle" => pick[START] \in Selections(START)
  /\ \A n \in Node : out[n] = "ok" => pick[n] \in Selections(n)

\* What a step of the loop has to know to be a part of a super step: what the
\* branches selected, that a run that is saved for the sake of an interrupted
\* or given up task does not end its super step, that one that is saved after
\* a super step has an empty inbox, and that an interrupted run is as it was
\* saved.  Inductive if NeedAll.
StepsAccounted ==
  /\ PicksKnown
  /\ RerunsKnown
  /\ pc = "saveHit" => chan.vals = {}
  /\ result = "interrupt" => saved.present /\ saved.chan = chan /\ saved.hist = hist

\* The inductive invariant: where every task and every hit is, at every point
\* of the loop, whatever fails, interrupts, is given up or is resumed.
IInv == TypeOK /\ HitsAccounted /\ TasksAccounted

(***************************************************************************)
(* What the channels of an AllPredecessor graph know of the run: taken are *)
(* the nodes that were handed a task, D the sources whose output has been  *)
(* resolved.  A source is settled when it is one of these or was skipped.  *)
(***************************************************************************)

\* The predecessors a channel waits for.
Leads(d) == Preds(ControlEdges, d) \union Preds(DataEdges, d)

\* A channel that has handed out nothing knows of each predecessor exactly
\* when that is settled; it is skipped when all its control predecessors
\* are, and, if it has none, as soon as it is told of a skip.
Informed(c, D, d) ==
  /\ \A s \in Preds(ControlEdges, d) : <<s, d>> \in c.ready \union c.skip <=> s \in D \union c.skipped
  /\ \A s \in Preds(DataEdges, d) :
       /\ <<s, d>> \in c.data => s \in D \union c.skipped
       /\ s \in D \union c.skipped => d \in c.skipped \/ <<s, d>> \in c.data
  /\ d \in c.skipped => Preds(ControlEdges, d) \subseteq Preds(c.skip, d)
  /\ Preds(ControlEdges, d) # {} /\ Preds(ControlEdges, d) \subseteq Preds(c.skip, d) => d \in c.skipped
  /\ Preds(ControlEdges, d) = {} /\ Preds(DataEdges, d) \intersect c.skipped # {} => d \in c.skipped

\* A channel that has handed out its task never hands out another: all its
\* predecessors are settled, and one that finished does not report again.
Spent(c, D, d) ==
  /\ Leads(d) \subseteq D \union c.skipped
  /\ \/ \E z \in Preds(ControlEdges, d) \intersect D : <<z, d>> \notin c.ready \union c.skip
     \/ /\ Preds(ControlEdges, d) = {} /\ Leads(d) # {}
        /\ Preds(DataEdges, d) \intersect c.skipped = {} /\ Preds(c.data, d) = {}

ChannelsSettled(c, taken, D) ==
  /\ D \ {START} \subseteq taken
  /\ taken \intersect c.skipped = {}
  /\ \A s \in Src, d \in Dst : <<s, d>> \in c.ready => s \in D
  /\ \A d \in Dst \ taken : Informed(c, D, d)
  /\ \A d \in taken : Spent(c, D, d)

\* The same of a history.  When nothing is owed no channel is ready, so that
\* a run that is taken up again has something to do or is stuck for good.
Resolved(h) == {START} \union {n \in Node : h.times[n] > 0}

HistorySettled(c, h) ==
  /\ ChannelsSettled(c, h.taken, Resolved(h))
  /\ h.owed = h.taken \ Resolved(h)
  /\ h.owed = {} => ReadyChannels(c) = {}

\* Inductive if Unmixed.
SettlesAccounted ==
  /\ RerunsKnown
  /\ pc = "resolve" => running = {} \/ got # {}
  /\ IF pc = "idle" THEN hist = NoHistory /\ chan = InitChannels
     ELSE result # "end" => HistorySettled(chan, hist)
  /\ saved.present => HistorySettled(saved.chan, saved.hist)
  /\ result = "noTask" => hist.owed = {}

\* What is asked of a graph so that END is reached or skipped: everything has
\* a predecessor, and nothing waits for itself.  Of the control edges compile
\* sees to the second (validateDAG); a data edge that does not order is
\* documented to need another path of dependencies (WithNoDirectDependency).
Orderly ==
  /\ \A d \in Dst : Leads(d) # {}
  /\ \A S \in SUBSET Dst : S # {} => \E d \in S : Leads(d) \intersect S = {}

(***************************************************************************)
(* What the channels hold compared with Dataflow, the specification of the *)
(* AllPredecessor mode: D are the sources that have finished, sel what     *)
(* their branches selected.                                                *)
(***************************************************************************)

\* The skipped channels are those that nothing can lead to any more.  One
\* that has handed out nothing knows of each control predecessor whether it
\* led elsewhere, and, unless it is skipped, holds what was delivered to it;
\* one that has handed out its task was led to.
FlowSettled(c, taken, D, sel) ==
  /\ c.skipped = Abstract!Skipped(D, sel)
  /\ \A d \in Dst \ taken :
       /\ \A s \in Preds(ControlEdges, d) :
            <<s, d>> \in c.skip <=> s \in c.skipped \/ (s \in D /\ ~Abstract!LeadsTo(D, sel, s, d))
       /\ d \notin c.skipped => Preds(c.vals, d) = Abstract!InputOf(D, sel, d)
  /\ \A d \in taken : \E s \in Preds(ControlEdges, d) : Abstract!LeadsTo(D, sel, s, d)

HistoryFlows(c, h) == FlowSettled(c, h.taken, Resolved(h), h.chosen)

\* Inductive if Unmixed, Ordered and Separate.
FlowAccounted ==
  /\ PicksKnown
  /\ SettlesAccounted
  /\ pc = "saveHit" => ReadyChannels(chan) = {}
  /\ pc # "idle" /\ result # "end" => HistoryFlows(chan, hist)
  /\ saved.present => HistoryFlows(saved.chan, saved.hist)

\* What takes data depends on something.  A data edge that does not order is
\* documented to need another path of dependencies (WithNoDirectDependency).
Ordered == \A d \in Dst : Preds(ControlEdges, d) = {} => Preds(DataEdges, d) = {}

\* No edge leads where a branch of the same node leads: a branch that does
\* not select the node reports a skip, which wins over the edge when all
\* other predecessors are skipped too.
Separate == \A s \in Src : Controls[s] \intersect BranchEnds(s) = {}
=============================================================================
