--------------------------- MODULE ParallelAgent ---------------------------
(***************************************************************************)
(* The parallel workflow agent (runParallel of src/adk/workflow.go) and    *)
(* the session history it shares with its sub-agents (forkRunCtx,          *)
(* joinRunCtxs and addEvent of src/adk/runctx.go).                         *)
(*                                                                         *)
(* Every sub-agent has a goroutine of its own (flowAgent.run) that records *)
(* its events in the lane forked for it and then sends them, and one of    *)
(* the workflow that passes them on.  An event is <<sub-agent, number,     *)
(* time stamp>>; time stamps may be equal, and a checkpoint does not keep  *)
(* them.  What the sub-agent does is external.                             *)
(***************************************************************************)
EXTENDS Workflow, FiniteSets

CONSTANTS
  Agent,
  MaxRecords  \* bound: events of one sub-agent over all runs

ASSUME ParallelAssumption ==
  /\ IsFiniteSet(Agent) /\ Agent # {}
  /\ MaxRecords \in Nat

VARIABLES
  agent,    \* the sub-agents: "idle", "run", or how they closed their iterator
  reader,   \* the goroutines of the workflow: "idle", "run", "end"
  lane,     \* LaneEvents of the children
  inbox,    \* events and an interrupt sent and not passed on
  session,  \* Session.Events of the parent
  passed,   \* history: events passed on in this run, per sub-agent
  signals,  \* sub-agents in subInterruptSignals
  kept,     \* the state in the checkpoint: who is interrupted, SubAgentEvents
  clock,    \* the time, which passes between two events or not
  recorded  \* history: the events of each sub-agent over all runs, as they were

parallelVars == <<agent, reader, lane, inbox, session, passed, signals, kept,
                  clock, recorded>>

None == [a \in Agent |-> <<>>]
Everywhere(x) == [a \in Agent |-> x]

ParallelInit ==
  /\ agent = Everywhere("idle")
  /\ reader = Everywhere("idle")
  /\ lane = None
  /\ inbox = None
  /\ session = <<>>
  /\ passed = None
  /\ signals = {}
  /\ kept = [interrupted |-> {}, lanes |-> None]
  /\ clock = 1
  /\ recorded = None

\* forkRunCtx, with the events that the interrupt kept: they have no time stamp.
Fork(a) == kept.lanes[a]

\* Sub-agents to run, or to resume (getNextResumeAgents).
ToRun == IF runs = 1 THEN Agent ELSE kept.interrupted

Start ==
  /\ pc = "start"
  /\ pc' = "run"
  /\ lane' = [a \in Agent |-> Fork(a)]
  /\ agent' = [a \in Agent |-> IF a \in ToRun THEN "run" ELSE agent[a]]
  /\ reader' = [a \in Agent |-> IF a \in ToRun THEN "run" ELSE "end"]
  /\ UNCHANGED <<inbox, session, passed, signals, kept, clock, recorded, runs>>

-----------------------------------------------------------------------------
(* The sub-agents. *)

\* addEvent, then Send: nobody but the sub-agent looks at its lane in between.
Emit(a) ==
  /\ agent[a] = "run"
  /\ Len(recorded[a]) < MaxRecords
  /\ \E now \in {clock, clock + 1} :
       LET e == <<a, Len(recorded[a]) + 1, now>> IN
         /\ clock' = now
         /\ lane' = [lane EXCEPT ![a] = Append(@, e)]
         /\ recorded' = [recorded EXCEPT ![a] = Append(@, e)]
         /\ inbox' = [inbox EXCEPT ![a] = Append(@, e)]
  /\ UNCHANGED <<pc, agent, reader, session, passed, signals, kept, runs>>

\* It ends: well, after an error (an event like others), or with an interrupt,
\* which is sent but not recorded.
Close(a) ==
  /\ agent[a] = "run"
  /\ \E how \in {"finished", "failed", "interrupted"} :
       agent' = [agent EXCEPT ![a] = how]
  /\ UNCHANGED <<pc, reader, lane, inbox, session, passed, signals, kept, clock,
                 recorded, runs>>

-----------------------------------------------------------------------------
(* The workflow. *)

PassOn(a) ==
  /\ reader[a] = "run"
  /\ inbox[a] # <<>>
  /\ passed' = [passed EXCEPT ![a] = Append(@, Head(inbox[a]))]
  /\ inbox' = [inbox EXCEPT ![a] = Tail(@)]
  /\ UNCHANGED <<pc, agent, reader, lane, session, signals, kept, clock, recorded, runs>>

\* Mutant: the iterator of a failed sub-agent is never closed.
EndOfEventsHangs(a) ==
  /\ reader[a] = "run"
  /\ inbox[a] = <<>>
  /\ agent[a] \in {"finished", "interrupted"}
  /\ reader' = [reader EXCEPT ![a] = "end"]
  /\ signals' = IF agent[a] = "interrupted" THEN signals \union {a} ELSE signals
  /\ UNCHANGED <<pc, agent, lane, inbox, session, passed, kept, clock, recorded, runs>>

\* The interrupt comes, or the iterator is closed.
EndOfEvents(a) ==
  /\ reader[a] = "run"
  /\ inbox[a] = <<>>
  /\ agent[a] # "run"
  /\ reader' = [reader EXCEPT ![a] = "end"]
  /\ signals' = IF agent[a] = "interrupted" THEN signals \union {a} ELSE signals
  /\ UNCHANGED <<pc, agent, lane, inbox, session, passed, kept, clock, recorded, runs>>

\* wg.Wait()
Waited == \A a \in Agent : reader[a] = "end"

InTime(s) == \A j, k \in DOMAIN s : j < k => s[j][3] <= s[k][3]

\* joinRunCtxs: the events of all lanes by their time stamps, unless there is
\* one lane only. Two events may have the same, and sort.Slice leaves open
\* which of them comes first.
Joined ==
  IF Cardinality(Agent) = 1 THEN Range(lane)
  ELSE {s \in SetToSeqs(UNION {ToSet(lane[a]) : a \in Agent}) : InTime(s)}

Join ==
  /\ pc = "run"
  /\ Waited /\ signals = {}
  /\ pc' = "done"
  /\ \E events \in Joined : session' = session \o events
  /\ UNCHANGED <<agent, reader, lane, inbox, passed, signals, kept, clock, recorded, runs>>

\* GobEncode of an event leaves out its time stamp, a field that is not
\* exported: it is zero, before every other, when the event is read again.
WithoutStamp(e) == <<e[1], e[2], 0>>

\* Mutant: only what the interrupted ones recorded is kept.
KeptLanesOfInterrupted(a) ==
  IF a \in signals THEN [n \in DOMAIN lane[a] |-> WithoutStamp(lane[a][n])] ELSE <<>>

KeptLanes(a) == [n \in DOMAIN lane[a] |-> WithoutStamp(lane[a][n])]

\* CompositeInterrupt of all the interrupts, with the events of all lanes.
Interrupt ==
  /\ pc = "run"
  /\ Waited /\ signals # {}
  /\ pc' = "interrupted"
  /\ kept' = [interrupted |-> signals, lanes |-> [a \in Agent |-> KeptLanes(a)]]
  /\ UNCHANGED <<agent, reader, lane, inbox, session, passed, signals, clock, recorded, runs>>

ResumeParallel ==
  /\ NextRun
  /\ reader' = Everywhere("idle")
  /\ lane' = None
  /\ inbox' = None
  /\ passed' = None
  /\ signals' = {}
  /\ UNCHANGED <<agent, session, kept, clock, recorded>>

LaneWork(a) == Emit(a) \/ Close(a) \/ PassOn(a) \/ EndOfEvents(a)

ParallelWork == Start \/ Join \/ Interrupt

-----------------------------------------------------------------------------

\* An event whatever became of its time stamp, and when it was recorded.
Which(e) == <<e[1], e[2]>>
RecordedAt(e) == recorded[e[1]][e[2]][3]

\* The event is older than the last interrupt.
WasKept(e) == e[2] <= Len(kept.lanes[e[1]])

(* When the workflow is done its history has every event of every          *)
(* sub-agent exactly once, through all the interrupts there were: first,   *)
(* in any order, what is older than the last of them, and then the rest in *)
(* chronological order.                                                    *)
HistoryWhole ==
  pc = "done" =>
    /\ \A j, k \in DOMAIN session : Which(session[j]) = Which(session[k]) => j = k
    /\ {Which(e) : e \in ToSet(session)} =
         {Which(e) : e \in UNION {ToSet(recorded[a]) : a \in Agent}}
    /\ \A j, k \in DOMAIN session : j < k =>
         \/ WasKept(session[j])
         \/ /\ ~ WasKept(session[k])
            /\ RecordedAt(session[j]) <= RecordedAt(session[k])

(* When the workflow sends its interrupt it has passed on everything that  *)
(* its sub-agents sent before, and no interrupt of theirs is lost: each    *)
(* of them will be resumed.                                                *)
InterruptIsLast ==
  pc = "interrupted" =>
    /\ \A a \in Agent : inbox[a] = <<>>
    /\ kept.interrupted = {a \in Agent : agent[a] = "interrupted"}

(* Nothing a lane has sent is lost: no event, and no interrupt.            *)
NoLaneLost == HistoryWhole /\ InterruptIsLast

=============================================================================
