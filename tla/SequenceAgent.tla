--------------------------- MODULE SequenceAgent ---------------------------
(***************************************************************************)
(* The sequential and the loop workflow agents (runSequential and runLoop  *)
(* of src/adk/workflow.go): sub-agents one after the other, a loop round   *)
(* after round, across interrupts and resumptions.                         *)
(*                                                                         *)
(* A sub-agent is external: it sends events through an iterator (see       *)
(* UnboundedChan) and closes it; nothing comes after an interrupt.  Events *)
(* can be followed by others whatever their action: a sub-agent that is a  *)
(* sequential workflow itself passes a BreakLoop on and goes on.           *)
(***************************************************************************)
EXTENDS Workflow

CONSTANTS
  Agents,         \* how many sub-agents there are
  MaxIterations,  \* maxIterations of a loop, which may be 0 for no limit
  MaxEvents,      \* bound: events of one sub-agent in one run of it
  MaxRounds       \* bound: rounds of a loop without limit

ASSUME SequenceAssumption ==
  /\ Agents \in Nat \ {0}
  /\ MaxIterations \in Nat /\ MaxEvents \in Nat /\ MaxRounds \in Nat

Sub == 0 .. (Agents - 1)

\* Events by their action; "message" and "error" have none.  A "break" is a
\* BreakLoop that is not Done; one that an inner loop has taken is an "action".
Kind == {"message", "error", "action", "exit", "break", "interrupt"}
HasAction(e) == e \in {"action", "exit", "break", "interrupt"}

Loop == mode = "loop"

VARIABLES
  iter,     \* i of runLoop
  idx,      \* j of runLoop, i of runSequential
  startIdx, \* where the round starts
  resume,   \* seqState or loopState is not nil
  pending,  \* lastActionEvent, if any
  events,   \* history: what the sub-agent sent in its current run
  out,      \* history: what was sent on of that
  visit,    \* history: the last sub-agent that was run or resumed
  place     \* LoopIterations and SubAgentIndex, or InterruptIndex, as saved

sequenceVars == <<iter, idx, startIdx, resume, pending, events, out, visit, place>>

SequenceInit ==
  /\ iter = 0
  /\ idx = 0
  /\ startIdx = 0
  /\ resume = FALSE
  /\ pending = <<>>
  /\ events = <<>>
  /\ out = <<>>
  /\ visit = <<>>
  /\ place = [iter |-> 0, idx |-> 0]

\* The loops have not come to their end.
MoreRounds == IF Loop THEN MaxIterations = 0 \/ iter < MaxIterations ELSE iter = 0
MoreAgents == idx < Agents

\* Mutant: whoever comes after the resumed sub-agent is resumed too.
StartAgentResumes ==
  /\ pc = "start"
  /\ MoreRounds /\ MoreAgents
  /\ iter < MaxRounds
  /\ visit' = <<iter, idx, resume>>
  /\ pc' = "read"
  /\ events' = <<>>
  /\ out' = <<>>
  /\ UNCHANGED <<iter, idx, startIdx, resume, pending, place, runs>>

\* The next sub-agent is run, or resumed if it is the first after an interrupt.
StartAgent ==
  /\ pc = "start"
  /\ MoreRounds /\ MoreAgents
  /\ iter < MaxRounds
  /\ visit' = <<iter, idx, resume>>
  /\ resume' = FALSE
  /\ pc' = "read"
  /\ events' = <<>>
  /\ out' = <<>>
  /\ UNCHANGED <<iter, idx, startIdx, pending, place, runs>>

\* The next round starts with the first sub-agent.
EndRound ==
  /\ pc = "start"
  /\ MoreRounds /\ ~MoreAgents
  /\ iter' = iter + 1
  /\ startIdx' = 0
  /\ idx' = 0
  /\ UNCHANGED <<pc, resume, pending, events, out, visit, place, runs>>

EndOfRounds ==
  /\ pc = "start"
  /\ ~MoreRounds
  /\ pc' = "done"
  /\ UNCHANGED <<iter, idx, startIdx, resume, pending, events, out, visit, place, runs>>

MayEmit == pc = "read" /\ Len(events) < MaxEvents /\ ~Contains(events, "interrupt")

\* A sequence stops at an error, and the event held back is not sent.
ReceiveError ==
  /\ MayEmit
  /\ ~Loop
  /\ events' = Append(events, "error")
  /\ out' = Append(out, "error")
  /\ pending' = <<>>
  /\ pc' = "failed"
  /\ UNCHANGED <<iter, idx, startIdx, resume, visit, place, runs>>

\* Mutant: the action held back gives way to the event after it.
ReceiveForgets(e) ==
  /\ MayEmit
  /\ Loop \/ e # "error"
  /\ events' = Append(events, e)
  /\ out' = IF HasAction(e) THEN out ELSE Append(out, e)
  /\ pending' = IF HasAction(e) THEN <<e>> ELSE pending
  /\ UNCHANGED <<pc, iter, idx, startIdx, resume, visit, place, runs>>

\* An event with an action is held back until it is known whether it is the last.
Receive(e) ==
  /\ MayEmit
  /\ Loop \/ e # "error"
  /\ events' = Append(events, e)
  /\ out' = out \o pending \o (IF HasAction(e) THEN <<>> ELSE <<e>>)
  /\ pending' = IF HasAction(e) THEN <<e>> ELSE <<>>
  /\ UNCHANGED <<pc, iter, idx, startIdx, resume, visit, place, runs>>

LastAction == IF pending = <<>> THEN "message" ELSE pending[1]

\* The sub-agent closed its iterator.
Closed == pc = "read" /\ pending' = <<>> /\ out' = out \o pending

\* CompositeInterrupt with where the workflow is.
InterruptSequence ==
  /\ Closed
  /\ LastAction = "interrupt"
  /\ pc' = "interrupted"
  /\ place' = [iter |-> iter, idx |-> idx]
  /\ UNCHANGED <<iter, idx, startIdx, resume, events, visit, runs>>

\* Exit, or doBreakLoopIfNeeded.
Ends(e) == e = "exit" \/ (Loop /\ e = "break")

Exit ==
  /\ Closed
  /\ Ends(LastAction)
  /\ pc' = "done"
  /\ UNCHANGED <<iter, idx, startIdx, resume, events, visit, place, runs>>

NextAgent ==
  /\ Closed
  /\ LastAction # "interrupt" /\ ~Ends(LastAction)
  /\ pc' = "start"
  /\ idx' = idx + 1
  /\ UNCHANGED <<iter, startIdx, resume, events, visit, place, runs>>

\* Resume with the state that the interrupt saved.
ResumeSequence ==
  /\ NextRun
  /\ iter' = place.iter
  /\ idx' = place.idx
  /\ startIdx' = place.idx
  /\ resume' = TRUE
  /\ UNCHANGED <<pending, events, out, visit, place>>

SequenceWork ==
  \/ StartAgent \/ EndRound \/ EndOfRounds
  \/ ReceiveError \/ (\E e \in Kind : Receive(e))
  \/ InterruptSequence \/ Exit \/ NextAgent

-----------------------------------------------------------------------------
\* What a sequence drops: an action directly before an error.
PassedOn(s) ==
  LET n == Len(s) IN
    IF ~Loop /\ n > 1 /\ s[n] = "error" /\ HasAction(s[n - 1])
    THEN Append(SubSeq(s, 1, n - 2), "error") ELSE s

(* Every event of a sub-agent is passed on, once and in its order: what    *)
(* lastActionEvent holds back loses none and overtakes none, except an     *)
(* action right before an error in a sequence.                             *)
EventsInOrder == out \o pending = PassedOn(events)

(* Sub-agents run in their order, round after round, as if there were no   *)
(* interrupts: what is started is the next one, or after an interrupt the  *)
(* one that interrupted, which is resumed and never run anew.              *)
InOrder ==
  [][visit' # visit /\ visit # <<>> =>
       \/ visit' = <<visit[1], visit[2] + 1, FALSE>>
       \/ visit[2] = Agents - 1 /\ visit' = <<visit[1] + 1, 0, FALSE>>
       \/ Contains(out, "interrupt") /\ visit' = <<visit[1], visit[2], TRUE>>
  ]_<<workflowVars, sequenceVars>>

(* After the last word of a sub-agent was an exit, or a break in a loop,   *)
(* no sub-agent is started any more, by resumptions neither.               *)
LastWordCounts ==
  [][pc = "start" /\ pc' = "read" /\ out # <<>> =>
       Last(out) \notin (IF Loop THEN {"exit", "break"} ELSE {"exit", "error"})
  ]_<<workflowVars, sequenceVars>>

(* Sub-agents take turns as if there were no interrupts, until the last    *)
(* word of one of them ends the workflow.                                  *)
TurnsInOrder == InOrder /\ LastWordCounts

=============================================================================
