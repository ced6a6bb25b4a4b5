---------------------------- MODULE AgentsProofs ----------------------------
(***************************************************************************)
(* Of the agents, for any number of sub-agents, tools, turns, rounds and   *)
(* resumptions.  First those of src/adk/workflow.go: sequences and loops   *)
(* pass on what their sub-agents send and let them take turns, and         *)
(* parallel agents lose no lane.  Then the others: the plan-execute-replan *)
(* agent records each step with its own result, the agents that loop       *)
(* between a model and its tools keep their events and return directly,    *)
(* the checkpoint of a Runner serves the interrupt it was made for, an     *)
(* agent that is handed a conversation over is given it, the results of    *)
(* tools stay in reach of the model, and what retrievers find is answered. *)
(***************************************************************************)
EXTENDS Agents, SequenceTheorems, FiniteSetTheorems, TLAPS

(* The sequence and the loop. *)

InSequence == mode \in {"sequential", "loop"}

\* What lastActionEvent holds back is the last event of the sub-agent.
Held ==
  \/ /\ pending = <<>> /\ out = events
     /\ out # <<>> => ~HasAction(Last(out)) /\ (~Loop => Last(out) # "error")
  \/ \E e \in Kind : HasAction(e) /\ pending = <<e>> /\ events = Append(out, e)

HeldBack ==
  /\ events \in Seq(Kind) /\ out \in Seq(Kind)
  /\ pc = "read" => Held /\ (~Loop => \A i \in 1 .. Len(events) : events[i] # "error")
  /\ pc # "read" => pending = <<>> /\ out = PassedOn(events)

\* Last words that end a workflow.
Ending == IF Loop THEN {"exit", "break"} ELSE {"exit", "error"}

Interrupted == out # <<>> /\ Last(out) = "interrupt" /\ visit # <<>>

\* Where the loops are, and which sub-agent was the last to be started.
Position ==
  /\ iter \in Nat /\ idx \in Nat /\ idx <= Agents /\ resume \in BOOLEAN
  /\ visit # <<>> => visit \in Nat \X Sub \X BOOLEAN
  /\ pc = "start" =>
       /\ out # <<>> => Last(out) \notin Ending
       /\ resume => Interrupted /\ idx < Agents /\ visit[1] = iter /\ visit[2] = idx
       /\ visit # <<>> /\ ~resume =>
            \/ visit[1] = iter /\ visit[2] + 1 = idx
            \/ visit[1] + 1 = iter /\ visit[2] = Agents - 1 /\ idx = 0
  /\ pc \in {"read", "interrupted"} =>
       visit # <<>> /\ ~resume /\ visit[1] = iter /\ visit[2] = idx
  /\ pc = "interrupted" => Interrupted /\ place = [iter |-> iter, idx |-> idx]

Unused == events = <<>> /\ out = <<>> /\ pending = <<>> /\ visit = <<>>

SequenceInv ==
  /\ InSequence => HeldBack /\ Position
  /\ ~InSequence => Unused

\* What is sent on is the events of a sub-agent up to what is held back.
LEMMA HeldEvents ==
  ASSUME HeldBack, pc = "read"
  PROVE  /\ out \o pending = events
         /\ pending = <<>> \/ \E e \in Kind : HasAction(e) /\ pending = <<e>>
<1>1. CASE pending = <<>> /\ out = events
  BY <1>1 DEF HeldBack
<1>2. CASE \E e \in Kind : HasAction(e) /\ pending = <<e>> /\ events = Append(out, e)
  BY <1>2 DEF HeldBack
<1>. QED
  BY <1>1, <1>2 DEF HeldBack, Held

\* Unless an error ends them, events are passed on as they are.
LEMMA PassedWhole ==
  ASSUME NEW s \in Seq(Kind), Loop \/ \A i \in 1 .. Len(s) : s[i] # "error"
  PROVE  PassedOn(s) = s
<1>1. Len(s) \in Nat
  OBVIOUS
<1>. QED
  BY <1>1 DEF PassedOn

\* Nothing is held back at first.
LEMMA SequenceInitial == Init => SequenceInv
<1>. SUFFICES ASSUME Init
             PROVE  HeldBack /\ Position
  BY DEF SequenceInv, Unused, Init, SequenceInit
<1>1. pc = "start" /\ events = <<>> /\ out = <<>> /\ pending = <<>>
  BY DEF Init, WorkflowInit, SequenceInit
<1>2. PassedOn(<<>>) = <<>>
  <2>1. <<>> \in Seq(Kind) /\ Len(<<>>) = 0
    OBVIOUS
  <2>. QED
    BY <2>1 DEF PassedOn
<1>3. HeldBack
  BY <1>1, <1>2 DEF HeldBack
<1>4. iter = 0 /\ idx = 0 /\ resume = FALSE /\ visit = <<>>
  BY DEF Init, SequenceInit
<1>5. 0 \in Nat /\ 0 <= Agents
  BY SequenceAssumption
<1>. QED
  BY <1>1, <1>3, <1>4, <1>5 DEF Position

\* An event is sent on, or held back in place of the one before.
LEMMA ReceiveHeld ==
  ASSUME SequenceInv, InSequence, NEW e \in Kind, Receive(e), mode' = mode
  PROVE  SequenceInv'
<1>. USE DEF Receive, MayEmit
<1>1. HeldBack /\ Position /\ pc = "read" /\ pc' = "read" /\ Loop' = Loop
  BY DEF SequenceInv, Loop
<1>2. out \o pending = events /\ events \in Seq(Kind)
  BY <1>1, HeldEvents DEF HeldBack
<1>3. events' = Append(events, e) /\ events' \in Seq(Kind)
  BY <1>2
<1>4. ~Loop => \A i \in 1 .. Len(events') : events'[i] # "error"
  BY <1>1, <1>2, <1>3 DEF HeldBack
<1>5. CASE HasAction(e)
  <2>1. pending' = <<e>> /\ out' = out \o pending \o <<>>
    BY <1>5
  <2>2. out' = events
    BY <2>1, <1>2
  <2>. QED
    BY <1>1, <1>2, <1>3, <1>4, <1>5, <2>1, <2>2
    DEF HeldBack, Held, Position, SequenceInv, InSequence, HasAction
<1>6. CASE ~HasAction(e)
  <2>1. pending' = <<>> /\ out' = out \o pending \o <<e>>
    BY <1>6
  <2>2. out' = Append(events, e)
    BY <2>1, <1>2
  <2>3. Last(out') = e /\ (~Loop => e # "error")
    BY <2>2, <1>2 DEF Last
  <2>. QED
    BY <1>1, <1>2, <1>3, <1>4, <1>6, <2>1, <2>2, <2>3
    DEF HeldBack, Held, Position, SequenceInv, InSequence, HasAction, Last
<1>. QED
  BY <1>5, <1>6

\* A sequence stops at an error and drops what is held back before it.
LEMMA ErrorHeld ==
  ASSUME SequenceInv, InSequence, ReceiveError, mode' = mode
  PROVE  SequenceInv'
<1>. USE DEF ReceiveError, MayEmit
<1>1. HeldBack /\ Position /\ pc = "read" /\ pc' = "failed" /\ ~Loop /\ Loop' = Loop
  BY DEF SequenceInv, Loop
<1>2. events \in Seq(Kind) /\ out \in Seq(Kind)
  BY <1>1 DEF HeldBack
<1>3. events' = Append(events, "error") /\ out' = Append(out, "error") /\ pending' = <<>>
  OBVIOUS
<1>4. events' \in Seq(Kind) /\ out' \in Seq(Kind)
  BY <1>2, <1>3 DEF Kind
<1>5. out' = PassedOn(events)'
  <2>1. Len(events') = Len(events) + 1 /\ events'[Len(events')] = "error"
    BY <1>2, <1>3
  <2>2. CASE pending = <<>> /\ out = events /\ (out # <<>> => ~HasAction(Last(out)))
    <3>1. Len(events') > 1 => ~HasAction(events'[Len(events') - 1])
      BY <1>2, <1>3, <2>2 DEF Last
    <3>. QED
      BY <1>3, <2>2, <3>1 DEF PassedOn
  <2>3. CASE \E e \in Kind : HasAction(e) /\ pending = <<e>> /\ events = Append(out, e)
    <3>1. PICK e \in Kind : HasAction(e) /\ events = Append(out, e)
      BY <2>3
    <3>2. Len(events') = Len(out) + 2 /\ events'[Len(events') - 1] = e
      BY <1>2, <1>3, <3>1
    <3>3. SubSeq(events', 1, Len(events') - 2) = out
      BY <1>2, <1>3, <3>1, <3>2
    <3>4. Len(events') > 1
      BY <1>2, <3>2
    <3>. QED
      BY <1>1, <1>3, <2>1, <3>1, <3>2, <3>3, <3>4 DEF PassedOn, HasAction
  <2>. QED
    BY <1>1, <2>2, <2>3 DEF HeldBack, Held
<1>. QED
  BY <1>1, <1>3, <1>4, <1>5 DEF SequenceInv, InSequence, HeldBack, Position

\* The sub-agent closed its iterator: what was held back is its last word.
LEMMA ClosedHeld ==
  ASSUME HeldBack, Closed, pc' # "read", events' = events, mode' = mode
  PROVE  /\ HeldBack'
         /\ out' # <<>> /\ pending = <<>> =>
              ~HasAction(Last(out')) /\ (~Loop => Last(out') # "error")
         /\ pending # <<>> => /\ out' # <<>> /\ Last(out') = LastAction
                              /\ HasAction(LastAction)
<1>. USE DEF Closed
<1>1. out' = events /\ pending' = <<>> /\ events \in Seq(Kind) /\ out \in Seq(Kind)
  BY HeldEvents DEF HeldBack
<1>2. Loop \/ \A i \in 1 .. Len(events) : events[i] # "error"
  BY DEF HeldBack
<1>3. PassedOn(events)' = PassedOn(events)
  BY DEF PassedOn, Loop, HasAction
<1>4. PassedOn(events) = events
  BY <1>1, <1>2, PassedWhole
<1>5. HeldBack'
  BY <1>1, <1>3, <1>4 DEF HeldBack
<1>6. pending = <<>> =>
        out = events /\ (out # <<>> => ~HasAction(Last(out)) /\ (~Loop => Last(out) # "error"))
  BY DEF HeldBack, Held
<1>7. ASSUME pending # <<>>
      PROVE  out' # <<>> /\ Last(out') = LastAction /\ HasAction(LastAction)
  <2>1. PICK e \in Kind : HasAction(e) /\ pending = <<e>> /\ events = Append(out, e)
    BY <1>7 DEF HeldBack, Held
  <2>. QED
    BY <1>1, <1>7, <2>1 DEF LastAction, Last
<1>. QED
  BY <1>1, <1>5, <1>6, <1>7

\* The interrupt is the last word, and the place is saved.
LEMMA InterruptHeld ==
  ASSUME SequenceInv, InSequence, InterruptSequence, mode' = mode
  PROVE  SequenceInv'
<1>1. HeldBack /\ Position /\ pc = "read" /\ pending # <<>>
  BY DEF SequenceInv, InterruptSequence, Closed, LastAction
<1>2. HeldBack' /\ out' # <<>> /\ Last(out') = "interrupt"
  BY <1>1, ClosedHeld DEF InterruptSequence
<1>. QED
  BY <1>1, <1>2 DEF SequenceInv, InSequence, Position, Interrupted, InterruptSequence

\* The last word ends the workflow.
LEMMA ExitHeld ==
  ASSUME SequenceInv, InSequence, Exit, mode' = mode
  PROVE  SequenceInv'
<1>1. HeldBack /\ Position
  BY DEF SequenceInv
<1>2. HeldBack'
  BY <1>1, ClosedHeld DEF Exit
<1>. QED
  BY <1>1, <1>2 DEF SequenceInv, InSequence, Position, Exit

\* It does not, and the next sub-agent has its turn.
LEMMA NextHeld ==
  ASSUME SequenceInv, InSequence, NextAgent, mode' = mode
  PROVE  SequenceInv'
<1>1. HeldBack /\ Position /\ pc = "read" /\ Loop' = Loop
  BY DEF SequenceInv, NextAgent, Closed, Loop
<1>2. HeldBack'
  BY <1>1, ClosedHeld DEF NextAgent
<1>3. out' # <<>> => Last(out') \notin Ending
  <2>1. CASE pending = <<>>
    <3>1. out' # <<>> => ~HasAction(Last(out')) /\ (~Loop => Last(out') # "error")
      BY <1>1, <2>1, ClosedHeld DEF NextAgent
    <3>. QED
      BY <3>1 DEF Ending, HasAction
  <2>2. CASE pending # <<>>
    <3>1. Last(out') = LastAction /\ HasAction(LastAction)
      BY <1>1, <2>2, ClosedHeld DEF NextAgent
    <3>. QED
      BY <3>1 DEF NextAgent, Ends, Ending, HasAction
  <2>. QED
    BY <2>1, <2>2
<1>4. Ending' = Ending
  BY <1>1 DEF Ending
<1>5. visit # <<>> /\ ~resume /\ visit[1] = iter /\ visit[2] = idx /\ visit \in Nat \X Sub \X BOOLEAN
  BY <1>1 DEF Position
<1>6. idx \in Sub
  BY <1>5
<1>7. idx' \in Nat /\ idx' <= Agents /\ visit[2] + 1 = idx'
  BY <1>5, <1>6, SequenceAssumption DEF Sub, NextAgent
<1>. QED
  BY <1>1, <1>2, <1>3, <1>4, <1>5, <1>7 DEF SequenceInv, InSequence, Position, NextAgent

\* The next sub-agent starts with nothing held back.
LEMMA StartHeld ==
  ASSUME SequenceInv, InSequence, StartAgent, mode' = mode
  PROVE  SequenceInv'
<1>1. HeldBack /\ Position /\ pc = "start" /\ pc' = "read"
  BY DEF SequenceInv, StartAgent
<1>2. pending' = <<>> /\ out' = <<>> /\ events' = <<>>
  BY <1>1 DEF HeldBack, StartAgent
<1>3. <<>> \in Seq(Kind) /\ Len(<<>>) = 0
  OBVIOUS
<1>4. HeldBack'
  BY <1>1, <1>2, <1>3 DEF HeldBack, Held
<1>5. visit' = <<iter, idx, resume>> /\ visit' \in Nat \X Sub \X BOOLEAN
  BY <1>1, SequenceAssumption DEF StartAgent, MoreAgents, Position, Sub
<1>6. visit' # <<>> /\ visit'[1] = iter /\ visit'[2] = idx
  BY <1>5
<1>7. iter' = iter /\ idx' = idx /\ resume' = FALSE
  BY DEF StartAgent
<1>. QED
  BY <1>1, <1>4, <1>5, <1>6, <1>7 DEF SequenceInv, InSequence, Position

\* Rounds end and begin between sub-agents only.
LEMMA RoundHeld ==
  ASSUME SequenceInv, InSequence, EndRound \/ EndOfRounds, mode' = mode
  PROVE  SequenceInv'
<1>1. HeldBack /\ Position /\ pc = "start" /\ Ending' = Ending /\ Loop' = Loop
  BY DEF SequenceInv, EndRound, EndOfRounds, Ending, Loop
<1>2. PassedOn(events)' = PassedOn(events)
  BY <1>1 DEF PassedOn, HasAction, EndRound, EndOfRounds
<1>3. HeldBack'
  BY <1>1, <1>2 DEF HeldBack, EndRound, EndOfRounds
<1>4. CASE EndOfRounds
  BY <1>1, <1>3, <1>4 DEF EndOfRounds, SequenceInv, InSequence, Position
<1>5. CASE EndRound
  <2>1. idx = Agents /\ ~resume
    BY <1>1, <1>5, SequenceAssumption DEF EndRound, MoreAgents, Position
  <2>2. visit # <<>> => visit[1] = iter /\ visit[2] = Agents - 1
    BY <1>1, <2>1, SequenceAssumption DEF Position, Sub
  <2>. QED
    BY <1>1, <1>3, <1>5, <2>1, <2>2, SequenceAssumption
    DEF EndRound, SequenceInv, InSequence, Position, Interrupted
<1>. QED
  BY <1>4, <1>5

\* A resumption goes on at the place that was saved.
LEMMA ResumeHeld ==
  ASSUME SequenceInv, InSequence, ResumeSequence, mode' = mode
  PROVE  SequenceInv'
<1>1. HeldBack /\ Position /\ pc = "interrupted" /\ pc' = "start" /\ Loop' = Loop
  BY DEF SequenceInv, ResumeSequence, NextRun, Loop
<1>2. PassedOn(events)' = PassedOn(events)
  BY <1>1 DEF PassedOn, HasAction, ResumeSequence
<1>3. HeldBack'
  BY <1>1, <1>2 DEF HeldBack, ResumeSequence
<1>4. out' = out /\ out # <<>> /\ Last(out) = "interrupt" /\ visit' = visit /\ visit # <<>>
  BY <1>1 DEF Position, Interrupted, ResumeSequence
<1>5. Last(out') \notin Ending'
  BY <1>4 DEF Ending
<1>6. iter' = iter /\ idx' = idx /\ resume' = TRUE /\ place' = place
  BY <1>1 DEF Position, ResumeSequence
<1>7. visit[1] = iter /\ visit[2] = idx /\ idx < Agents
  <2>1. visit[1] = iter /\ visit[2] = idx /\ visit[2] \in Sub
    BY <1>1 DEF Position
  <2>. QED
    BY <2>1, SequenceAssumption DEF Sub
<1>8. Interrupted'
  BY <1>4 DEF Interrupted
<1>. QED
  BY <1>1, <1>3, <1>4, <1>5, <1>6, <1>7, <1>8 DEF SequenceInv, InSequence, Position

\* Other kinds of agents are none of its business.
LEMMA ModeKept ==
  ASSUME [Next]_vars
  PROVE  /\ mode' = mode
         /\ InSequence => \/ Sequence(SequenceWork) \/ Sequence(ResumeSequence)
                          \/ UNCHANGED vars
         /\ ~InSequence => UNCHANGED sequenceVars
         /\ mode # "parallel" => UNCHANGED parallelVars
         /\ mode = "parallel" => \/ Parallel(ParallelWork) \/ Parallel(ResumeParallel)
                                 \/ \E a \in Agent : Parallel(LaneWork(a))
                                 \/ UNCHANGED vars
BY DEF Next, Sequence, Parallel, React, Flow, Planning, Offloading, Retrieving, Retrieves,
       InSequence, vars, workflowVars

\* Every step keeps what is known of a sequence or a loop.
LEMMA SequenceStep == SequenceInv /\ [Next]_vars => SequenceInv'
<1>. SUFFICES ASSUME SequenceInv, [Next]_vars, InSequence
             PROVE  SequenceInv'
  BY ModeKept DEF SequenceInv, InSequence, Unused, sequenceVars
<1>1. mode' = mode
  BY ModeKept
<1>2. CASE Sequence(SequenceWork)
  <2>1. \/ StartAgent \/ EndRound \/ EndOfRounds
        \/ ReceiveError \/ (\E e \in Kind : Receive(e))
        \/ InterruptSequence \/ Exit \/ NextAgent
    BY <1>2 DEF Sequence, SequenceWork
  <2>. QED
    BY <1>1, <2>1, StartHeld, RoundHeld, ErrorHeld, ReceiveHeld, InterruptHeld, ExitHeld,
       NextHeld
<1>3. CASE Sequence(ResumeSequence)
  BY <1>1, <1>3, ResumeHeld DEF Sequence
<1>4. CASE UNCHANGED vars
  BY <1>4 DEF vars, workflowVars, sequenceVars, SequenceInv, InSequence, HeldBack, Held, Position,
              PassedOn, Loop, Interrupted, Ending
<1>. QED
  BY <1>2, <1>3, <1>4, ModeKept

\* The loops are where the sub-agent that was last started says, and what is
\* held back is its last event.
THEOREM SequenceCorrect == Spec => []SequenceInv
BY SequenceInitial, SequenceStep, PTL DEF Spec

\* Every event of a sub-agent is passed on once and in its order
\* (lastActionEvent of runSequential and runLoop).
THEOREM EventsCorrect == Spec => []EventsInOrder
<1>1. ASSUME SequenceInv, InSequence
      PROVE  EventsInOrder
  <2>1. CASE pc = "read"
    <3>1. out \o pending = events /\ events \in Seq(Kind)
      BY <1>1, <2>1, HeldEvents DEF SequenceInv, HeldBack
    <3>2. PassedOn(events) = events
      BY <1>1, <2>1, <3>1, PassedWhole DEF SequenceInv, HeldBack
    <3>. QED
      BY <3>1, <3>2 DEF EventsInOrder
  <2>2. CASE pc # "read"
    <3>1. pending = <<>> /\ out = PassedOn(events) /\ out \in Seq(Kind)
      BY <1>1, <2>2 DEF SequenceInv, HeldBack
    <3>. QED
      BY <3>1 DEF EventsInOrder
  <2>. QED
    BY <2>1, <2>2
<1>2. ASSUME SequenceInv, ~InSequence
      PROVE  EventsInOrder
  <2>1. Len(<<>>) = 0 /\ <<>> \o <<>> = <<>>
    OBVIOUS
  <2>. QED
    BY <1>2, <2>1 DEF SequenceInv, Unused, EventsInOrder, PassedOn
<1>. QED
  BY <1>1, <1>2, SequenceCorrect, PTL

\* A step of a sequence or a loop starts the next sub-agent, or resumes the
\* one that interrupted, unless its last word ended the workflow.
LEMMA TurnStep ==
  ASSUME SequenceInv, [Next]_vars
  PROVE  /\ visit' # visit /\ visit # <<>> =>
              \/ visit' = <<visit[1], visit[2] + 1, FALSE>>
              \/ visit[2] = Agents - 1 /\ visit' = <<visit[1] + 1, 0, FALSE>>
              \/ Contains(out, "interrupt") /\ visit' = <<visit[1], visit[2], TRUE>>
         /\ pc = "start" /\ pc' = "read" /\ out # <<>> =>
              Last(out) \notin (IF Loop THEN {"exit", "break"} ELSE {"exit", "error"})
<1>1. CASE InSequence /\ StartAgent
  <2>1. HeldBack /\ Position /\ pc = "start" /\ visit' = <<iter, idx, resume>>
    BY <1>1 DEF SequenceInv, StartAgent
  <2>2. ASSUME visit # <<>>, ~resume
        PROVE  \/ visit' = <<visit[1], visit[2] + 1, FALSE>>
               \/ visit[2] = Agents - 1 /\ visit' = <<visit[1] + 1, 0, FALSE>>
    BY <2>1, <2>2 DEF Position
  <2>3. ASSUME resume
        PROVE  Contains(out, "interrupt") /\ visit' = <<visit[1], visit[2], TRUE>>
    <3>1. Interrupted /\ visit[1] = iter /\ visit[2] = idx /\ resume = TRUE
      BY <2>1, <2>3 DEF Position
    <3>2. out # <<>> /\ out[Len(out)] = "interrupt" /\ out \in Seq(Kind)
      BY <2>1, <3>1 DEF Interrupted, Last, HeldBack
    <3>3. Len(out) \in 1 .. Len(out)
      BY <3>2
    <3>. QED
      BY <2>1, <3>1, <3>2, <3>3 DEF Contains
  <2>. QED
    BY <2>1, <2>2, <2>3 DEF Position, Ending
<1>2. CASE ~(InSequence /\ StartAgent)
  <2>1. visit' = visit
    BY <1>2, ModeKept DEF Sequence, SequenceWork, EndRound, EndOfRounds, ReceiveError, Receive,
       InterruptSequence, Exit, NextAgent, ResumeSequence, vars, sequenceVars
  <2>2. ~(pc = "start" /\ pc' = "read" /\ InSequence)
    BY <1>2, ModeKept DEF Sequence, SequenceWork, EndRound, EndOfRounds, ReceiveError, Receive,
       MayEmit, InterruptSequence, Exit, NextAgent, Closed, ResumeSequence, NextRun, vars, workflowVars
  <2>3. ~InSequence => out = <<>>
    BY DEF SequenceInv, Unused
  <2>. QED
    BY <2>1, <2>2, <2>3
<1>. QED
  BY <1>1, <1>2

\* Sub-agents take turns through all interrupts until a last word ends them
\* (the loops of runSequential and runLoop and what they save).
THEOREM TurnsCorrect == Spec => TurnsInOrder
<1>1. SequenceInv /\ [Next]_vars =>
        [visit' # visit /\ visit # <<>> =>
           \/ visit' = <<visit[1], visit[2] + 1, FALSE>>
           \/ visit[2] = Agents - 1 /\ visit' = <<visit[1] + 1, 0, FALSE>>
           \/ Contains(out, "interrupt") /\ visit' = <<visit[1], visit[2], TRUE>>
        ]_<<workflowVars, sequenceVars>>
  BY TurnStep
<1>2. SequenceInv /\ [Next]_vars =>
        [pc = "start" /\ pc' = "read" /\ out # <<>> =>
           Last(out) \notin (IF Loop THEN {"exit", "break"} ELSE {"exit", "error"})
        ]_<<workflowVars, sequenceVars>>
  BY TurnStep
<1>. QED
  BY <1>1, <1>2, SequenceCorrect, PTL DEF Spec, TurnsInOrder, InOrder, LastWordCounts

-----------------------------------------------------------------------------
(* The parallel agent. *)

Entry == Agent \X Nat \X Nat
LaneEntries == UNION {ToSet(lane[a]) : a \in Agent}

\* An event as a lane has it: what an interrupt kept has lost its time stamp.
Remembered(e) == IF WasKept(e) THEN WithoutStamp(e) ELSE e

\* A lane has what its sub-agent recorded, now or when the run is resumed.
Lanes ==
  /\ clock \in Nat \ {0}
  /\ recorded \in [Agent -> Seq(Entry)]
  /\ \A a \in Agent : \A n \in DOMAIN recorded[a] :
       recorded[a][n][1] = a /\ recorded[a][n][2] = n /\ recorded[a][n][3] \in 1 .. clock
  /\ \A a \in Agent : InTime(recorded[a])
  /\ kept.lanes \in [Agent -> Seq(Entry)]
  /\ \A a \in Agent : Len(kept.lanes[a]) <= Len(recorded[a])
  /\ pc = "run" =>
       lane = [a \in Agent |-> [n \in DOMAIN recorded[a] |-> Remembered(recorded[a][n])]]
  /\ pc \in {"start", "interrupted"} =>
       kept.lanes = [a \in Agent |-> [n \in DOMAIN recorded[a] |-> WithoutStamp(recorded[a][n])]]
  /\ pc # "done" => session = <<>>

\* A goroutine of the workflow that has ended left nothing behind.
Ended(a) == inbox[a] = <<>> /\ agent[a] # "run" /\ (a \in signals <=> agent[a] = "interrupted")

InterruptedAgents == {a \in Agent : agent[a] = "interrupted"}

Readers ==
  /\ agent \in [Agent -> {"idle", "run", "finished", "failed", "interrupted"}]
  /\ reader \in [Agent -> {"idle", "run", "end"}]
  /\ inbox \in [Agent -> Seq(Entry)]
  /\ signals \subseteq Agent
  /\ runs \in Nat \ {0}
  /\ pc \in {"start", "run", "interrupted", "done"}
  /\ \A a \in signals : reader[a] = "end"
  /\ \A a \in Agent : reader[a] = "end" => Ended(a)
  /\ pc \in {"interrupted", "done"} => Waited
  /\ pc = "interrupted" => kept.interrupted = signals
  /\ pc = "start" =>
       /\ inbox = None /\ signals = {}
       /\ \A a \in Agent : agent[a] # "run" /\ reader[a] = "idle"
       /\ runs # 1 => kept.interrupted = InterruptedAgents

NoLanes ==
  /\ agent = Everywhere("idle") /\ inbox = None
  /\ session = <<>> /\ recorded = None /\ kept.interrupted = {}

ParallelInv ==
  /\ mode = "parallel" => Lanes /\ Readers /\ HistoryWhole
  /\ mode # "parallel" => NoLanes

\* An ordering of a finite set has all of it, each once.
LEMMA OrderingWhole ==
  ASSUME NEW S, IsFiniteSet(S), NEW s \in SetToSeqs(S)
  PROVE  s \in Seq(S) /\ IsInjective(s) /\ ToSet(s) = S
<1>. DEFINE n == Cardinality(S)
<1>1. n \in Nat
  BY FS_CardinalityType
<1>2. s \in [1 .. n -> S] /\ \A i, j \in 1 .. n : i # j => s[i] # s[j]
  BY DEF SetToSeqs
<1>3. s \in Seq(S) /\ DOMAIN s = 1 .. n
  BY <1>1, <1>2
<1>4. IsInjective(s)
  BY <1>2, <1>3 DEF IsInjective
<1>5. s \in Injection(1 .. n, S)
  BY <1>2, <1>4 DEF Injection
<1>6. Cardinality(1 .. n) = n
  BY <1>1, FS_Interval
<1>7. s \in Surjection(1 .. n, S)
  BY <1>5, <1>6, FS_Injection
<1>8. ToSet(s) = S
  BY <1>2, <1>3, <1>7 DEF Surjection, ToSet
<1>. QED
  BY <1>3, <1>4, <1>8

\* What a lane is turned into, entry by entry, is a lane as long.
LEMMA EntryByEntry ==
  ASSUME NEW q \in Seq(Entry), NEW r, r = [n \in DOMAIN q |-> r[n]],
         \A n \in DOMAIN q : r[n] \in Entry
  PROVE  r \in Seq(Entry) /\ Len(r) = Len(q) /\ DOMAIN r = DOMAIN q
<1>1. Len(q) \in Nat /\ DOMAIN q = 1 .. Len(q)
  OBVIOUS
<1>2. r \in [1 .. Len(q) -> Entry]
  BY <1>1
<1>. QED
  BY <1>1, <1>2, SeqDef

\* Lanes of finite sequences have finitely many events.
LEMMA LaneEntriesFinite ==
  ASSUME lane \in [Agent -> Seq(Entry)]
  PROVE  IsFiniteSet(LaneEntries)
<1>1. ASSUME NEW a \in Agent
      PROVE  IsFiniteSet(ToSet(lane[a]))
  <2>1. lane[a] \in Seq(Entry)
    BY <1>1
  <2>2. lane[a] \in Surjection(1 .. Len(lane[a]), ToSet(lane[a]))
    BY <2>1 DEF ToSet, Surjection
  <2>3. IsFiniteSet(1 .. Len(lane[a]))
    BY <2>1, FS_Interval
  <2>. QED
    BY <2>2, <2>3, FS_Surjection
<1>2. IsFiniteSet({ToSet(lane[a]) : a \in Agent})
  <2>1. [a \in Agent |-> ToSet(lane[a])] \in Surjection(Agent, {ToSet(lane[a]) : a \in Agent})
    BY DEF Surjection
  <2>. QED
    BY <2>1, ParallelAssumption, FS_Surjection
<1>. QED
  BY <1>1, <1>2, FS_UNION DEF LaneEntries

\* At first nothing is recorded and nobody runs.
LEMMA ParallelInitial == Init => ParallelInv
<1>. SUFFICES ASSUME Init
             PROVE  Lanes /\ Readers /\ HistoryWhole
  BY DEF ParallelInv, NoLanes, Init, ParallelInit
<1>1. pc = "start" /\ runs = 1 /\ agent = Everywhere("idle") /\ reader = Everywhere("idle")
      /\ inbox = None /\ session = <<>> /\ signals = {} /\ kept.lanes = None /\ clock = 1
      /\ recorded = None
  BY DEF Init, WorkflowInit, ParallelInit
<1>2. Lanes
  BY <1>1 DEF Lanes, None, InTime
<1>. QED
  BY <1>1, <1>2 DEF Readers, Everywhere, None, HistoryWhole

\* Sub-agents and the goroutines that read from them.
LEMMA LaneStep ==
  ASSUME ParallelInv, mode = "parallel", NEW a \in Agent, LaneWork(a)
  PROVE  Lanes' /\ Readers' /\ HistoryWhole'
<1>1. Lanes /\ Readers /\ pc' = pc /\ pc = "run"
  <2>1. Lanes /\ Readers /\ pc' = pc
    BY DEF ParallelInv, LaneWork, Emit, Close, PassOn, EndOfEvents
  <2>2. agent[a] = "run" \/ reader[a] = "run"
    BY DEF LaneWork, Emit, Close, PassOn, EndOfEvents
  <2>. QED
    BY <2>1, <2>2 DEF Readers, Waited, Ended
<1>2. HistoryWhole'
  BY <1>1 DEF HistoryWhole
<1>3. CASE Emit(a)
  <2>1. PICK now \in {clock, clock + 1} :
          LET e == <<a, Len(recorded[a]) + 1, now>> IN
            /\ clock' = now
            /\ lane' = [lane EXCEPT ![a] = Append(@, e)]
            /\ recorded' = [recorded EXCEPT ![a] = Append(@, e)]
            /\ inbox' = [inbox EXCEPT ![a] = Append(@, e)]
    BY <1>3 DEF Emit
  <2>. DEFINE e == <<a, Len(recorded[a]) + 1, now>>
  <2>2. e \in Entry /\ now \in Nat \ {0} /\ clock <= now /\ kept' = kept /\ recorded[a] \in Seq(Entry)
    BY <1>1, <1>3, <2>1 DEF Lanes, Entry, Emit
  <2>3. recorded' \in [Agent -> Seq(Entry)] /\ \A b \in Agent \ {a} : recorded'[b] = recorded[b]
    BY <1>1, <2>1, <2>2 DEF Lanes
  <2>4. /\ recorded'[a] = Append(recorded[a], e)
        /\ DOMAIN recorded'[a] = 1 .. Len(recorded[a]) + 1
        /\ Len(recorded'[a]) = Len(recorded[a]) + 1 /\ DOMAIN recorded[a] = 1 .. Len(recorded[a])
        /\ \A n \in DOMAIN recorded[a] : recorded'[a][n] = recorded[a][n]
        /\ recorded'[a][Len(recorded[a]) + 1] = e
    BY <1>1, <2>1, <2>2 DEF Lanes
  <2>5. Lanes'
    <3>1. ASSUME NEW b \in Agent, NEW n \in DOMAIN recorded'[b]
          PROVE  recorded'[b][n][1] = b /\ recorded'[b][n][2] = n /\ recorded'[b][n][3] \in 1 .. now
      <4>1. CASE b = a /\ n = Len(recorded[a]) + 1
        BY <2>2, <2>4, <4>1
      <4>2. CASE ~ (b = a /\ n = Len(recorded[a]) + 1)
        <5>1. n \in DOMAIN recorded[b] /\ recorded'[b][n] = recorded[b][n]
          <6>1. CASE b # a
            BY <2>3, <3>1, <6>1
          <6>2. CASE b = a
            <7>1. n \in 1 .. Len(recorded[a]) + 1 /\ n # Len(recorded[a]) + 1 /\ Len(recorded[a]) \in Nat
              BY <2>2, <2>4, <3>1, <4>2, <6>2
            <7>2. n \in DOMAIN recorded[a]
              BY <2>4, <7>1
            <7>. QED
              BY <2>4, <6>2, <7>2
          <6>. QED
            BY <6>1, <6>2
        <5>. QED
          BY <1>1, <2>2, <5>1 DEF Lanes
      <4>. QED
        BY <4>1, <4>2
    <3>2. ASSUME NEW b \in Agent
          PROVE  InTime(recorded[b])'
      <4>1. CASE b # a
        BY <1>1, <2>3, <4>1 DEF Lanes, InTime
      <4>2. ASSUME b = a, NEW j \in DOMAIN recorded'[a], NEW k \in DOMAIN recorded'[a], j < k
            PROVE  recorded'[a][j][3] <= recorded'[a][k][3]
        <5>1. CASE k = Len(recorded[a]) + 1
          BY <2>4, <3>1, <4>2, <5>1
        <5>2. CASE k # Len(recorded[a]) + 1
          <6>1. j \in DOMAIN recorded[a] /\ k \in DOMAIN recorded[a]
            BY <2>2, <2>4, <4>2, <5>2
          <6>. QED
            BY <1>1, <2>4, <4>2, <6>1 DEF Lanes, InTime
        <5>. QED
          BY <5>1, <5>2
      <4>. QED
        BY <4>1, <4>2 DEF InTime
    <3>3. lane' = [b \in Agent |-> [n \in DOMAIN recorded'[b] |-> Remembered(recorded'[b][n])]]
      <4>1. ~ WasKept(e) /\ Remembered(e) = e
        BY <1>1, <2>2 DEF Lanes, WasKept, Remembered
      <4>2. lane = [b \in Agent |-> [n \in DOMAIN recorded[b] |-> Remembered(recorded[b][n])]]
        BY <1>1 DEF Lanes
      <4>3. PICK q : q = lane[a]
        OBVIOUS
      <4>4. q = [n \in DOMAIN recorded[a] |-> Remembered(recorded[a][n])]
        BY <4>2, <4>3
      <4>5. \A n \in DOMAIN recorded[a] : Remembered(recorded[a][n]) \in Entry
        BY <1>1, <2>2 DEF Lanes, Remembered, WithoutStamp, Entry
      <4>6. q \in Seq(Entry) /\ Len(q) = Len(recorded[a])
        BY <2>2, <4>4, <4>5, EntryByEntry
      <4>7. PICK r : r = Append(q, e)
        OBVIOUS
      <4>8. /\ r \in Seq(Entry) /\ Len(r) = Len(recorded[a]) + 1
            /\ \A n \in 1 .. Len(recorded[a]) : r[n] = q[n]
            /\ r[Len(recorded[a]) + 1] = e
        BY <2>2, <4>6, <4>7
      <4>9. r = [n \in DOMAIN recorded'[a] |-> r[n]]
        BY <2>4, <4>8
      <4>10. \A n \in DOMAIN recorded'[a] : r[n] = Remembered(recorded'[a][n])
        <5>1. \A n \in DOMAIN recorded'[a] : n \in DOMAIN recorded[a] \/ n = Len(recorded[a]) + 1
          BY <2>2, <2>4
        <5>. QED
          BY <2>4, <4>1, <4>4, <4>8, <5>1
      <4>11. r = [n \in DOMAIN recorded'[a] |-> Remembered(recorded'[a][n])]
        BY <4>9, <4>10
      <4>12. lane' = [lane EXCEPT ![a] = r]
        BY <2>1, <4>3, <4>7
      <4>13. \A b \in Agent :
               lane'[b] = [n \in DOMAIN recorded'[b] |-> Remembered(recorded'[b][n])]
        BY <2>3, <4>2, <4>11, <4>12
      <4>14. lane' = [b \in Agent |-> lane'[b]]
        BY <4>2, <4>12
      <4>. QED
        BY <4>13, <4>14
    <3>4. \A b \in Agent : Len(kept.lanes[b]) <= Len(recorded'[b])
      <4>1. \A b \in Agent : Len(recorded[b]) <= Len(recorded'[b])
        BY <1>1, <2>2, <2>3, <2>4 DEF Lanes
      <4>2. \A b \in Agent : /\ Len(kept.lanes[b]) \in Nat /\ Len(recorded[b]) \in Nat
                             /\ Len(recorded'[b]) \in Nat /\ Len(kept.lanes[b]) <= Len(recorded[b])
        BY <1>1, <2>3 DEF Lanes
      <4>. QED
        BY <4>1, <4>2
    <3>5. lane' = [b \in Agent |-> [n \in DOMAIN recorded'[b] |-> Remembered(recorded[b][n])']]
      BY <2>2, <3>3 DEF Remembered, WasKept
    <3>6. pc' = "run" /\ session' = session /\ session = <<>>
      BY <1>1, <1>3 DEF Lanes, Emit
    <3>7. kept'.lanes \in [Agent -> Seq(Entry)] /\ clock' \in Nat \ {0}
      BY <1>1, <2>1, <2>2 DEF Lanes
    <3>. QED
      BY <2>1, <2>2, <2>3, <3>1, <3>2, <3>4, <3>5, <3>6, <3>7 DEF Lanes
  <2>6. inbox' \in [Agent -> Seq(Entry)] /\ \A b \in Agent \ {a} : inbox'[b] = inbox[b]
    BY <1>1, <2>1, <2>2 DEF Readers
  <2>. QED
    BY <1>1, <1>2, <1>3, <2>5, <2>6 DEF Readers, Emit, Ended, Waited
<1>4. CASE Close(a)
  <2>1. Lanes'
    BY <1>1, <1>4 DEF Lanes, Close, Remembered, WasKept
  <2>2. PICK how \in {"finished", "failed", "interrupted"} :
          agent' = [agent EXCEPT ![a] = how]
    BY <1>4 DEF Close
  <2>. QED
    BY <1>1, <1>2, <1>4, <2>1, <2>2 DEF Readers, Close, Ended, Waited
<1>5. CASE PassOn(a)
  <2>1. Lanes'
    BY <1>1, <1>5 DEF Lanes, PassOn, Remembered, WasKept
  <2>2. inbox' \in [Agent -> Seq(Entry)] /\ \A b \in Agent \ {a} : inbox'[b] = inbox[b]
    BY <1>1, <1>5 DEF Readers, PassOn
  <2>. QED
    BY <1>1, <1>2, <1>5, <2>1, <2>2 DEF Readers, PassOn, Ended, Waited
<1>6. CASE EndOfEvents(a)
  <2>1. Lanes'
    BY <1>1, <1>6 DEF Lanes, EndOfEvents, Remembered, WasKept
  <2>. QED
    BY <1>1, <1>2, <1>6, <2>1 DEF Readers, EndOfEvents, Ended, Waited
<1>. QED
  BY <1>3, <1>4, <1>5, <1>6 DEF LaneWork

\* The lanes are forked with what was kept.
LEMMA ForkStep ==
  ASSUME ParallelInv, mode = "parallel", Start
  PROVE  Lanes' /\ Readers' /\ HistoryWhole'
<1>1. Lanes /\ Readers /\ pc = "start" /\ pc' = "run"
  BY DEF ParallelInv, Start
<1>2. /\ recorded' = recorded /\ kept' = kept
      /\ lane' = [a \in Agent |-> [n \in DOMAIN recorded[a] |-> Remembered(recorded[a][n])]]
  <2>1. /\ recorded' = recorded /\ kept' = kept /\ lane' = [a \in Agent |-> kept.lanes[a]]
        /\ kept.lanes = [a \in Agent |-> [n \in DOMAIN recorded[a] |-> WithoutStamp(recorded[a][n])]]
    BY <1>1 DEF Lanes, Start, Fork
  <2>2. ASSUME NEW a \in Agent, NEW n \in DOMAIN recorded[a]
        PROVE  WithoutStamp(recorded[a][n]) = Remembered(recorded[a][n])
    <3>1. recorded[a][n][1] = a /\ recorded[a][n][2] = n /\ n \in 1 .. Len(recorded[a])
      BY <1>1, <2>2 DEF Lanes
    <3>2. kept.lanes[a] = [m \in 1 .. Len(recorded[a]) |-> WithoutStamp(recorded[a][m])]
      BY <1>1, <2>1 DEF Lanes
    <3>3. Len(kept.lanes[a]) = Len(recorded[a])
      BY <1>1, <3>2 DEF Lanes
    <3>. QED
      BY <3>1, <3>3 DEF Remembered, WasKept
  <2>. QED
    BY <2>1, <2>2
<1>3. Lanes'
  BY <1>1, <1>2 DEF Lanes, Start, Remembered, WasKept
<1>4. \A a \in Agent : \/ a \in ToRun /\ agent'[a] = "run" /\ reader'[a] = "run"
                       \/ a \notin ToRun /\ agent'[a] = agent[a] /\ reader'[a] = "end"
  BY <1>1 DEF Start, Readers
<1>5. \A a \in Agent \ ToRun : agent[a] # "interrupted"
  BY <1>1 DEF ToRun, Readers, InterruptedAgents
<1>6. Readers'
  BY <1>1, <1>4, <1>5 DEF Readers, Start, Ended, None
<1>. QED
  BY <1>1, <1>3, <1>6 DEF HistoryWhole

\* The lanes are joined when all sub-agents have ended without an interrupt.
LEMMA JoinStep ==
  ASSUME ParallelInv, mode = "parallel", Join
  PROVE  Lanes' /\ Readers' /\ HistoryWhole'
<1>1. Lanes /\ Readers /\ pc = "run" /\ pc' = "done" /\ Waited /\ session = <<>>
  BY DEF ParallelInv, Join, Lanes
<1>2. lane = [a \in Agent |-> [n \in DOMAIN recorded[a] |-> Remembered(recorded[a][n])]]
  BY <1>1 DEF Lanes
<1>3. lane \in [Agent -> Seq(Entry)] /\ \A a \in Agent : DOMAIN lane[a] = DOMAIN recorded[a]
  <2>1. ASSUME NEW a \in Agent
        PROVE  lane[a] \in Seq(Entry) /\ DOMAIN lane[a] = DOMAIN recorded[a]
    <3>1. PICK q \in Seq(Entry) : q = recorded[a]
      BY <1>1 DEF Lanes
    <3>2. \A n \in DOMAIN q : Remembered(q[n]) \in Entry
      BY <1>1, <3>1 DEF Lanes, Remembered, WithoutStamp, Entry
    <3>3. PICK w : w = lane[a]
      OBVIOUS
    <3>4. w = [n \in DOMAIN q |-> Remembered(q[n])]
      BY <1>2, <3>1, <3>3
    <3>. QED
      BY <3>1, <3>2, <3>3, <3>4, EntryByEntry
  <2>. QED
    BY <1>2, <2>1
<1>4. ASSUME NEW a \in Agent, NEW n \in DOMAIN lane[a]
      PROVE  /\ Which(lane[a][n]) = <<a, n>>
             /\ Which(lane[a][n]) = Which(recorded[a][n])
             /\ RecordedAt(lane[a][n]) = recorded[a][n][3] /\ recorded[a][n][3] \in Nat \ {0}
             /\ WasKept(lane[a][n]) <=> n <= Len(kept.lanes[a])
             /\ lane[a][n][3] = IF WasKept(lane[a][n]) THEN 0 ELSE recorded[a][n][3]
  <2>1. /\ lane[a][n] = Remembered(recorded[a][n])
        /\ recorded[a][n][1] = a /\ recorded[a][n][2] = n /\ recorded[a][n][3] \in Nat \ {0}
    BY <1>1, <1>2, <1>3, <1>4 DEF Lanes
  <2>. QED
    BY <2>1 DEF Remembered, WithoutStamp, Which, RecordedAt, WasKept
<1>5. PICK s : s \in Joined /\ session' = session \o s
  BY <1>1 DEF Join
<1>6. /\ s \in Seq(Entry) /\ ToSet(s) = LaneEntries
      /\ \A j, k \in DOMAIN s : s[j] = s[k] => j = k
      /\ \A j, k \in DOMAIN s : j < k =>
           \/ WasKept(s[j])
           \/ ~ WasKept(s[k]) /\ RecordedAt(s[j]) <= RecordedAt(s[k])
  <2>1. CASE Cardinality(Agent) = 1
    <3>1. PICK a : Agent = {a}
      BY <2>1, ParallelAssumption, FS_Singleton
    <3>2. s = lane[a] /\ a \in Agent
      BY <1>3, <1>5, <2>1, <3>1 DEF Joined, Range
    <3>3. s \in Seq(Entry) /\ ToSet(s) = LaneEntries
      BY <1>3, <3>1, <3>2 DEF LaneEntries
    <3>4. \A j, k \in DOMAIN s : s[j] = s[k] => j = k
      BY <1>4, <3>2
    <3>5. Len(kept.lanes[a]) \in Nat /\ InTime(recorded[a])
      BY <1>1, <3>2 DEF Lanes
    <3>. QED
      <4>1. ASSUME NEW j \in DOMAIN s, NEW k \in DOMAIN s, j < k, ~ WasKept(s[j])
            PROVE  ~ WasKept(s[k]) /\ RecordedAt(s[j]) <= RecordedAt(s[k])
        <5>1. j \in DOMAIN recorded[a] /\ k \in DOMAIN recorded[a] /\ j \in Nat /\ k \in Nat
          BY <1>3, <3>2, <3>3, <4>1
        <5>2. /\ WasKept(s[j]) <=> j <= Len(kept.lanes[a])
              /\ WasKept(s[k]) <=> k <= Len(kept.lanes[a])
              /\ RecordedAt(s[j]) = recorded[a][j][3] /\ RecordedAt(s[k]) = recorded[a][k][3]
          BY <1>4, <3>2, <4>1
        <5>3. recorded[a][j][3] <= recorded[a][k][3]
          BY <3>5, <4>1, <5>1 DEF InTime
        <5>. QED
          BY <3>5, <4>1, <5>1, <5>2, <5>3
      <4>. QED
        BY <3>3, <3>4, <4>1
  <2>2. CASE Cardinality(Agent) # 1
    <3>1. s \in SetToSeqs(LaneEntries) /\ InTime(s)
      BY <1>5, <2>2 DEF Joined, LaneEntries
    <3>2. s \in Seq(LaneEntries) /\ IsInjective(s) /\ ToSet(s) = LaneEntries
      BY <1>3, <3>1, LaneEntriesFinite, OrderingWhole
    <3>3. LaneEntries \subseteq Entry
      BY <1>3 DEF LaneEntries, ToSet
    <3>4. ASSUME NEW j \in DOMAIN s
          PROVE  /\ RecordedAt(s[j]) \in Nat \ {0}
                 /\ s[j][3] = IF WasKept(s[j]) THEN 0 ELSE RecordedAt(s[j])
      <4>1. s[j] \in LaneEntries
        BY <3>2, <3>4
      <4>2. PICK a \in Agent : s[j] \in ToSet(lane[a])
        BY <4>1 DEF LaneEntries
      <4>3. PICK n \in DOMAIN lane[a] : s[j] = lane[a][n]
        BY <4>2 DEF ToSet
      <4>. QED
        BY <1>4, <4>3
    <3>5. ASSUME NEW j \in DOMAIN s, NEW k \in DOMAIN s, j < k, ~ WasKept(s[j])
          PROVE  ~ WasKept(s[k]) /\ RecordedAt(s[j]) <= RecordedAt(s[k])
      <4>1. s[j][3] <= s[k][3]
        BY <3>1, <3>5 DEF InTime
      <4>2. s[j][3] = RecordedAt(s[j]) /\ RecordedAt(s[j]) \in Nat \ {0} /\ RecordedAt(s[k]) \in Nat
        BY <3>4, <3>5
      <4>3. s[k][3] = IF WasKept(s[k]) THEN 0 ELSE RecordedAt(s[k])
        BY <3>4
      <4>. QED
        BY <4>1, <4>2, <4>3
    <3>6. s \in Seq(Entry) /\ \A j, k \in DOMAIN s : s[j] = s[k] => j = k
      BY <3>2, <3>3 DEF IsInjective
    <3>. QED
      BY <3>2, <3>5, <3>6
  <2>. QED
    BY <2>1, <2>2
<1>7. session' = s /\ kept' = kept /\ recorded' = recorded
  BY <1>1, <1>5, <1>6 DEF Join
<1>8. ASSUME NEW j \in DOMAIN s
      PROVE  \E a \in Agent : \E n \in DOMAIN lane[a] : s[j] = lane[a][n]
  <2>1. s[j] \in ToSet(s)
    BY DEF ToSet
  <2>2. PICK a \in Agent : s[j] \in ToSet(lane[a])
    BY <1>6, <2>1 DEF LaneEntries
  <2>. QED
    BY <2>2 DEF ToSet
<1>9. ASSUME NEW j \in DOMAIN s, NEW k \in DOMAIN s, Which(s[j]) = Which(s[k])
      PROVE  j = k
  <2>1. PICK a \in Agent : \E n \in DOMAIN lane[a] : s[j] = lane[a][n]
    BY <1>8
  <2>2. PICK n \in DOMAIN lane[a] : s[j] = lane[a][n]
    BY <2>1
  <2>3. PICK b \in Agent : \E m \in DOMAIN lane[b] : s[k] = lane[b][m]
    BY <1>8
  <2>4. PICK m \in DOMAIN lane[b] : s[k] = lane[b][m]
    BY <2>3
  <2>5. <<a, n>> = <<b, m>>
    BY <1>4, <1>9, <2>2, <2>4
  <2>. QED
    BY <1>6, <2>2, <2>4, <2>5
<1>10. {Which(e) : e \in ToSet(s)} = {Which(e) : e \in UNION {ToSet(recorded[a]) : a \in Agent}}
  <2>1. \A a \in Agent : {Which(e) : e \in ToSet(lane[a])} = {Which(e) : e \in ToSet(recorded[a])}
    BY <1>3, <1>4 DEF ToSet
  <2>. QED
    <3>1. ToSet(s) = UNION {ToSet(lane[a]) : a \in Agent}
      BY <1>6 DEF LaneEntries
    <3>2. ASSUME NEW a \in Agent, NEW x
          PROVE  (\E e \in ToSet(lane[a]) : x = Which(e)) <=> (\E e \in ToSet(recorded[a]) : x = Which(e))
      BY <2>1
    <3>. HIDE DEF Which
    <3>. QED
      <4>1. PICK L, R : L = {Which(e) : e \in UNION {ToSet(lane[a]) : a \in Agent}}
                        /\ R = {Which(e) : e \in UNION {ToSet(recorded[a]) : a \in Agent}}
        OBVIOUS
      <4>2. \A x : x \in L <=> \E a \in Agent : \E e \in ToSet(lane[a]) : x = Which(e)
        BY <4>1
      <4>3. \A x : x \in R <=> \E a \in Agent : \E e \in ToSet(recorded[a]) : x = Which(e)
        BY <4>1
      <4>4. \A x : x \in L <=> x \in R
        BY <3>2, <4>2, <4>3
      <4>5. L = R
        BY <4>4
      <4>. QED
        BY <3>1, <4>1, <4>5
<1>11. HistoryWhole'
  BY <1>6, <1>7, <1>9, <1>10 DEF HistoryWhole, Which, WasKept, RecordedAt
<1>12. Lanes'
  BY <1>1 DEF Lanes, Join, Remembered, WasKept
<1>. QED
  BY <1>1, <1>11, <1>12 DEF Readers, Join, Ended, Waited

\* An interrupt keeps all lanes.
LEMMA InterruptStep ==
  ASSUME ParallelInv, mode = "parallel", Interrupt
  PROVE  Lanes' /\ Readers' /\ HistoryWhole'
<1>1. Lanes /\ Readers /\ pc = "run" /\ pc' = "interrupted" /\ Waited
  BY DEF ParallelInv, Interrupt
<1>2. /\ kept'.interrupted = signals /\ recorded' = recorded
      /\ kept'.lanes = [a \in Agent |-> [n \in DOMAIN recorded[a] |-> WithoutStamp(recorded[a][n])]]
  <2>1. lane = [a \in Agent |-> [n \in DOMAIN recorded[a] |-> Remembered(recorded[a][n])]]
    BY <1>1 DEF Lanes
  <2>2. \A e : WithoutStamp(Remembered(e)) = WithoutStamp(e)
    BY DEF Remembered, WithoutStamp
  <2>. QED
    BY <2>1, <2>2 DEF Interrupt, KeptLanes
<1>3. Lanes'
  <2>1. kept'.lanes \in [Agent -> Seq(Entry)]
    <3>1. ASSUME NEW a \in Agent
          PROVE  kept'.lanes[a] \in Seq(Entry)
      <4>1. PICK q \in Seq(Entry) : q = recorded[a]
        BY <1>1 DEF Lanes
      <4>2. \A n \in DOMAIN q : WithoutStamp(q[n]) \in Entry
        BY <1>1, <4>1 DEF Lanes, WithoutStamp, Entry
      <4>3. PICK w : w = kept'.lanes[a]
        OBVIOUS
      <4>4. w = [n \in DOMAIN q |-> WithoutStamp(q[n])]
        BY <1>2, <4>1, <4>3
      <4>. QED
        BY <4>2, <4>3, <4>4, EntryByEntry
    <3>. QED
      BY <1>2, <3>1
  <2>2. \A a \in Agent : Len(kept'.lanes[a]) = Len(recorded[a])
    BY <1>1, <1>2 DEF Lanes
  <2>3. \A a \in Agent : Len(kept'.lanes[a]) <= Len(recorded[a])
    BY <1>1, <2>2 DEF Lanes
  <2>. QED
    BY <1>1, <1>2, <2>1, <2>3 DEF Lanes, Interrupt
<1>4. Readers'
  BY <1>1, <1>2 DEF Readers, Interrupt, Ended, Waited
<1>. QED
  BY <1>1, <1>3, <1>4 DEF HistoryWhole

\* A resumption starts with nothing in the inboxes.
LEMMA ResumeStep ==
  ASSUME ParallelInv, mode = "parallel", ResumeParallel
  PROVE  Lanes' /\ Readers' /\ HistoryWhole'
<1>1. Lanes /\ Readers /\ pc = "interrupted" /\ pc' = "start" /\ runs' = runs + 1
  BY DEF ParallelInv, ResumeParallel, NextRun
<1>2. Lanes'
  BY <1>1 DEF Lanes, ResumeParallel, Remembered, WasKept
<1>3. kept' = kept /\ kept.interrupted = InterruptedAgents /\ InterruptedAgents' = InterruptedAgents
  BY <1>1 DEF Readers, Waited, Ended, ResumeParallel, InterruptedAgents
<1>4. Readers'
  BY <1>1, <1>3 DEF Readers, ResumeParallel, Ended, Waited, Everywhere, None
<1>. QED
  BY <1>1, <1>2, <1>4 DEF HistoryWhole

\* Every step keeps what is known of a parallel agent.
LEMMA ParallelStep == ParallelInv /\ [Next]_vars => ParallelInv'
<1>. SUFFICES ASSUME ParallelInv, [Next]_vars, mode = "parallel"
             PROVE  Lanes' /\ Readers' /\ HistoryWhole'
  BY ModeKept DEF ParallelInv, NoLanes, parallelVars
<1>1. CASE Parallel(ParallelWork)
  BY <1>1, ForkStep, JoinStep, InterruptStep DEF Parallel, ParallelWork
<1>2. CASE Parallel(ResumeParallel)
  BY <1>2, ResumeStep DEF Parallel
<1>3. CASE \E a \in Agent : Parallel(LaneWork(a))
  BY <1>3, LaneStep DEF Parallel
<1>4. CASE UNCHANGED vars
  <2>1. UNCHANGED <<pc, runs, parallelVars>>
    BY <1>4 DEF vars, workflowVars
  <2>2. Lanes'
    <3>1. \A e : Remembered(e)' = Remembered(e)
      BY <2>1 DEF parallelVars, Remembered, WasKept
    <3>. QED
      BY <2>1, <3>1 DEF ParallelInv, parallelVars, Lanes
  <2>3. Readers'
    BY <2>1 DEF ParallelInv, parallelVars, Readers, Ended, Waited, InterruptedAgents
  <2>4. HistoryWhole'
    BY <2>1 DEF ParallelInv, parallelVars, HistoryWhole, Which, WasKept, RecordedAt
  <2>. QED
    BY <2>2, <2>3, <2>4
<1>. QED
  BY <1>1, <1>2, <1>3, <1>4, ModeKept

\* Nothing a lane has sent is lost (forkRunCtx, joinRunCtxs, runParallel).
THEOREM LanesCorrect == Spec => []NoLaneLost
<1>1. ASSUME ParallelInv, mode = "parallel"
      PROVE  NoLaneLost
  <2>1. Readers /\ HistoryWhole
    BY <1>1 DEF ParallelInv
  <2>. QED
    BY <2>1 DEF Readers, Waited, Ended, NoLaneLost, InterruptIsLast
<1>2. ASSUME ParallelInv, mode # "parallel"
      PROVE  NoLaneLost
  <2>1. NoLanes
    BY <1>2 DEF ParallelInv
  <2>2. (\A a \in Agent : ToSet(recorded[a]) = {}) /\ ToSet(session) = {} /\ DOMAIN session = {}
    BY <2>1 DEF NoLanes, None, ToSet
  <2>3. HistoryWhole
    BY <2>1, <2>2 DEF HistoryWhole
  <2>4. InterruptIsLast
    BY <2>1 DEF NoLanes, InterruptIsLast, None, Everywhere
  <2>. QED
    BY <2>3, <2>4 DEF NoLaneLost
<1>3. ParallelInv => NoLaneLost
  BY <1>1, <1>2
<1>. QED
  BY <1>3, ParallelInitial, ParallelStep, PTL DEF Spec


-----------------------------------------------------------------------------
\* An agent of one kind never touches the state of another.
LEMMA KindKept ==
  ASSUME [Next]_vars
  PROVE  /\ mode' = mode
         /\ mode = "plan" => PlanWork \/ ResumePlan \/ UNCHANGED vars
         /\ mode # "plan" => UNCHANGED planVars
         /\ Reacts => ReactWork \/ ResumeReact \/ UNCHANGED vars
         /\ ~Reacts => UNCHANGED reactVars
         /\ mode = "flow" => FlowWork \/ ResumeFlow \/ UNCHANGED vars
         /\ mode # "flow" => UNCHANGED flowVars
BY DEF Next, Sequence, Parallel, React, Flow, Planning, Offloading, Retrieving, Retrieves,
       InSequence, vars, workflowVars, Reacts, Adk

-----------------------------------------------------------------------------
(* Numbers. *)

\* Induction: what holds of zero, and of k + 1 if of k, holds of every number.
\* Otherwise adding one would map a finite set into a part of itself.
LEMMA AllNumbers ==
  ASSUME NEW S \in SUBSET Nat, 0 \in S, \A k \in S : k + 1 \in S
  PROVE  S = Nat
<1>. SUFFICES ASSUME NEW n \in Nat, n \notin S
             PROVE  FALSE
  OBVIOUS
<1>. DEFINE A == S \cap (0 .. n)
            B == A \ {0}
            next == [k \in A |-> k + 1]
<1>1. IsFiniteSet(0 .. n)
  BY FS_Interval
<1>2. IsFiniteSet(A) /\ 0 \in A
  BY <1>1, FS_Subset
<1>3. IsFiniteSet(B) /\ Cardinality(B) = Cardinality(A) - 1 /\ Cardinality(A) \in Nat
  BY <1>2, FS_RemoveElement, FS_CardinalityType
<1>4. next \in [A -> B]
  OBVIOUS
<1>5. PICK x, y \in A : x # y /\ next[x] = next[y]
  <2>1. Cardinality(B) < Cardinality(A)
    BY <1>3, FS_CardinalityType
  <2>. HIDE DEF A, B, next
  <2>. QED
    BY <1>2, <1>3, <1>4, <2>1, FS_PigeonHole
<1>. QED
  BY <1>5

\* A set of numbers has a least one.
LEMMA LeastOne ==
  ASSUME NEW T \in SUBSET Nat, T # {}
  PROVE  \E x \in T : \A y \in T : x <= y
<1>. SUFFICES ASSUME \A x \in T : \E y \in T : y < x
             PROVE  FALSE
  OBVIOUS
<1>. DEFINE S == {k \in Nat : \A t \in T : k < t}
<1>1. S \in SUBSET Nat /\ 0 \in S /\ \A k \in S : k + 1 \in S
  OBVIOUS
<1>2. S = Nat
  <2>. HIDE DEF S
  <2>. QED
    BY <1>1, AllNumbers
<1>3. PICK t \in T : TRUE
  OBVIOUS
<1>4. t \in S
  BY <1>2, <1>3
<1>. QED
  BY <1>4

\* A set of numbers with a bound has a greatest one.
LEMMA GreatestOne ==
  ASSUME NEW T \in SUBSET Nat, T # {}, NEW n \in Nat, \A t \in T : t <= n
  PROVE  \E x \in T : \A y \in T : x >= y
<1>. DEFINE U == {k \in Nat : \A t \in T : t <= k}
<1>1. PICK u \in U : \A v \in U : u <= v
  <2>1. U \in SUBSET Nat /\ U # {}
    OBVIOUS
  <2>. HIDE DEF U
  <2>. QED
    BY <2>1, LeastOne
<1>2. u \in Nat /\ \A t \in T : t <= u
  OBVIOUS
<1>3. u \in T
  <2>. SUFFICES ASSUME u \notin T
               PROVE  FALSE
    OBVIOUS
  <2>1. PICK t \in T : TRUE
    OBVIOUS
  <2>2. u # 0 /\ u - 1 \in U
    BY <1>2, <2>1
  <2>. QED
    BY <1>1, <1>2, <2>2
<1>. QED
  BY <1>2, <1>3

-----------------------------------------------------------------------------
(* The plan-execute-replan agent. *)

Result == [step : Nat, result : Nat]
Values == [plan : Nat, result : Nat, steps : Seq(Result)]

PlanType ==
  /\ made \in Nat
  /\ values \in Values /\ values.plan <= made
  /\ unsure \in [executor : SUBSET Nat, replanner : SUBSET Nat]

\* The steps are of plans made so far, and their results are their own.
StepsRecorded ==
  /\ \A k \in 1 .. Len(Steps) :
       /\ Steps[k].step <= made
       /\ Steps[k].result # Steps[k].step =>
            /\ Steps[k].step \in unsure.executor
            /\ k > 1 /\ Steps[k].result = Steps[k - 1].result
       /\ \A j \in 1 .. (k - 1) :
            Steps[j].step = Steps[k].step => Steps[k].step \in unsure.replanner

LastResult == IF Steps = <<>> THEN Absent ELSE Steps[Len(Steps)].result
AgainUnsure ==
  \A k \in 1 .. Len(Steps) : Steps[k].step = values.plan => values.plan \in unsure.replanner

\* The result that is there at the turn of each.
TurnOf ==
  /\ whose \in {"planner", "executor", "replanner"}
  /\ pc = "interrupted" => whose = "executor"
  /\ whose = "planner" => Steps = <<>> /\ values.result = Absent
  /\ whose = "executor" => values.result \in {Absent, LastResult}
  /\ whose = "replanner" =>
       \/ values.result \in {Absent, values.plan}
       \/ values.plan \in unsure.executor /\ Steps # <<>> /\ values.result = LastResult

\* A checkpoint is from before the first step.
FirstSteps ==
  planStore = <<>> \/ /\ planStore[1].values \in Values
                      /\ planStore[1].values.steps = <<>>
                      /\ planStore[1].values.result = Absent
                      /\ planStore[1].values.plan <= made

PlanInv ==
  /\ mode = "plan" =>
       /\ PlanType
       /\ StepsRecorded
       /\ FirstSteps
       /\ pc \in {"start", "interrupted"} => AgainUnsure /\ TurnOf
  /\ mode # "plan" => Steps = <<>>

\* Nothing is recorded at first.
LEMMA PlanInitial == Init => PlanInv
BY DEF Init, PlanInit, PlanInv, PlanType, StepsRecorded, FirstSteps, AgainUnsure, TurnOf, Values,
       Steps, Absent, WorkflowInit

\* A step is recorded with the result that is there at the turn of the replanner.
LEMMA RecordStep ==
  ASSUME PlanInv, mode = "plan", Turn("replanner"), values.result # Absent,
         values'.steps = Executed, made' \in Nat, made <= made',
         unsure' \in [executor : SUBSET Nat, replanner : SUBSET Nat],
         unsure'.executor = unsure.executor, unsure.replanner \subseteq unsure'.replanner
  PROVE  /\ Executed \in Seq(Result) /\ Executed # <<>> /\ Len(Executed) = Len(Steps) + 1
         /\ StepsRecorded'
         /\ Executed[Len(Executed)] = [step |-> values.plan, result |-> values.result]
         /\ \A k \in 1 .. Len(Steps) : Executed[k] = Steps[k]
<1>1. PlanType /\ StepsRecorded /\ AgainUnsure /\ TurnOf /\ whose = "replanner"
  BY DEF PlanInv, Turn
<1>. DEFINE new == [step |-> values.plan, result |-> values.result]
            n == Len(Steps)
<1>2. Steps \in Seq(Result) /\ new \in Result /\ n \in Nat /\ Executed = Append(Steps, new)
  BY <1>1 DEF PlanType, Values, Result, Executed, Steps
<1>3. /\ Executed \in Seq(Result) /\ Executed # <<>> /\ Len(Executed) = n + 1
      /\ Executed[n + 1] = new /\ \A k \in 1 .. n : Executed[k] = Steps[k]
  BY <1>2
<1>4. Steps' = Executed
  BY DEF Steps
<1>5. new.result # new.step => /\ new.step \in unsure.executor
                               /\ n > 0 /\ new.result = Steps[n].result
  BY <1>1, <1>2 DEF TurnOf, LastResult, Absent
<1>6. new.step <= made /\ new.step \in Nat
  BY <1>1 DEF PlanType, Values
<1>7. \A k \in 1 .. n : Steps[k].step = new.step => new.step \in unsure.replanner
  BY <1>1 DEF AgainUnsure
<1>. HIDE DEF new
<1>8. StepsRecorded'
  <2>. SUFFICES ASSUME NEW k \in 1 .. n + 1
               PROVE  /\ Executed[k].step <= made'
                      /\ Executed[k].result # Executed[k].step =>
                           /\ Executed[k].step \in unsure.executor
                           /\ k > 1 /\ Executed[k].result = Executed[k - 1].result
                      /\ \A j \in 1 .. (k - 1) :
                           Executed[j].step = Executed[k].step =>
                             Executed[k].step \in unsure'.replanner
    BY <1>3, <1>4 DEF StepsRecorded
  <2>1. CASE k = n + 1
    BY <2>1, <1>1, <1>2, <1>3, <1>5, <1>6, <1>7 DEF PlanType
  <2>2. CASE k \in 1 .. n
    <3>1. Steps[k] \in Result
      BY <2>2, <1>2
    <3>2. Steps[k].step \in Nat
      BY <3>1 DEF Result
    <3>. QED
      BY <2>2, <3>2, <1>1, <1>2, <1>3 DEF PlanType, StepsRecorded
  <2>. QED
    BY <2>1, <2>2, <1>2
<1>. QED
  BY <1>3, <1>8 DEF new

\* Every turn keeps what is known of the steps.
LEMMA PlanStep == PlanInv /\ [Next]_vars => PlanInv'
<1>. SUFFICES ASSUME PlanInv, [Next]_vars
             PROVE  PlanInv'
  OBVIOUS
<1>1. mode' = mode
  BY KindKept
<1>2. CASE mode # "plan" \/ UNCHANGED vars
  BY <1>1, <1>2, KindKept DEF PlanInv, PlanType, StepsRecorded, FirstSteps, AgainUnsure, TurnOf, Steps,
     LastResult, planVars, vars, workflowVars
<1>. SUFFICES ASSUME mode = "plan", PlanWork \/ ResumePlan
             PROVE  PlanInv'
  BY <1>2, KindKept
<1>3. PlanType /\ StepsRecorded /\ FirstSteps
  BY DEF PlanInv
<1>4. values \in Values /\ Steps \in Seq(Result) /\ made \in Nat
  BY <1>3 DEF PlanType, Values, Steps
<1>5. pc \in {"start", "interrupted"} => AgainUnsure /\ TurnOf
  BY DEF PlanInv
<1>6. CASE Plan
  <2>1. /\ pc = "start" /\ pc' = "start" /\ whose = "planner" /\ whose' = "executor"
        /\ made' = made + 1 /\ values' = [values EXCEPT !.plan = made + 1]
        /\ planStore' = planStore /\ unsure' = unsure
    BY <1>6 DEF Plan, NewPlan, Turn
  <2>2. Steps = <<>> /\ Steps' = <<>> /\ values'.result = Absent /\ values' \in Values
        /\ values'.plan = made'
    BY <1>4, <1>5, <2>1 DEF TurnOf, Steps, Values
  <2>. QED
    BY <1>1, <1>3, <1>4, <2>1, <2>2
    DEF PlanInv, PlanType, StepsRecorded, FirstSteps, AgainUnsure, TurnOf, Values
<1>7. CASE PlanFails \/ OutOfRounds
  BY <1>1, <1>3, <1>7 DEF PlanFails, OutOfRounds, PlanInv, PlanType, StepsRecorded, FirstSteps,
     planVars, Steps
<1>8. CASE Execute
  <2>1. /\ pc = "start" /\ pc' = "start" /\ whose = "executor" /\ whose' = "replanner"
        /\ made' = made /\ values' = [values EXCEPT !.result = values.plan]
        /\ planStore' = planStore /\ unsure' = unsure
    BY <1>8 DEF Execute, Turn
  <2>2. /\ Steps' = Steps /\ values'.result = values.plan /\ values' \in Values
        /\ values'.plan = values.plan
    BY <1>4, <2>1 DEF Steps, Values
  <2>. QED
    BY <1>1, <1>3, <1>5, <2>1, <2>2
    DEF PlanInv, PlanType, StepsRecorded, FirstSteps, AgainUnsure, TurnOf
<1>9. CASE ExecuteFails
  <2>1. /\ pc = "start" /\ pc' = "start" /\ whose = "executor" /\ whose' = "replanner"
        /\ made' = made /\ values' = values /\ planStore' = planStore
        /\ unsure' = [unsure EXCEPT !.executor = @ \cup {values.plan}]
    BY <1>9 DEF ExecuteFails, Turn
  <2>2. /\ unsure' \in [executor : SUBSET Nat, replanner : SUBSET Nat]
        /\ unsure'.executor = unsure.executor \cup {values.plan}
        /\ unsure'.replanner = unsure.replanner
    BY <1>3, <1>4, <2>1 DEF PlanType, Values
  <2>3. TurnOf'
    BY <1>5, <2>1, <2>2 DEF TurnOf, LastResult, Steps
  <2>4. PlanType' /\ StepsRecorded'
    BY <1>3, <2>1, <2>2 DEF PlanType, StepsRecorded, Steps
  <2>. QED
    BY <1>1, <1>3, <1>5, <2>1, <2>2, <2>3, <2>4
    DEF PlanInv, FirstSteps, AgainUnsure, Steps
<1>10. CASE ExecuteInterrupts
  <2>1. /\ pc = "start" /\ pc' = "interrupted" /\ whose = "executor" /\ whose' = "executor"
        /\ made' = made /\ values' = values /\ planStore' = Checkpoint /\ unsure' = unsure
    BY <1>10 DEF ExecuteInterrupts, Turn
  <2>2. FirstSteps'
    <3>1. CASE Steps = <<>>
      <4>1. planStore' = <<[round |-> round, values |-> values]>> /\ values.result = Absent
        BY <3>1, <1>5, <2>1 DEF Checkpoint, Steps, TurnOf, LastResult
      <4>. QED
        BY <4>1, <3>1, <1>3, <1>4, <2>1 DEF FirstSteps, Steps, PlanType
    <3>2. CASE Steps # <<>>
      BY <3>2, <1>3, <2>1 DEF Checkpoint, Steps, FirstSteps
    <3>. QED
      BY <3>1, <3>2
  <2>. QED
    BY <1>1, <1>3, <1>5, <2>1, <2>2
    DEF PlanInv, PlanType, StepsRecorded, AgainUnsure, TurnOf, LastResult, Steps
<1>11. CASE NothingExecuted
  BY <1>1, <1>3, <1>5, <1>11
  DEF NothingExecuted, Turn, PlanInv, PlanType, StepsRecorded, FirstSteps, AgainUnsure, TurnOf,
      LastResult, Steps
<1>12. CASE Replan
  <2>1. /\ Turn("replanner") /\ values.result # Absent /\ whose' = "executor" /\ pc' = pc
        /\ made' = made + 1 /\ values' = [values EXCEPT !.steps = Executed, !.plan = made + 1]
        /\ planStore' = planStore /\ unsure' = unsure
    BY <1>12 DEF Replan
  <2>2. values'.steps = Executed /\ values'.plan = made + 1 /\ values'.result = values.result
    BY <1>4, <2>1 DEF Values
  <2>3. /\ Executed \in Seq(Result) /\ Executed # <<>> /\ Len(Executed) = Len(Steps) + 1
        /\ StepsRecorded' /\ Executed[Len(Executed)].result = values.result
        /\ Executed[Len(Executed)].step = values.plan
        /\ \A k \in 1 .. Len(Steps) : Executed[k] = Steps[k]
    BY <1>3, <1>4, <2>1, <2>2, RecordStep DEF PlanType
  <2>4. PlanType'
    <3>1. values' = [plan |-> made + 1, result |-> values.result, steps |-> Executed]
      BY <1>4, <2>1 DEF Values
    <3>2. made + 1 \in Nat /\ values.result \in Nat
      BY <1>4 DEF Values
    <3>3. values' \in Values
      BY <3>1, <3>2, <2>3 DEF Values
    <3>. QED
      BY <1>3, <1>4, <2>1, <2>2, <3>3 DEF PlanType
  <2>5. Steps' = Executed
    BY <2>2 DEF Steps
  <2>6. TurnOf'
    BY <1>5, <2>1, <2>2, <2>3, <2>5 DEF TurnOf, LastResult, Turn
  <2>7. AgainUnsure'
    <3>. SUFFICES ASSUME NEW k \in 1 .. Len(Executed)
                 PROVE  Executed[k].step <= made /\ Executed[k].step \in Nat
      BY <1>4, <2>1, <2>2, <2>5 DEF AgainUnsure
    <3>1. Executed[k] \in Result
      BY <2>3
    <3>2. k = Len(Executed) \/ k \in 1 .. Len(Steps)
      BY <1>4, <2>3
    <3>. QED
      BY <3>1, <3>2, <1>3, <2>3 DEF Result, StepsRecorded, PlanType
  <2>8. FirstSteps'
    BY <1>3, <1>4, <2>1 DEF FirstSteps, Values
  <2>. QED
    BY <1>1, <2>3, <2>4, <2>6, <2>7, <2>8 DEF PlanInv
<1>13. CASE Respond
  <2>1. /\ Turn("replanner") /\ values.result # Absent /\ pc' = "done"
        /\ made' = made /\ values' = [values EXCEPT !.steps = Executed]
        /\ planStore' = planStore /\ unsure' = unsure
    BY <1>13 DEF Respond
  <2>2. values'.steps = Executed /\ values'.plan = values.plan /\ values'.result = values.result
    BY <1>4, <2>1 DEF Values
  <2>3. Executed \in Seq(Result) /\ StepsRecorded'
    BY <1>3, <1>4, <2>1, <2>2, RecordStep DEF PlanType
  <2>4. PlanType'
    BY <1>3, <1>4, <2>1, <2>2, <2>3 DEF PlanType, Values
  <2>. QED
    BY <1>1, <1>3, <2>1, <2>3, <2>4 DEF PlanInv, FirstSteps
<1>14. CASE ReplanFails
  <2>1. /\ Turn("replanner") /\ values.result # Absent /\ whose' = "executor" /\ pc' = pc
        /\ made' = made /\ values' = [values EXCEPT !.steps = Executed]
        /\ unsure' = [unsure EXCEPT !.replanner = @ \cup {values.plan}]
        /\ planStore' = planStore
    BY <1>14 DEF ReplanFails
  <2>2. values'.steps = Executed /\ values'.plan = values.plan /\ values'.result = values.result
    BY <1>4, <2>1 DEF Values
  <2>3. /\ unsure' \in [executor : SUBSET Nat, replanner : SUBSET Nat]
        /\ unsure'.executor = unsure.executor
        /\ unsure'.replanner = unsure.replanner \cup {values.plan}
    BY <1>3, <1>4, <2>1 DEF PlanType, Values
  <2>4. /\ Executed \in Seq(Result) /\ Executed # <<>> /\ StepsRecorded'
        /\ Executed[Len(Executed)].result = values.result
    BY <1>3, <1>4, <2>1, <2>2, <2>3, RecordStep DEF PlanType
  <2>5. PlanType'
    BY <1>3, <1>4, <2>1, <2>2, <2>3, <2>4 DEF PlanType, Values
  <2>6. Steps' = Executed
    BY <2>2 DEF Steps
  <2>7. TurnOf'
    BY <1>5, <2>1, <2>2, <2>4, <2>6 DEF TurnOf, LastResult, Turn
  <2>8. AgainUnsure'
    BY <2>2, <2>3 DEF AgainUnsure
  <2>. QED
    BY <1>1, <1>3, <2>1, <2>4, <2>5, <2>7, <2>8 DEF PlanInv, FirstSteps
<1>15. CASE ResumePlan
  <2>1. /\ planStore # <<>> /\ values' = planStore[1].values /\ whose' = "executor"
        /\ planStore' = planStore /\ made' = made /\ unsure' = unsure
    BY <1>15 DEF ResumePlan
  <2>2. Steps' = <<>> /\ values'.result = Absent /\ values' \in Values /\ values'.plan <= made
    BY <1>3, <2>1 DEF FirstSteps, Steps
  <2>. QED
    BY <1>1, <1>3, <2>1, <2>2
    DEF PlanInv, PlanType, StepsRecorded, FirstSteps, AgainUnsure, TurnOf
<1>. QED
  BY <1>6, <1>7, <1>8, <1>9, <1>10, <1>11, <1>12, <1>13, <1>14, <1>15 DEF PlanWork

\* A step of a plan is recorded with the result of its own execution, unless
\* the executor failed, and again only if the replanner failed, for any number
\* of rounds and resumptions (plan_execute.go).
THEOREM StepsCorrect == Spec => []StepsOwnResult
<1>1. PlanInv => StepsOwnResult
  <2>. SUFFICES ASSUME PlanInv
               PROVE  StepsOwnResult
    OBVIOUS
  <2>1. Steps \in Seq(Result)
    <3>1. CASE mode = "plan"
      BY <3>1 DEF PlanInv, PlanType, Values, Steps
    <3>2. CASE mode # "plan"
      BY <3>2 DEF PlanInv
    <3>. QED
      BY <3>1, <3>2
  <2>2. DOMAIN Steps = 1 .. Len(Steps)
    BY <2>1
  <2>3. StepsRecorded
    BY DEF PlanInv, StepsRecorded
  <2>. QED
    BY <2>2, <2>3 DEF StepsRecorded, StepsOwnResult
<1>. QED
  BY <1>1, PlanInitial, PlanStep, PTL DEF Spec
-----------------------------------------------------------------------------
(* The agents that loop between a model and its tools. *)

ReactType ==
  /\ pc \in {"start", "enter", "tools", "convert", "done", "failed", "interrupted"}
  /\ left \in Nat /\ asked \in Nat /\ direct \in Nat /\ answer \in Nat
  /\ calls \in Seq(Tool)
  /\ actions \in [Tool -> Nat]
  /\ pc # "done" => DOMAIN stage = DOMAIN calls /\ acted \subseteq DOMAIN calls

\* The state counts the turns of all runs.
TurnsCounted == Adk => asked + left = MaxTurns

\* The tool to return directly is chosen as the tools node is entered, and by
\* SetReturnDirectly.
AllDone == \A c \in DOMAIN calls : stage[c] = "done"
Entered == pc \in {"tools", "convert", "interrupted"} \/ (pc = "enter" /\ ~given)

Chosen ==
  /\ pc = "start" => direct = 0 /\ Listed(calls) = {} /\ (Adk \/ acted = {}) /\ AllDone
  /\ pc = "enter" /\ given =>
       direct = 0 /\ acted = {} /\ (\A c \in DOMAIN calls : stage[c] = "todo")
  /\ Entered =>
       /\ direct \in Listed(calls) \union acted \union {0}
       /\ direct = 0 => Listed(calls) = {} /\ (Adk \/ acted = {})
       /\ Adk => direct \in Listed(calls) \union {0} /\ direct = LastListed
  /\ pc = "convert" => direct # 0 /\ AllDone
  /\ pc # "done" => answer = 0
  /\ pc = "done" /\ answer # 0 =>
       answer \in Listed(calls) \union acted /\ stage[answer] = "done"

ChoiceInv ==
  /\ Reacts => ReactType /\ TurnsCounted /\ Chosen
  /\ ~Reacts => direct = 0 /\ calls = <<>> /\ acted = {} /\ answer = 0

CallEvent == [call : Nat, action : Nat]

\* A call that has ended has its event, which the handler holds if it is the
\* one to return directly.
RightAction(e) ==
  OnlyCallOf(e.call) /\ calls[e.call] \notin streamed =>
    e.action = IF e.call \in acted THEN e.call ELSE 0

One(S) == \E k \in S : S = {k}

EventsSent ==
  /\ sent \in Seq(CallEvent)
  /\ \A k \in DOMAIN sent :
       /\ sent[k].call \in DOMAIN calls /\ stage[sent[k].call] = "done"
       /\ RightAction(sent[k])
  /\ pc \in {"enter", "tools", "interrupted"} =>
       /\ direct # 0 => EventsOf(direct) = {}
       /\ \A c \in DOMAIN calls \ {direct} :
            IF stage[c] = "done" THEN One(EventsOf(c)) ELSE EventsOf(c) = {}

EventHeld ==
  /\ held # <<>> =>
       /\ held \in Seq(CallEvent) /\ Len(held) = 1
       /\ pc \in {"tools", "interrupted"} =>
            direct # 0 /\ held[1].call = direct /\ stage[direct] = "done" /\ RightAction(held[1])
  /\ cut \subseteq {c \in DOMAIN calls : stage[c] = "done"}
  /\ pc = "interrupted" => \A c \in DOMAIN calls : stage[c] = "done" => c \in cut
  /\ pc \in {"start", "enter"} => held = <<>>
  /\ pc \in {"enter", "tools"} /\ direct # 0 /\ stage[direct] = "done" =>
       (held = <<>> <=> direct \in cut)

\* An action waits for the end of the call that set it.
ActionsWait ==
  /\ \A t \in Tool \ streamed :
       actions[t] # 0 => /\ actions[t] \in acted /\ calls[actions[t]] = t
                         /\ stage[actions[t]] # "done"
  /\ \A c \in acted :
       OnlyCallOf(c) /\ calls[c] \notin streamed /\ stage[c] # "done" => actions[calls[c]] = c

KeepInv ==
  Adk => /\ pc # "failed" => EventsSent /\ EventHeld /\ ActionsWait
         /\ ActionsKept

\* No message has been asked for at first.
LEMMA ReactInitial == Init => ChoiceInv /\ KeepInv
<1>. SUFFICES ASSUME Init
             PROVE  ChoiceInv /\ KeepInv
  OBVIOUS
<1>1. /\ pc = "start" /\ direct = 0 /\ calls = <<>> /\ stage = <<>> /\ held = <<>>
      /\ answer = 0 /\ sent = <<>> /\ acted = {} /\ cut = {} /\ asked = 0
      /\ actions = [t \in Tool |-> 0] /\ left = IF Adk THEN MaxTurns ELSE MaxSteps
  BY DEF Init, WorkflowInit, ReactInit
<1>2. DOMAIN calls = {} /\ DOMAIN stage = {} /\ DOMAIN sent = {} /\ sent \in Seq(CallEvent)
      /\ calls \in Seq(Tool)
  BY <1>1
<1>3. ReactType /\ TurnsCounted
  BY <1>1, <1>2, ReactAssumption DEF ReactType, TurnsCounted
<1>4. Chosen
  BY <1>1, <1>2 DEF Chosen, Listed, AllDone, Entered
<1>5. EventsSent /\ EventHeld /\ ActionsWait /\ ActionsKept
  BY <1>1, <1>2 DEF EventsSent, EventHeld, ActionsWait, ActionsKept
<1>6. ~Reacts => direct = 0 /\ calls = <<>> /\ acted = {} /\ answer = 0
  BY <1>1
<1>. QED
  BY <1>3, <1>4, <1>5, <1>6 DEF ChoiceInv, KeepInv

\* The choice is one of the calls that are listed.
LEMMA FirstIsListed ==
  ASSUME calls \in Seq(Tool), Listed(calls) # {}, given
  PROVE  FirstListed \in Listed(calls)
<1>1. Listed(calls) \in SUBSET Nat
  BY DEF Listed
<1>. QED
  BY <1>1, LeastOne DEF FirstListed

\* So is the last one.
LEMMA LastIsListed ==
  ASSUME calls \in Seq(Tool), Listed(calls) # {}
  PROVE  LastListed \in Listed(calls)
<1>1. Listed(calls) \in SUBSET Nat /\ Len(calls) \in Nat
      /\ \A c \in Listed(calls) : c <= Len(calls)
  BY DEF Listed
<1>. QED
  BY <1>1, GreatestOne DEF LastListed

\* A model's message has none of its calls done, and waits for the tools node.
LEMMA AskChosen ==
  ASSUME ReactType, TurnsCounted, Chosen, NEW m \in Message, mode' = mode,
         CallModel(m) \/ CallModelTextFirst(m)
  PROVE  (ReactType /\ TurnsCounted /\ Chosen)'
<1>1. /\ left \in Nat /\ left # 0 /\ left' = left - 1 /\ asked' = asked + 1 /\ direct' = direct
      /\ pc = "start" /\ actions' = actions /\ listed' = listed /\ answer' = answer /\ Adk' = Adk
  BY DEF CallModel, CallModelTextFirst, ReactType, Unlimited, Adk, callVars
<1>2. direct = 0 /\ answer = 0
  BY <1>1 DEF Chosen
<1>3. m \in Seq(Tool) /\ <<>> \in Seq(Tool)
  BY ReactAssumption DEF Message
<1>4. CASE CallModel(m)
  <2>1. /\ calls' = m /\ given' = TRUE /\ stage' = [c \in DOMAIN m |-> "todo"] /\ acted' = {}
        /\ pc' = IF m = <<>> THEN "done" ELSE "enter"
    BY <1>4 DEF CallModel
  <2>. QED
    BY <1>1, <1>2, <1>3, <2>1 DEF ReactType, TurnsCounted, Chosen, Entered, AllDone, Adk
<1>5. CASE CallModelTextFirst(m)
  <2>1. calls' = <<>> /\ pc' = "done" /\ ~Adk
    BY <1>5 DEF CallModelTextFirst
  <2>. QED
    BY <1>1, <1>2, <1>3, <2>1 DEF ReactType, TurnsCounted, Chosen, Entered, AllDone, Adk
<1>. QED
  BY <1>4, <1>5

\* The tools node is entered with the choice made.
LEMMA EnterChosen ==
  ASSUME ReactType, TurnsCounted, Chosen, EnterTools, mode' = mode, Reacts
  PROVE  (ReactType /\ TurnsCounted /\ Chosen)'
<1>1. /\ pc = "enter" /\ pc' = "tools" /\ calls' = calls /\ given' = given /\ listed' = listed
      /\ stage' = [c \in DOMAIN calls |-> IF stage[c] = "done" THEN "done" ELSE "run"]
      /\ direct' = IF Adk THEN LastListed ELSE FirstListed
      /\ left' = IF Adk THEN left ELSE left - 1
      /\ actions' = actions /\ acted' = acted /\ asked' = asked /\ answer' = answer
      /\ (Adk \/ left # 0) /\ Adk' = Adk
  BY DEF EnterTools, Unlimited, Adk
<1>2. Listed(calls)' = Listed(calls) /\ calls \in Seq(Tool) /\ Listed(calls) \subseteq Nat
  BY <1>1 DEF Listed, ReactType
<1>3. CASE Adk
  <2>1. direct' = LastListed
    BY <1>1, <1>3
  <2>2. CASE Listed(calls) = {}
    <3>1. LastListed = direct /\ direct = 0
      BY <2>2, <1>1, <1>3 DEF LastListed, Chosen, Entered
    <3>2. LastListed' = direct'
      BY <2>2, <1>2 DEF LastListed
    <3>. QED
      BY <1>1, <1>2, <1>3, <2>1, <2>2, <3>1, <3>2 DEF ReactType, TurnsCounted, Chosen, Entered, AllDone
  <2>3. CASE Listed(calls) # {}
    <3>1. LastListed \in Listed(calls) /\ LastListed' = LastListed
      BY <2>3, <1>1, <1>2, LastIsListed DEF LastListed
    <3>2. 0 \notin Listed(calls)
      BY <1>2 DEF Listed
    <3>. QED
      BY <1>1, <1>2, <1>3, <2>1, <2>3, <3>1, <3>2 DEF ReactType, TurnsCounted, Chosen, Entered, AllDone
  <2>. QED
    BY <2>2, <2>3
<1>4. CASE ~Adk
  <2>1. direct' = FirstListed /\ left' = left - 1 /\ left' \in Nat
    BY <1>1, <1>4 DEF ReactType
  <2>2. 0 \notin Listed(calls)
    BY <1>2 DEF Listed
  <2>3. /\ direct' \in Listed(calls) \union acted \union {0} /\ direct' \in Nat
        /\ direct' = 0 => Listed(calls) = {} /\ acted = {}
    <3>1. CASE ~given
      BY <3>1, <1>1, <1>4, <2>1 DEF FirstListed, Chosen, Entered, ReactType
    <3>2. CASE given /\ Listed(calls) = {}
      BY <3>2, <1>1, <1>4, <2>1 DEF FirstListed, Chosen
    <3>3. CASE given /\ Listed(calls) # {}
      BY <3>3, <1>1, <1>2, <1>4, <2>1, <2>2, FirstIsListed DEF Chosen
    <3>. QED
      BY <3>1, <3>2, <3>3
  <2>. QED
    BY <1>1, <1>2, <1>4, <2>1, <2>3 DEF ReactType, TurnsCounted, Chosen, Entered, AllDone
<1>. QED
  BY <1>3, <1>4

\* What a call does in the tools node.
CallStep(c) ==
  \/ SendToolGenAction(c) \/ SetReturnDirectly(c)
  \/ ToolEnds(c) \/ ToolStreams(c) \/ ToolReturns(c) \/ ToolGivesUp(c)

\* A call changes the choice only by SetReturnDirectly.
LEMMA CallChosen ==
  ASSUME ReactType, TurnsCounted, Chosen, NEW c \in DOMAIN calls, CallStep(c), mode' = mode, Reacts
  PROVE  (ReactType /\ TurnsCounted /\ Chosen)'
<1>1. /\ pc = "tools" /\ pc' = "tools" /\ calls' = calls /\ given' = given /\ listed' = listed
      /\ left' = left /\ asked' = asked /\ answer' = answer /\ Adk' = Adk
      /\ DOMAIN stage' = DOMAIN stage
  BY DEF CallStep, SendToolGenAction, SetReturnDirectly, ToolEnds, ToolStreams, ToolReturns,
         ToolGivesUp, ToolDone, Running, MayAct, stateVars, Adk
<1>2. c \in Nat /\ c # 0 /\ calls[c] \in Tool
  BY DEF ReactType
<1>3. actions' \in [Tool -> Nat]
  BY <1>2 DEF CallStep, SendToolGenAction, SetReturnDirectly, ToolEnds, ToolStreams, ToolReturns,
              ToolGivesUp, ToolDone, stateVars, ReactType
<1>4. Listed(calls)' = Listed(calls)
  BY <1>1 DEF Listed
<1>5. CASE SetReturnDirectly(c)
  <2>1. direct' = c /\ acted' = acted \union {c} /\ ~Adk
    BY <1>5 DEF SetReturnDirectly
  <2>. QED
    BY <1>1, <1>2, <1>3, <1>4, <2>1 DEF ReactType, TurnsCounted, Chosen, Entered, AllDone, Adk
<1>6. CASE ~SetReturnDirectly(c)
  <2>1. direct' = direct
    BY <1>6 DEF CallStep, SendToolGenAction, ToolEnds, ToolStreams, ToolReturns, ToolGivesUp,
                ToolDone, stateVars
  <2>2. acted' = acted \/ (acted' = acted \union {c} /\ Adk)
    BY <1>6 DEF CallStep, SendToolGenAction, ToolEnds, ToolStreams, ToolReturns, ToolGivesUp,
                ToolDone, stateVars
  <2>3. LastListed' = LastListed
    BY <1>1, <1>4, <2>1 DEF LastListed
  <2>. QED
    BY <1>1, <1>2, <1>3, <1>4, <2>1, <2>2, <2>3
    DEF ReactType, TurnsCounted, Chosen, Entered, AllDone, Adk
<1>. QED
  BY <1>5, <1>6

\* How the run goes on, or ends.
LEMMA EndChosen ==
  ASSUME ReactType, TurnsCounted, Chosen, mode' = mode, Reacts,
         \/ OutOfSteps \/ OutOfTurns \/ ToolsNodeError \/ ToolsNodeEnd \/ Convert
         \/ directReturn \/ ResumeReact
  PROVE  (ReactType /\ TurnsCounted /\ Chosen)'
<1>1. Adk' = Adk
  BY DEF Adk
<1>2. CASE OutOfSteps \/ OutOfTurns
  BY <1>1, <1>2 DEF OutOfSteps, OutOfTurns, reactVars, stateVars, callVars, ReactType, TurnsCounted,
     Chosen, Entered
<1>3. CASE ToolsNodeError
  <2>1. /\ pc = "tools" /\ pc' \in {"failed", "interrupted"} /\ UNCHANGED <<listed, stateVars, stage,
           answer, acted, asked>>
    BY <1>3 DEF ToolsNodeError, Settled
  <2>. QED
    BY <1>1, <2>1 DEF stateVars, ReactType, TurnsCounted, Chosen, Entered, Listed, LastListed
<1>4. CASE ToolsNodeEnd
  <2>1. /\ pc = "tools" /\ pc' = AfterTools /\ UNCHANGED <<listed, stateVars, stage, answer, acted,
           asked>>
        /\ Outcomes = {"done"}
    BY <1>4 DEF ToolsNodeEnd, Settled
  <2>2. AllDone
    BY <2>1 DEF Outcomes, AllDone
  <2>. QED
    BY <1>1, <2>1, <2>2
    DEF stateVars, ReactType, TurnsCounted, Chosen, Entered, Listed, LastListed, AfterTools, AllDone
<1>5. CASE Convert \/ directReturn
  <2>1. /\ pc = "convert" /\ pc' = "done" /\ answer' = direct
        /\ UNCHANGED <<listed, direct, actions, calls, given, stage, acted, asked>>
        /\ left' \in Nat /\ (Adk => left' = left)
    BY <1>5 DEF Convert, directReturn, Picked, Unlimited, ReactType
  <2>2. direct # 0 /\ AllDone /\ direct \in Listed(calls) \union acted
    BY <2>1 DEF Chosen, Entered
  <2>3. stage[direct] = "done"
    BY <2>1, <2>2 DEF AllDone, Listed, ReactType
  <2>. QED
    BY <1>1, <2>1, <2>2, <2>3 DEF ReactType, TurnsCounted, Chosen, Entered, Listed
<1>6. CASE ResumeReact
  <2>1. /\ pc = "interrupted" /\ pc' = "enter" /\ given' = FALSE /\ left' = StateOnResume
        /\ UNCHANGED <<listed, direct, actions, calls, stage, answer, acted, asked>>
    BY <1>6 DEF ResumeReact
  <2>2. left' \in Nat /\ (Adk => left' = left)
    BY <2>1, ReactAssumption DEF StateOnResume, ReactType
  <2>. QED
    BY <1>1, <2>1, <2>2 DEF ReactType, TurnsCounted, Chosen, Entered, Listed, LastListed
<1>. QED
  BY <1>2, <1>3, <1>4, <1>5, <1>6

\* Every step keeps the choice in order.
LEMMA ChoiceStep == ChoiceInv /\ [Next]_vars => ChoiceInv'
<1>. SUFFICES ASSUME ChoiceInv, [Next]_vars
             PROVE  ChoiceInv'
  OBVIOUS
<1>1. mode' = mode /\ Reacts' = Reacts /\ Adk' = Adk
  BY KindKept DEF Reacts, Adk
<1>2. CASE ~Reacts
  BY <1>1, <1>2, KindKept DEF ChoiceInv, reactVars, stateVars, callVars
<1>3. CASE UNCHANGED vars
  BY <1>1, <1>3 DEF vars, workflowVars, reactVars, stateVars, callVars, ChoiceInv, ReactType,
     TurnsCounted, Chosen, Entered, Listed, LastListed, AllDone
<1>4. CASE Reacts /\ (ReactWork \/ ResumeReact)
  <2>1. ReactType /\ TurnsCounted /\ Chosen
    BY <1>4 DEF ChoiceInv
  <2>2. \/ OutOfSteps \/ OutOfTurns \/ ToolsNodeError \/ ToolsNodeEnd \/ Convert
        \/ directReturn \/ ResumeReact
        \/ \E m \in Message : CallModel(m) \/ CallModelTextFirst(m)
        \/ EnterTools
        \/ \E c \in DOMAIN calls : CallStep(c)
    BY <1>4 DEF ReactWork, CallStep
  <2>. QED
    BY <1>1, <1>4, <2>1, <2>2, AskChosen, EnterChosen, CallChosen, EndChosen DEF ChoiceInv
<1>. QED
  BY <1>2, <1>3, <1>4, KindKept

\* A tool that returns directly does, through all interrupts of its message,
\* and the turns are limited over all resumptions (checkReturnDirect of
\* adk/react.go, getReturnDirectlyToolCallID of flow/agent/react/react.go).
THEOREM DirectCorrect == Spec => []DirectReturns
<1>1. ChoiceInv => DirectReturns
  <2>1. ASSUME ChoiceInv, Reacts
        PROVE  DirectReturns
    BY <2>1 DEF ChoiceInv, ReactType, TurnsCounted, Chosen, DirectReturns
  <2>2. ASSUME ChoiceInv, ~Reacts
        PROVE  DirectReturns
    BY <2>2 DEF ChoiceInv, DirectReturns, Listed, Reacts
  <2>. QED
    BY <2>1, <2>2
<1>2. Init => ChoiceInv
  BY ReactInitial
<1>. QED
  BY <1>1, <1>2, ChoiceStep, PTL DEF Spec

-----------------------------------------------------------------------------
(* The events of the calls of a ChatModelAgent. *)

Kept == EventsSent /\ EventHeld /\ ActionsWait
Types == ReactType /\ Chosen

\* One more event is one more of its call, and of no other.
LEMMA OneMoreEvent ==
  ASSUME sent \in Seq(CallEvent), NEW e \in CallEvent, sent' = Append(sent, e)
  PROVE  /\ sent' \in Seq(CallEvent)
         /\ DOMAIN sent' = DOMAIN sent \union {Len(sent) + 1}
         /\ sent'[Len(sent) + 1] = e
         /\ \A k \in DOMAIN sent : sent'[k] = sent[k]
         /\ EventsOf(e.call)' = EventsOf(e.call) \union {Len(sent) + 1}
         /\ \A c : c # e.call => EventsOf(c)' = EventsOf(c)
<1>1. /\ sent' \in Seq(CallEvent) /\ DOMAIN sent' = DOMAIN sent \union {Len(sent) + 1}
      /\ sent'[Len(sent) + 1] = e
      /\ \A k \in DOMAIN sent : sent'[k] = sent[k] /\ k # Len(sent) + 1
  OBVIOUS
<1>. QED
  BY <1>1 DEF EventsOf

\* The model is asked when no event waits.
LEMMA AskKept ==
  ASSUME Types, Kept, NEW m \in Message, CallModel(m), mode' = mode
  PROVE  (Kept /\ ActionsKept)'
<1>1. /\ pc = "start" /\ calls' = m /\ direct' = direct /\ actions' = actions /\ held' = held
      /\ streamed' = streamed
      /\ stage' = [c \in DOMAIN m |-> "todo"] /\ sent' = <<>> /\ acted' = {} /\ cut' = {}
      /\ pc' = IF m = <<>> THEN "done" ELSE "enter"
  BY DEF CallModel
<1>2. direct = 0 /\ held = <<>> /\ AllDone /\ acted \subseteq DOMAIN calls
  BY <1>1 DEF Types, ReactType, Chosen, Kept, EventHeld
<1>3. \A t \in Tool \ streamed : actions[t] = 0
  BY <1>2 DEF Kept, ActionsWait, AllDone
<1>4. DOMAIN sent' = {} /\ sent' \in Seq(CallEvent) /\ \A c : EventsOf(c)' = {}
  BY <1>1 DEF EventsOf
<1>. QED
  BY <1>1, <1>2, <1>3, <1>4 DEF Kept, EventsSent, EventHeld, ActionsWait, ActionsKept

\* The calls go to the tools node.
LEMMA EnterKept ==
  ASSUME Types, Types', Kept, EnterTools, Adk, mode' = mode
  PROVE  (Kept /\ ActionsKept)'
<1>1. /\ pc = "enter" /\ pc' = "tools" /\ calls' = calls /\ actions' = actions /\ held' = held
      /\ sent' = sent /\ acted' = acted /\ cut' = cut /\ streamed' = streamed
      /\ stage' = [c \in DOMAIN calls |-> IF stage[c] = "done" THEN "done" ELSE "run"]
      /\ direct' = LastListed
  BY DEF EnterTools
<1>2. \A c \in DOMAIN calls : stage'[c] = "done" <=> stage[c] = "done"
  BY <1>1
<1>3. /\ \A c : EventsOf(c)' = EventsOf(c)
      /\ \A c : OnlyCallOf(c)' <=> OnlyCallOf(c)
      /\ \A e : RightAction(e)' <=> RightAction(e)
  BY <1>1 DEF EventsOf, OnlyCallOf, RightAction
<1>4. acted \subseteq DOMAIN calls /\ 0 \notin DOMAIN calls /\ Listed(calls) \subseteq DOMAIN calls
  BY <1>1 DEF Types, ReactType, Listed
<1>5. direct' # 0 => EventsOf(direct') = {}
  BY <1>1, <1>4 DEF Types, Chosen, Entered, Kept, EventsSent, Listed
<1>6. \A c \in DOMAIN calls \ {direct'} :
        IF stage[c] = "done" THEN One(EventsOf(c)) ELSE EventsOf(c) = {}
  BY <1>1, <1>4 DEF Types, Chosen, Entered, Kept, EventsSent
<1>7. EventsSent'
  BY <1>1, <1>2, <1>3, <1>5, <1>6 DEF Kept, EventsSent
<1>8. held = <<>> /\ (direct' # 0 => direct' \in DOMAIN calls)
  BY <1>1, <1>4 DEF Types, Chosen, Entered, Listed, Kept, EventHeld
<1>9. direct' # 0 /\ stage[direct'] = "done" => direct' \in cut
  BY <1>1, <1>8 DEF Types, Chosen, Entered, Kept, EventHeld
<1>10. cut \subseteq {c \in DOMAIN calls : stage'[c] = "done"}
  BY <1>2 DEF Kept, EventHeld
<1>11. EventHeld'
  BY <1>1, <1>2, <1>8, <1>9, <1>10 DEF EventHeld
<1>12. ActionsWait'
  BY <1>1, <1>2, <1>3, <1>4 DEF Kept, ActionsWait
<1>. QED
  BY <1>1, <1>7, <1>11, <1>12 DEF Kept, ActionsKept

\* A call that is not done stays so, with or without an action.
LEMMA ActKept ==
  ASSUME Types, Kept, NEW c \in DOMAIN calls, SendToolGenAction(c) \/ ToolGivesUp(c), mode' = mode
  PROVE  (Kept /\ ActionsKept)'
<1>1. /\ pc = "tools" /\ pc' = "tools" /\ calls' = calls /\ direct' = direct /\ held' = held
      /\ sent' = sent /\ cut' = cut /\ streamed' = streamed
      /\ stage[c] \in {"run", "acted"}
  BY DEF SendToolGenAction, ToolGivesUp, Running, MayAct, stateVars
<1>2. PICK how \in {"acted", "interrupt", "error"} :
        /\ stage' = [stage EXCEPT ![c] = how]
        /\ \/ acted' = acted \union {c} /\ actions' = [actions EXCEPT ![calls[c]] = c]
           \/ acted' = acted /\ actions' = actions
  BY DEF SendToolGenAction, ToolGivesUp, stateVars
<1>3. /\ DOMAIN stage = DOMAIN calls /\ acted \subseteq DOMAIN calls /\ 0 \notin DOMAIN calls
      /\ DOMAIN calls \subseteq Nat
      /\ actions \in [Tool -> Nat] /\ \A d \in DOMAIN calls : calls[d] \in Tool
  BY <1>1 DEF Types, ReactType
<1>4. /\ \A d \in DOMAIN calls : d # c => stage'[d] = stage[d] /\ (d \in acted' <=> d \in acted)
      /\ stage'[c] # "done" /\ stage[c] # "done" /\ acted' \subseteq DOMAIN calls
      /\ DOMAIN stage' = DOMAIN stage
  BY <1>1, <1>2, <1>3
<1>5. /\ \A d : EventsOf(d)' = EventsOf(d)
      /\ \A d : OnlyCallOf(d)' <=> OnlyCallOf(d)
      /\ \A e : e.call \in DOMAIN calls /\ stage[e.call] = "done" =>
           (RightAction(e)' <=> RightAction(e))
  BY <1>1, <1>4 DEF EventsOf, OnlyCallOf, RightAction
<1>6. EventsSent'
  BY <1>1, <1>3, <1>4, <1>5 DEF Kept, EventsSent
<1>7. direct # 0 => direct \in DOMAIN calls
  BY <1>1, <1>3 DEF Types, Chosen, Entered, Listed
<1>8. EventHeld'
  BY <1>1, <1>3, <1>4, <1>5, <1>7 DEF Kept, EventHeld
<1>9. ActionsWait'
  <2>1. CASE acted' = acted /\ actions' = actions
    BY <1>1, <1>3, <1>4, <1>5, <2>1 DEF Kept, ActionsWait
  <2>2. CASE acted' = acted \union {c} /\ actions' = [actions EXCEPT ![calls[c]] = c]
    <3>1. \A t \in Tool : actions'[t] = IF t = calls[c] THEN c ELSE actions[t]
      BY <1>3, <2>2
    <3>2. \A t \in Tool \ streamed :
            actions'[t] # 0 => /\ actions'[t] \in acted' /\ calls[actions'[t]] = t
                               /\ stage'[actions'[t]] # "done"
      <4>. SUFFICES ASSUME NEW t \in Tool \ streamed, actions'[t] # 0
                   PROVE  /\ actions'[t] \in acted' /\ calls[actions'[t]] = t
                          /\ stage'[actions'[t]] # "done"
        OBVIOUS
      <4>1. CASE t = calls[c]
        BY <3>1, <4>1, <1>4, <2>2
      <4>2. CASE t # calls[c]
        BY <3>1, <4>2, <1>3, <1>4, <2>2 DEF Kept, ActionsWait
      <4>. QED
        BY <4>1, <4>2
    <3>3. \A d \in acted' :
            OnlyCallOf(d) /\ calls[d] \notin streamed /\ stage'[d] # "done" =>
              actions'[calls[d]] = d
      BY <3>1, <1>3, <1>4, <2>2 DEF Kept, ActionsWait, OnlyCallOf
    <3>. QED
      BY <3>2, <3>3, <1>1, <1>5 DEF ActionsWait
  <2>. QED
    BY <2>1, <2>2, <1>2
<1>. QED
  BY <1>1, <1>6, <1>8, <1>9 DEF Kept, ActionsKept

\* A call that ends tells of itself, with its action.
LEMMA EndsKept ==
  ASSUME Types, Kept, NEW c \in DOMAIN calls, ToolEnds(c) \/ ToolStreams(c), mode' = mode
  PROVE  (Kept /\ ActionsKept)'
<1>1. /\ pc = "tools" /\ pc' = "tools" /\ calls' = calls /\ direct' = direct /\ cut' = cut
      /\ streamed' = streamed /\ acted' = acted
      /\ stage[c] \in {"run", "acted"} /\ stage' = [stage EXCEPT ![c] = "done"]
  BY DEF ToolEnds, ToolStreams, ToolDone, Running
<1>2. /\ DOMAIN stage = DOMAIN calls /\ acted \subseteq DOMAIN calls /\ 0 \notin DOMAIN calls
      /\ DOMAIN calls \subseteq Nat
      /\ actions \in [Tool -> Nat] /\ \A d \in DOMAIN calls : calls[d] \in Tool
  <2>1. calls \in Seq(Tool) /\ pc # "done"
    BY <1>1 DEF Types, ReactType
  <2>. QED
    BY <2>1 DEF Types, ReactType
<1>3. PICK a \in Nat :
        /\ Tell([call |-> c, action |-> a])
        /\ \/ calls[c] \notin streamed /\ a = actions[calls[c]]
              /\ actions' = [actions EXCEPT ![calls[c]] = 0]
           \/ calls[c] \in streamed /\ actions' = actions
  BY <1>2 DEF ToolEnds, ToolStreams
<1>. DEFINE e == [call |-> c, action |-> a]
<1>4. e \in CallEvent /\ e.call = c
  BY <1>2 DEF CallEvent
<1>5. RightAction(e)
  BY <1>1, <1>2, <1>3 DEF RightAction, Kept, ActionsWait, OnlyCallOf
<1>. HIDE DEF e
<1>6. /\ \A d \in DOMAIN calls : d # c => stage'[d] = stage[d]
      /\ stage'[c] = "done" /\ stage[c] # "done"
  BY <1>1, <1>2
<1>7. /\ \A d : OnlyCallOf(d)' <=> OnlyCallOf(d)
      /\ \A x : RightAction(x)' <=> RightAction(x)
  BY <1>1 DEF OnlyCallOf, RightAction
<1>8. Tell(e)
  BY <1>3 DEF e
<1>9. ActionsWait'
  <2>1. \A t \in Tool \ streamed :
          actions'[t] # 0 => t # calls[c] /\ actions'[t] = actions[t]
    BY <1>2, <1>3
  <2>2. \A d \in acted : OnlyCallOf(d) /\ d # c => calls[d] # calls[c]
    BY DEF OnlyCallOf
  <2>3. \A t \in Tool : t # calls[c] => actions'[t] = actions[t]
    BY <1>2, <1>3
  <2>. QED
    BY <1>1, <1>2, <1>6, <1>7, <2>1, <2>2, <2>3 DEF Kept, ActionsWait
<1>10. CASE direct = c
  <2>1. held' = <<e>> /\ sent' = sent
    BY <1>4, <1>8, <1>10 DEF Tell
  <2>2. \A d : EventsOf(d)' = EventsOf(d)
    BY <2>1 DEF EventsOf
  <2>3. EventsSent'
    BY <1>1, <1>2, <1>6, <1>7, <1>10, <2>1, <2>2 DEF Kept, EventsSent
  <2>4. held' \in Seq(CallEvent) /\ Len(held') = 1 /\ held'[1] = e /\ held' # <<>>
    BY <1>4, <2>1
  <2>5. c \notin cut
    BY <1>6 DEF Kept, EventHeld
  <2>6. EventHeld'
    BY <1>1, <1>2, <1>4, <1>5, <1>6, <1>7, <1>10, <2>4, <2>5 DEF Kept, EventHeld
  <2>. QED
    BY <1>1, <1>9, <2>3, <2>6 DEF Kept, ActionsKept
<1>11. CASE direct # c
  <2>1. held' = held /\ sent' = Append(sent, e)
    BY <1>4, <1>8, <1>11 DEF Tell
  <2>2. /\ sent' \in Seq(CallEvent)
        /\ DOMAIN sent' = DOMAIN sent \union {Len(sent) + 1}
        /\ sent'[Len(sent) + 1] = e
        /\ \A k \in DOMAIN sent : sent'[k] = sent[k]
        /\ EventsOf(c)' = EventsOf(c) \union {Len(sent) + 1}
        /\ \A d : d # c => EventsOf(d)' = EventsOf(d)
    BY <1>4, <2>1, OneMoreEvent DEF Kept, EventsSent
  <2>3. EventsOf(c) = {}
    BY <1>1, <1>6, <1>11 DEF Kept, EventsSent
  <2>4. One(EventsOf(c)')
    BY <2>2, <2>3 DEF One
  <2>5. \A k \in DOMAIN sent' : /\ sent'[k].call \in DOMAIN calls /\ stage'[sent'[k].call] = "done"
                                 /\ RightAction(sent'[k])
    BY <1>4, <1>5, <1>6, <2>2 DEF Kept, EventsSent
  <2>6. EventsSent'
    BY ZenonT(60), <1>1, <1>6, <1>7, <1>11, <2>2, <2>4, <2>5 DEF Kept, EventsSent
  <2>7. direct # 0 => direct \in DOMAIN calls
    BY <1>1, <1>2 DEF Types, Chosen, Entered, Listed
  <2>8. EventHeld'
    BY <1>1, <1>6, <1>7, <1>11, <2>1, <2>7 DEF Kept, EventHeld
  <2>. QED
    BY <1>1, <1>9, <2>6, <2>8 DEF Kept, ActionsKept
<1>. QED
  BY <1>10, <1>11

\* The event that is held comes last.
LEMMA NodeEndKept ==
  ASSUME Types, Kept, ToolsNodeEnd, Adk, mode' = mode
  PROVE  (Kept /\ ActionsKept)'
<1>1. /\ pc = "tools" /\ pc' = (IF direct # 0 THEN "convert" ELSE "start") /\ calls' = calls
      /\ direct' = direct /\ actions' = actions /\ held' = held /\ sent' = sent \o held
      /\ cut' = cut /\ streamed' = streamed /\ acted' = acted /\ stage' = stage
      /\ Outcomes = {"done"}
  BY DEF ToolsNodeEnd, Settled, AfterTools, stateVars
<1>2. /\ \A c \in DOMAIN calls : stage[c] = "done"
      /\ 0 \notin DOMAIN calls /\ (direct # 0 => direct \in DOMAIN calls)
  <2>1. calls \in Seq(Tool) /\ DOMAIN stage = DOMAIN calls /\ acted \subseteq DOMAIN calls
    BY <1>1 DEF Types, ReactType
  <2>2. \A c \in DOMAIN calls : stage[c] = "done"
    BY <1>1 DEF Outcomes
  <2>. QED
    BY <1>1, <2>1, <2>2 DEF Types, Chosen, Entered, Listed
<1>3. /\ \A d : OnlyCallOf(d)' <=> OnlyCallOf(d)
      /\ \A x : RightAction(x)' <=> RightAction(x)
      /\ \A d : LostToInterrupt(d)' <=> LostToInterrupt(d)
  BY <1>1 DEF OnlyCallOf, RightAction, LostToInterrupt
<1>4. sent \in Seq(CallEvent) /\ Len(sent) \in Nat
  BY DEF Kept, EventsSent
<1>5. /\ direct # 0 => EventsOf(direct) = {}
      /\ \A c \in DOMAIN calls \ {direct} : One(EventsOf(c))
  BY <1>1, <1>2 DEF Kept, EventsSent
<1>6. ActionsWait'
  BY <1>1, <1>3 DEF Kept, ActionsWait
<1>7. CASE held = <<>>
  <2>1. sent' = sent
    BY <1>1, <1>4, <1>7
  <2>2. \A d : EventsOf(d)' = EventsOf(d)
    BY <2>1 DEF EventsOf
  <2>3. direct # 0 => LostToInterrupt(direct)
    BY <1>1, <1>2, <1>7 DEF Kept, EventHeld, LostToInterrupt
  <2>4. EventsSent' /\ EventHeld'
    BY <1>1, <1>2, <1>3, <1>7, <2>1, <2>2 DEF Kept, EventsSent, EventHeld
  <2>5. \A k \in DOMAIN sent : RightAction(sent[k])
    BY DEF Kept, EventsSent
  <2>6. \A c \in DOMAIN calls :
           IF LostToInterrupt(c) THEN EventsOf(c) = {} ELSE \E k \in DOMAIN sent : EventsOf(c) = {k}
    <3>. SUFFICES ASSUME NEW c \in DOMAIN calls
                 PROVE  IF LostToInterrupt(c) THEN EventsOf(c) = {} ELSE \E k \in DOMAIN sent : EventsOf(c) = {k}
      OBVIOUS
    <3>1. CASE c = direct
      BY <1>2, <1>5, <2>3, <3>1
    <3>2. CASE c # direct
      BY <1>5, <3>2 DEF LostToInterrupt, One, EventsOf
    <3>. QED
      BY <3>1, <3>2
  <2>7. \A e \in ToSet(sent) : RightAction(e)
    BY <2>5 DEF ToSet
  <2>8. ActionsKept'
    BY <1>1, <1>3, <2>1, <2>2, <2>3, <2>6, <2>7 DEF ActionsKept, RightAction
  <2>. QED
    BY <1>6, <2>4, <2>8 DEF Kept
<1>8. CASE held # <<>>
  <2>1. /\ held \in Seq(CallEvent) /\ Len(held) = 1 /\ held[1].call = direct /\ direct # 0
        /\ RightAction(held[1]) /\ direct \notin cut
    BY <1>1, <1>2, <1>8 DEF Kept, EventHeld
  <2>2. PICK e \in CallEvent : held = <<e>> /\ e = held[1]
    BY <2>1
  <2>3. sent' = Append(sent, e)
    <3>1. sent' = sent \o <<e>>
      BY <1>1, <2>2
    <3>. QED
      BY <1>4, <2>2, <3>1
  <2>4. e.call = direct /\ RightAction(e)
    BY <2>1, <2>2
  <2>5. /\ sent' \in Seq(CallEvent)
        /\ DOMAIN sent' = DOMAIN sent \union {Len(sent) + 1}
        /\ sent'[Len(sent) + 1] = e
        /\ \A k \in DOMAIN sent : sent'[k] = sent[k]
        /\ EventsOf(e.call)' = EventsOf(e.call) \union {Len(sent) + 1}
        /\ \A d : d # e.call => EventsOf(d)' = EventsOf(d)
    BY <1>4, <2>2, <2>3, OneMoreEvent
  <2>6. \A k \in DOMAIN sent' : /\ sent'[k].call \in DOMAIN calls /\ stage[sent'[k].call] = "done"
                                 /\ RightAction(sent'[k])
    BY <1>2, <2>1, <2>4, <2>5 DEF Kept, EventsSent
  <2>7. EventsSent' /\ EventHeld'
    BY <1>1, <1>2, <1>3, <1>8, <2>1, <2>5, <2>6 DEF Kept, EventsSent, EventHeld
  <2>8. \A c \in DOMAIN calls : ~LostToInterrupt(c) /\ \E k \in DOMAIN sent' : EventsOf(c)' = {k}
    <3>. SUFFICES ASSUME NEW c \in DOMAIN calls
                 PROVE  \E k \in DOMAIN sent' : EventsOf(c)' = {k}
      BY <2>1 DEF LostToInterrupt
    <3>1. CASE c = direct
      <4>1. c = e.call /\ EventsOf(c) = {}
        BY <1>1, <1>5, <2>1, <2>4, <3>1
      <4>. QED
        BY <2>5, <4>1
    <3>2. CASE c # direct
      <4>1. PICK k \in EventsOf(c) : EventsOf(c) = {k}
        BY <1>5, <3>2 DEF One
      <4>. QED
        BY <2>4, <2>5, <3>2, <4>1 DEF EventsOf
    <3>. QED
      BY <3>1, <3>2
  <2>9. \A x \in ToSet(sent') : RightAction(x)
    BY <2>6 DEF ToSet
  <2>10. Last(sent').call = direct
    BY <1>4, <2>3, <2>2, <2>4 DEF Last
  <2>11. ActionsKept'
    BY <1>1, <1>3, <2>8, <2>9, <2>10 DEF ActionsKept, RightAction
  <2>. QED
    BY <1>6, <2>7, <2>11 DEF Kept
<1>. QED
  BY <1>7, <1>8

\* The tools node fails, its results are taken, or the agent is resumed.
LEMMA GoOnKept ==
  ASSUME Types, Kept, ActionsKept, Adk, mode' = mode,
         ToolsNodeError \/ Convert \/ ResumeReact
  PROVE  (pc' # "failed" => Kept') /\ ActionsKept'
<1>1. CASE ToolsNodeError
  <2>1. /\ pc = "tools" /\ pc' \in {"failed", "interrupted"} /\ calls' = calls /\ direct' = direct
        /\ actions' = actions /\ held' = held /\ sent' = sent /\ streamed' = streamed
        /\ acted' = acted /\ stage' = stage
        /\ cut' = cut \union {c \in DOMAIN calls : stage[c] = "done"}
    BY <1>1 DEF ToolsNodeError, Settled, stateVars
  <2>2. /\ \A d : OnlyCallOf(d)' <=> OnlyCallOf(d)
        /\ \A x : RightAction(x)' <=> RightAction(x)
        /\ \A d : EventsOf(d)' = EventsOf(d)
    BY <2>1 DEF OnlyCallOf, RightAction, EventsOf
  <2>3. pc' # "failed" => EventsSent' /\ ActionsWait'
    BY <2>1, <2>2 DEF Kept, EventsSent, ActionsWait
  <2>4. EventHeld'
    BY <2>1, <2>2 DEF Kept, EventHeld
  <2>. QED
    BY <2>1, <2>3, <2>4 DEF Kept, ActionsKept
<1>2. CASE Convert
  <2>1. /\ pc = "convert" /\ pc' = "done" /\ calls' = calls /\ direct' = direct
        /\ actions' = actions /\ held' = held /\ sent' = sent /\ streamed' = streamed
        /\ acted' = acted /\ stage' = stage /\ cut' = cut
    BY <1>2 DEF Convert, Picked
  <2>2. /\ \A d : OnlyCallOf(d)' <=> OnlyCallOf(d)
        /\ \A x : RightAction(x)' <=> RightAction(x)
        /\ \A d : EventsOf(d)' = EventsOf(d)
        /\ \A d : LostToInterrupt(d)' <=> LostToInterrupt(d)
    BY <2>1 DEF OnlyCallOf, RightAction, EventsOf, LostToInterrupt
  <2>. QED
    BY <2>1, <2>2 DEF Kept, EventsSent, EventHeld, ActionsWait, ActionsKept
<1>3. CASE ResumeReact
  <2>1. /\ pc = "interrupted" /\ pc' = "enter" /\ calls' = calls /\ direct' = direct
        /\ actions' = actions /\ held' = <<>> /\ sent' = sent /\ streamed' = streamed
        /\ acted' = acted /\ stage' = stage /\ cut' = cut
    BY <1>3 DEF ResumeReact
  <2>2. /\ \A d : OnlyCallOf(d)' <=> OnlyCallOf(d)
        /\ \A x : RightAction(x)' <=> RightAction(x)
        /\ \A d : EventsOf(d)' = EventsOf(d)
    BY <2>1 DEF OnlyCallOf, RightAction, EventsOf
  <2>3. EventsSent' /\ ActionsWait'
    BY <2>1, <2>2 DEF Kept, EventsSent, ActionsWait
  <2>4. direct # 0 => direct \in DOMAIN calls
    BY <2>1 DEF Types, ReactType, Chosen, Entered, Listed
  <2>5. EventHeld'
    BY <2>1, <2>4 DEF Kept, EventHeld
  <2>. QED
    BY <2>1, <2>3, <2>5 DEF Kept, ActionsKept
<1>. QED
  BY <1>1, <1>2, <1>3

\* Every step keeps the events of actions.
LEMMA KeepStep == ChoiceInv /\ KeepInv /\ [Next]_vars => KeepInv'
<1>. SUFFICES ASSUME ChoiceInv, KeepInv, [Next]_vars, Adk
             PROVE  (pc' # "failed" => Kept') /\ ActionsKept'
  BY KindKept DEF KeepInv, Kept, Adk
<1>1. mode' = mode /\ Adk' = Adk /\ Reacts
  BY KindKept DEF Reacts, Adk
<1>2. Types /\ Types'
  BY <1>1, ChoiceStep DEF ChoiceInv, Types, Reacts
<1>3. (pc # "failed" => Kept) /\ ActionsKept
  BY DEF KeepInv, Kept
<1>4. CASE UNCHANGED vars
  BY <1>1, <1>3, <1>4 DEF vars, workflowVars, reactVars, stateVars, callVars, Kept, EventsSent,
     EventHeld, ActionsWait, ActionsKept, OnlyCallOf, RightAction, EventsOf, LostToInterrupt
<1>5. CASE OutOfTurns
  BY <1>5 DEF OutOfTurns, ActionsKept
<1>6. CASE pc # "failed"
  <2>1. Kept
    BY <1>3, <1>6
  <2>2. ~OutOfSteps /\ ~directReturn
        /\ (\A m \in Message : ~CallModelTextFirst(m))
        /\ \A c \in DOMAIN calls : ~SetReturnDirectly(c) /\ ~ToolReturns(c)
    BY DEF OutOfSteps, directReturn, CallModelTextFirst, SetReturnDirectly, ToolReturns
  <2>3. \/ UNCHANGED vars \/ OutOfTurns \/ EnterTools \/ ToolsNodeEnd
        \/ ToolsNodeError \/ Convert \/ ResumeReact
        \/ \E m \in Message : CallModel(m)
        \/ \E c \in DOMAIN calls : SendToolGenAction(c) \/ ToolGivesUp(c)
        \/ \E c \in DOMAIN calls : ToolEnds(c) \/ ToolStreams(c)
    BY <1>1, <2>2, KindKept DEF ReactWork
  <2>. QED
    BY <1>1, <1>2, <1>3, <1>4, <1>5, <2>1, <2>3, AskKept, EnterKept, ActKept, EndsKept,
       NodeEndKept, GoOnKept
<1>7. CASE pc = "failed"
  <2>1. UNCHANGED vars
    BY <1>1, <1>7, KindKept
    DEF ReactWork, OutOfSteps, OutOfTurns, CallModel, CallModelTextFirst, EnterTools,
        ToolsNodeError, ToolsNodeEnd, Settled, Convert, directReturn, SendToolGenAction,
        SetReturnDirectly, ToolEnds, ToolStreams, ToolReturns, ToolGivesUp, ToolDone, Running,
        MayAct, ResumeReact
  <2>. QED
    BY <2>1, <1>4
<1>. QED
  BY <1>6, <1>7

\* Each call of a message has one event, the one to return directly last, and
\* with the action the call set, through all interrupts of the message; except
\* that what an interrupt finds held back is lost (cbHandler of chatmodel.go,
\* toolPreHandle of react.go).
THEOREM ActionsCorrect == Spec => []ActionsKept
<1>1. ChoiceInv /\ KeepInv => ActionsKept
  BY DEF KeepInv, ActionsKept
<1>2. Init => ChoiceInv /\ KeepInv
  BY ReactInitial
<1>3. ChoiceInv /\ KeepInv /\ [Next]_vars => (ChoiceInv /\ KeepInv)'
  BY ChoiceStep, KeepStep
<1>. QED
  BY <1>1, <1>2, <1>3, PTL DEF Spec

-----------------------------------------------------------------------------
(* The flow of agents under a Runner. *)

IsSeq(q) == q \in Seq(ToSet(q))
IsEvent(e) ==
  /\ e = [kind |-> e.kind, dest |-> e.dest, path |-> e.path, n |-> e.n, role |-> e.role, run |-> e.run]
  /\ e.n \in Nat

\* Events as a checkpoint has them.
Bare(S) == {WithoutRole(e) : e \in S}

\* Events come in the order of their numbers.
Numbered ==
  /\ IsSeq(up) /\ IsSeq(got) /\ IsSeq(sessionEvents) /\ count \in Nat
  /\ inHand = <<>> \/ (inHand = <<inHand[1]>> /\ IsEvent(inHand[1]))
  /\ \A i \in 1 .. Len(up) :
       /\ IsEvent(up[i]) /\ up[i].n <= count
       /\ \A j \in 1 .. (i - 1) : up[j].n < up[i].n
  /\ \A e \in ToSet(got) \union ToSet(inHand) :
       e.n \in Nat /\ e.n <= count /\ (up # <<>> => e.n < up[1].n)
  /\ \A e \in ToSet(got) : \A x \in ToSet(inHand) : e.n <= x.n

\* What was passed on is in the session, unless it is an interrupt; except for
\* the error of a transfer, which is the last there is.
InSession(e) == e \in ToSet(sessionEvents) \/ e.kind \in {"interrupt", "unsaved"}

SessionWhole ==
  /\ pc = "start" => up = <<>> /\ got = <<>>
  /\ \A x \in ToSet(inHand) : x.kind = "interrupt"
  /\ pc = "run" \/ (pc = "closing" /\ up # <<>>) => \A e \in ToSet(got) : InSession(e)
  /\ \A i \in 1 .. Len(up) :
       pc = "run" \/ (pc = "closing" /\ i < Len(up)) => InSession(up[i])
  /\ Bare(before) \subseteq Bare(ToSet(sessionEvents))
  /\ store # <<>> =>
       IsSeq(store[1].session) /\ Bare(store[1].told) \subseteq Bare(ToSet(store[1].session))

\* The checkpoint is that of the one interrupt, in the hand of the Runner or
\* passed on.
Served(x) ==
  /\ store # <<>>
  /\ store[1].path = x.path
  /\ Bare(before \union {e \in ToSet(got) : e.n < x.n}) \subseteq ToSet(store[1].session)

OneServed ==
  /\ ~signal => inHand = <<>> /\ \A e \in ToSet(got) : e.kind \notin {"interrupt", "unsaved"}
  /\ (\A e \in ToSet(got) : e.kind # "unsaved") =>
       \A x \in Interrupts \union ToSet(inHand) : Served(x)

FlowInv ==
  /\ mode = "flow" => Numbered /\ SessionWhole /\ OneServed
  /\ mode # "flow" => got = <<>>

\* What Append and Tail do to a sequence of anything.
LEMMA AddIs ==
  ASSUME NEW q, IsSeq(q), NEW e
  PROVE  /\ IsSeq(Append(q, e)) /\ Len(q) \in Nat /\ Len(Append(q, e)) = Len(q) + 1
         /\ \A i \in 1 .. Len(q) : Append(q, e)[i] = q[i]
         /\ Append(q, e)[Len(q) + 1] = e
         /\ ToSet(Append(q, e)) = ToSet(q) \union {e}
         /\ q \o <<e>> = Append(q, e) /\ q \o <<>> = q
<1>. DEFINE S == ToSet(q) \union {e}
            r == Append(q, e)
<1>1. q \in Seq(S) /\ e \in S
  BY SeqMonotonic DEF IsSeq
<1>. HIDE DEF S
<1>2. /\ r \in Seq(S) /\ Len(r) = Len(q) + 1 /\ Len(q) \in Nat
      /\ \A i \in 1 .. Len(q) : r[i] = q[i]
      /\ r[Len(q) + 1] = e
      /\ q \o <<e>> = r /\ q \o <<>> = q
  BY <1>1
<1>3. r \in [1 .. Len(r) -> ToSet(r)] /\ Len(r) \in Nat
  BY <1>1, <1>2, LenProperties DEF ToSet
<1>4. r \in Seq(ToSet(r))
  BY <1>3, SeqDef
<1>5. DOMAIN q = 1 .. Len(q) /\ DOMAIN r = 1 .. Len(q) + 1
  BY <1>1, <1>2
<1>6. ToSet(r) = ToSet(q) \union {e}
  <2>. HIDE DEF r
  <2>. QED
    BY <1>2, <1>5 DEF ToSet
<1>. QED
  BY <1>2, <1>4, <1>6 DEF IsSeq

\* A sequence without its first element.
LEMMA RestIs ==
  ASSUME NEW q, IsSeq(q), q # <<>>
  PROVE  /\ IsSeq(Tail(q)) /\ Len(q) \in Nat \ {0} /\ Len(Tail(q)) = Len(q) - 1
         /\ \A i \in 1 .. Len(q) - 1 : Tail(q)[i] = q[i + 1]
         /\ Head(q) = q[1] /\ q[1] \in ToSet(q)
<1>. DEFINE r == Tail(q)
<1>1. /\ Len(q) \in Nat \ {0} /\ Len(r) = Len(q) - 1 /\ r \in Seq(ToSet(q))
      /\ \A i \in 1 .. Len(q) - 1 : r[i] = q[i + 1]
      /\ Head(q) = q[1] /\ q[1] \in ToSet(q)
  BY DEF IsSeq
<1>2. r \in [1 .. Len(r) -> ToSet(r)] /\ Len(r) \in Nat
  BY <1>1, LenProperties DEF ToSet
<1>3. r \in Seq(ToSet(r))
  BY <1>2, SeqDef
<1>. QED
  BY <1>1, <1>3 DEF IsSeq

\* The empty sequence.
LEMMA NoneIs == IsSeq(<<>>) /\ Len(<<>>) = 0 /\ ToSet(<<>>) = {}
BY EmptySeq DEF IsSeq, ToSet

\* A sequence of one.
LEMMA OneIs == ASSUME NEW e PROVE ToSet(<<e>>) = {e} /\ <<e>> # <<>> /\ <<e>>[1] = e
BY DEF ToSet

\* A session as a checkpoint has it.
LEMMA BareIs ==
  ASSUME NEW q, IsSeq(q)
  PROVE  LET r == [k \in DOMAIN q |-> WithoutRole(q[k])]
         IN IsSeq(r) /\ ToSet(r) = Bare(ToSet(q)) /\ Bare(ToSet(r)) = ToSet(r)
<1>1. PICK r : r = [k \in DOMAIN q |-> WithoutRole(q[k])]
  OBVIOUS
<1>2. Len(q) \in Nat /\ DOMAIN q = 1 .. Len(q)
  BY DEF IsSeq
<1>3. ToSet(r) = Bare(ToSet(q))
  BY <1>1 DEF ToSet, Bare
<1>4. r \in Seq(ToSet(r))
  <2>1. r \in [1 .. Len(q) -> ToSet(r)]
    BY <1>1, <1>2 DEF ToSet
  <2>. QED
    BY <1>2, <2>1, SeqDef
<1>5. \A e : WithoutRole(WithoutRole(e)) = WithoutRole(e)
  BY DEF WithoutRole
<1>6. Bare(Bare(ToSet(q))) = Bare(ToSet(q))
  BY <1>5 DEF Bare
<1>. QED
  BY <1>1, <1>3, <1>4, <1>6 DEF IsSeq

\* There is no checkpoint at first.
LEMMA FlowInitial == Init => FlowInv
<1>. SUFFICES ASSUME Init
             PROVE  FlowInv
  OBVIOUS
<1>1. /\ sessionEvents = <<>> /\ up = <<>> /\ inHand = <<>> /\ got = <<>> /\ store = <<>>
      /\ before = {} /\ count = 0
  BY DEF Init, FlowInit
<1>2. Interrupts = {}
  BY <1>1, NoneIs DEF Interrupts
<1>. QED
  BY <1>1, <1>2, NoneIs DEF FlowInv, Numbered, SessionWhole, OneServed, Bare

\* An event goes to the session and up.
LEMMA PassServed ==
  ASSUME Numbered, SessionWhole, OneServed, NEW say, Pass(say), pc = "run", pc' = "run",
         UNCHANGED <<runnerVars, before>>
  PROVE  (Numbered /\ SessionWhole /\ OneServed)'
<1>1. PICK e : e = Event(say)
  OBVIOUS
<1>2. IsEvent(e) /\ e.n = count + 1
  BY <1>1 DEF Event, IsEvent, Numbered
<1>3. /\ count' = count + 1 /\ up' = Append(up, e) /\ sessionEvents' = sessionEvents \o Recorded(e)
      /\ inHand' = inHand /\ signal' = signal /\ store' = store /\ got' = got /\ before' = before
  BY <1>1 DEF Pass, runnerVars
<1>4. /\ IsSeq(up') /\ Len(up) \in Nat /\ Len(up') = Len(up) + 1
      /\ \A i \in 1 .. Len(up) : up'[i] = up[i]
      /\ up'[Len(up) + 1] = e
  BY <1>3, AddIs DEF Numbered
<1>5. /\ IsSeq(sessionEvents') /\ ToSet(sessionEvents) \subseteq ToSet(sessionEvents')
      /\ e \in ToSet(sessionEvents') \/ e.kind = "interrupt"
  <2>1. IsSeq(sessionEvents)
    BY DEF Numbered
  <2>2. CASE e.kind = "interrupt"
    <3>1. sessionEvents' = sessionEvents
      BY <1>3, <2>1, <2>2, AddIs DEF Recorded
    <3>. QED
      BY <2>1, <2>2, <3>1
  <2>3. CASE e.kind # "interrupt"
    <3>1. sessionEvents' = Append(sessionEvents, e)
      BY <1>3, <2>1, <2>3, AddIs DEF Recorded
    <3>. QED
      BY <2>1, <3>1, AddIs
  <2>. QED
    BY <2>2, <2>3
<1>6. \A x : InSession(x) => InSession(x)'
  BY <1>5 DEF InSession
<1>7. InSession(e)'
  BY <1>5 DEF InSession
<1>8. Numbered'
  <2>1. \A i \in 1 .. Len(up') : /\ IsEvent(up'[i]) /\ up'[i].n <= count'
                                 /\ \A j \in 1 .. (i - 1) : up'[j].n < up'[i].n
    <3>. SUFFICES ASSUME NEW i \in 1 .. Len(up')
                 PROVE  /\ IsEvent(up'[i]) /\ up'[i].n <= count'
                        /\ \A j \in 1 .. (i - 1) : up'[j].n < up'[i].n
      OBVIOUS
    <3>1. CASE i \in 1 .. Len(up)
      BY <3>1, <1>3, <1>4 DEF Numbered, IsEvent
    <3>2. CASE i = Len(up) + 1
      <4>1. \A j \in 1 .. Len(up) : up[j].n \in Nat /\ up[j].n < count + 1 /\ up'[j] = up[j]
        <5>1. \A j \in 1 .. Len(up) : up[j].n \in Nat /\ up[j].n <= count /\ count \in Nat
          BY DEF Numbered, IsEvent
        <5>. QED
          BY <1>4, <5>1
      <4>2. up'[i] = e /\ (i - 1) = Len(up)
        BY <3>2, <1>4
      <4>. QED
        BY <4>1, <4>2, <1>2, <1>3 DEF Numbered
    <3>. QED
      BY <3>1, <3>2, <1>4
  <2>2. \A x \in ToSet(got) \union ToSet(inHand) : x.n \in Nat /\ x.n <= count' /\ x.n < up'[1].n
    <3>1. up # <<>> => Len(up) # 0 /\ up'[1] = up[1]
      BY <1>4 DEF Numbered, IsSeq
    <3>2. up = <<>> => up'[1] = e
      BY <1>4, NoneIs
    <3>. QED
      BY <3>1, <3>2, <1>2, <1>3, <1>4 DEF Numbered
  <2>. QED
    BY <1>3, <1>4, <1>5, <2>1, <2>2 DEF Numbered
<1>9. SessionWhole'
  <2>1. \A i \in 1 .. Len(up') : InSession(up[i])'
    <3>. SUFFICES ASSUME NEW i \in 1 .. Len(up')
                 PROVE  InSession(up[i])'
      OBVIOUS
    <3>1. CASE i \in 1 .. Len(up)
      <4>1. up'[i] = up[i] /\ InSession(up[i])
        BY <3>1, <1>4 DEF SessionWhole
      <4>. QED
        BY <1>5, <4>1 DEF InSession
    <3>2. CASE i = Len(up) + 1
      BY <3>2, <1>4, <1>5 DEF InSession
    <3>. QED
      BY <3>1, <3>2, <1>4
  <2>. QED
    BY <1>3, <1>5, <1>6, <2>1 DEF SessionWhole, Bare
<1>10. OneServed'
  BY <1>3 DEF OneServed, Served, Interrupts
<1>. QED
  BY <1>8, <1>9, <1>10

\* Another agent, or none, is at work.
LEMMA TurnServed ==
  ASSUME Numbered, SessionWhole, OneServed,
         \/ StartFlow \/ AppendTransfers \/ TransferTo \/ EndFlow \/ EndRun
  PROVE  (Numbered /\ SessionWhole /\ OneServed)'
<1>1. /\ UNCHANGED <<sessionEvents, up, runnerVars, before, count>>
      /\ \/ pc = "start" /\ pc' = "run"
         \/ pc = "run" /\ pc' \in {"run", "closing"}
         \/ pc' \in {"interrupted", "done"}
  BY DEF StartFlow, AppendTransfers, TransferTo, EndFlow, EndRun, AgentIsDone, flowVars, agentVars,
         runnerVars
<1>2. pc = "start" => Len(up) = 0 /\ ToSet(got) = {}
  BY NoneIs DEF SessionWhole
<1>. QED
  BY <1>1, <1>2 DEF runnerVars, Numbered, SessionWhole, OneServed, Served, Interrupts, InSession

\* The error of a transfer goes up only.
LEMMA TransferServed ==
  ASSUME Numbered, SessionWhole, OneServed, TransferFails
  PROVE  (Numbered /\ SessionWhole /\ OneServed)'
<1>1. PICK e : e = Event(Say("error", Root))
  OBVIOUS
<1>2. IsEvent(e) /\ e.n = count + 1
  BY <1>1 DEF Event, IsEvent, Numbered
<1>3. /\ count' = count + 1 /\ up' = Append(up, e) /\ sessionEvents' = sessionEvents
      /\ pc = "run" /\ pc' = "closing"
      /\ inHand' = inHand /\ signal' = signal /\ store' = store /\ got' = got /\ before' = before
  BY <1>1 DEF TransferFails, AgentIsDone, runnerVars, agentVars
<1>4. /\ IsSeq(up') /\ Len(up) \in Nat /\ Len(up') = Len(up) + 1
      /\ \A i \in 1 .. Len(up) : up'[i] = up[i]
      /\ up'[Len(up) + 1] = e
  BY <1>3, AddIs DEF Numbered
<1>5. \A x : InSession(x)' <=> InSession(x)
  BY <1>3 DEF InSession
<1>8. Numbered'
  <2>1. \A i \in 1 .. Len(up') : /\ IsEvent(up'[i]) /\ up'[i].n <= count'
                                 /\ \A j \in 1 .. (i - 1) : up'[j].n < up'[i].n
    <3>. SUFFICES ASSUME NEW i \in 1 .. Len(up')
                 PROVE  /\ IsEvent(up'[i]) /\ up'[i].n <= count'
                        /\ \A j \in 1 .. (i - 1) : up'[j].n < up'[i].n
      OBVIOUS
    <3>1. CASE i \in 1 .. Len(up)
      BY <3>1, <1>3, <1>4 DEF Numbered, IsEvent
    <3>2. CASE i = Len(up) + 1
      <4>1. \A j \in 1 .. Len(up) : up[j].n \in Nat /\ up[j].n < count + 1 /\ up'[j] = up[j]
        <5>1. \A j \in 1 .. Len(up) : up[j].n \in Nat /\ up[j].n <= count /\ count \in Nat
          BY DEF Numbered, IsEvent
        <5>. QED
          BY <1>4, <5>1
      <4>2. up'[i] = e /\ (i - 1) = Len(up)
        BY <3>2, <1>4
      <4>. QED
        BY <4>1, <4>2, <1>2, <1>3 DEF Numbered
    <3>. QED
      BY <3>1, <3>2, <1>4
  <2>2. \A x \in ToSet(got) \union ToSet(inHand) : x.n \in Nat /\ x.n <= count' /\ x.n < up'[1].n
    <3>1. up # <<>> => Len(up) # 0 /\ up'[1] = up[1]
      BY <1>4 DEF Numbered, IsSeq
    <3>2. up = <<>> => up'[1] = e
      BY <1>4, NoneIs
    <3>. QED
      BY <3>1, <3>2, <1>2, <1>3, <1>4 DEF Numbered
  <2>. QED
    BY <1>3, <1>4, <2>1, <2>2 DEF Numbered
<1>9. SessionWhole'
  <2>1. \A i \in 1 .. Len(up') : i < Len(up') => InSession(up[i]) /\ up'[i] = up[i]
    BY <1>3, <1>4 DEF SessionWhole
  <2>2. \A i \in 1 .. Len(up') : i < Len(up') => InSession(up[i])'
    BY <1>3, <2>1 DEF InSession
  <2>. QED
    BY <1>3, <1>5, <2>2 DEF SessionWhole
<1>10. OneServed'
  BY <1>3 DEF OneServed, Served, Interrupts
<1>. QED
  BY <1>8, <1>9, <1>10

\* The Runner takes the first event on its way.
LEMMA TakeServed ==
  ASSUME Numbered, SessionWhole, up # <<>>, up' = Tail(up), pc \in {"run", "closing"}
  PROVE  /\ Head(up) = up[1] /\ IsEvent(up[1]) /\ IsSeq(up')
         /\ up[1].n \in Nat /\ up[1].n <= count
         /\ \A i \in 1 .. Len(up') :
              /\ IsEvent(up'[i]) /\ up'[i].n <= count /\ up[1].n < up'[i].n
              /\ \A j \in 1 .. (i - 1) : up'[j].n < up'[i].n
              /\ pc = "run" \/ i < Len(up') => InSession(up'[i])
         /\ up' # <<>> => up[1].n < up'[1].n
         /\ pc = "run" \/ up' # <<>> => InSession(up[1])
         /\ \A e \in ToSet(got) \union ToSet(inHand) : e.n \in Nat /\ e.n < up[1].n
<1>1. /\ IsSeq(up') /\ Len(up) \in Nat \ {0} /\ Len(up') = Len(up) - 1
      /\ \A i \in 1 .. Len(up) - 1 : up'[i] = up[i + 1]
      /\ Head(up) = up[1]
  BY RestIs DEF Numbered
<1>2. IsEvent(up[1]) /\ up[1].n \in Nat /\ up[1].n <= count
  BY <1>1 DEF Numbered, IsEvent
<1>3. \A i \in 1 .. Len(up') :
        /\ IsEvent(up'[i]) /\ up'[i].n <= count /\ up[1].n < up'[i].n
        /\ \A j \in 1 .. (i - 1) : up'[j].n < up'[i].n
        /\ pc = "run" \/ i < Len(up') => InSession(up'[i])
  <2>. SUFFICES ASSUME NEW i \in 1 .. Len(up')
               PROVE  /\ IsEvent(up'[i]) /\ up'[i].n <= count /\ up[1].n < up'[i].n
                      /\ \A j \in 1 .. (i - 1) : up'[j].n < up'[i].n
                      /\ pc = "run" \/ i < Len(up') => InSession(up'[i])
    OBVIOUS
  <2>1. i + 1 \in 1 .. Len(up) /\ up'[i] = up[i + 1] /\ 1 \in 1 .. i
        /\ \A j \in 1 .. (i - 1) : up'[j] = up[j + 1] /\ j + 1 \in 1 .. i
        /\ (i < Len(up') => i + 1 < Len(up))
    BY <1>1
  <2>2. IsEvent(up[i + 1]) /\ up[i + 1].n <= count /\ \A j \in 1 .. i : up[j].n < up[i + 1].n
    BY <2>1 DEF Numbered
  <2>3. pc = "run" \/ i + 1 < Len(up) => InSession(up[i + 1])
    BY <2>1 DEF SessionWhole
  <2>. QED
    BY <2>1, <2>2, <2>3
<1>4. up' # <<>> => 1 \in 1 .. Len(up') /\ 1 < Len(up)
  BY <1>1 DEF IsSeq
<1>5. pc = "run" \/ up' # <<>> => InSession(up[1])
  BY <1>1, <1>4 DEF SessionWhole
<1>6. \A e \in ToSet(got) \union ToSet(inHand) : e.n \in Nat /\ e.n < up[1].n
  BY DEF Numbered
<1>. QED
  BY <1>1, <1>2, <1>3, <1>4, <1>5, <1>6

\* What is passed on has the greatest number so far.
LEMMA PassOnServed ==
  ASSUME Numbered, SessionWhole, OneServed, PassOnEvent \/ SecondInterrupt
  PROVE  (Numbered /\ SessionWhole /\ OneServed)'
<1>1. /\ pc \in {"run", "closing"} /\ inHand = <<>> /\ up # <<>> /\ up' = Tail(up)
      /\ UNCHANGED <<sessionEvents, inHand, signal, store, before, count>>
  BY DEF PassOnEvent, SecondInterrupt, Arrives, agentVars
<1>2. PICK x : /\ got' = Append(got, x) /\ x.kind \notin {"interrupt", "unsaved"} /\ x.n = up[1].n
               /\ (pc' = pc /\ x = up[1]) \/ pc' = "failed"
  <2>1. CASE PassOnEvent
    <3>1. Head(up) = up[1]
      BY <1>1, TakeServed
    <3>. QED
      BY <2>1, <3>1 DEF PassOnEvent, Arrives
  <2>2. CASE SecondInterrupt
    <3>1. Head(up) = up[1] /\ IsEvent(up[1])
      BY <1>1, TakeServed
    <3>. QED
      BY <2>2, <3>1 DEF SecondInterrupt, IsEvent
  <2>. QED
    BY <2>1, <2>2
<1>3. IsSeq(got') /\ ToSet(got') = ToSet(got) \union {x}
  BY <1>2, AddIs DEF Numbered
<1>4. ToSet(inHand) = {}
  BY <1>1, NoneIs
<1>5. /\ IsSeq(up') /\ up[1].n \in Nat /\ up[1].n <= count
      /\ \A i \in 1 .. Len(up') :
           /\ IsEvent(up'[i]) /\ up'[i].n <= count
           /\ \A j \in 1 .. (i - 1) : up'[j].n < up'[i].n
           /\ pc = "run" \/ i < Len(up') => InSession(up'[i])
      /\ up' # <<>> => up[1].n < up'[1].n
      /\ pc = "run" \/ up' # <<>> => InSession(up[1])
      /\ \A e \in ToSet(got) : e.n \in Nat /\ e.n < up[1].n
  BY <1>1, TakeServed
<1>6. up' # <<>> => up'[1].n \in Nat
  <2>1. ASSUME up' # <<>> PROVE 1 \in 1 .. Len(up')
    BY <1>5, <2>1, NoneIs DEF IsSeq
  <2>. QED
    BY <1>5, <2>1 DEF IsEvent
<1>7. Numbered'
  <2>1. \A e \in ToSet(got') : e.n \in Nat /\ e.n <= up[1].n
    BY <1>2, <1>3, <1>5
  <2>2. \A e \in ToSet(got') \union ToSet(inHand') :
          e.n \in Nat /\ e.n <= count' /\ (up' # <<>> => e.n < up'[1].n)
    BY <1>1, <1>4, <1>5, <1>6, <2>1 DEF Numbered
  <2>3. \A e \in ToSet(got') : \A y \in ToSet(inHand') : e.n <= y.n
    BY <1>1, <1>4
  <2>4. /\ IsSeq(up') /\ IsSeq(got') /\ IsSeq(sessionEvents') /\ count' \in Nat
        /\ inHand' = <<>> \/ (inHand' = <<inHand'[1]>> /\ IsEvent(inHand'[1]))
    BY <1>1, <1>3, <1>5 DEF Numbered
  <2>5. \A i \in 1 .. Len(up') :
          /\ IsEvent(up'[i]) /\ up'[i].n <= count'
          /\ \A j \in 1 .. (i - 1) : up'[j].n < up'[i].n
    BY <1>1, <1>5
  <2>. QED
    BY <2>2, <2>3, <2>4, <2>5 DEF Numbered
<1>8. \A e : InSession(e)' <=> InSession(e)
  BY <1>1 DEF InSession
<1>9. SessionWhole'
  <2>1. \A i \in 1 .. Len(up') : pc = "run" \/ i < Len(up') => InSession(up[i])'
    BY <1>1, <1>5 DEF InSession
  <2>. QED
    BY <1>1, <1>2, <1>3, <1>5, <1>8, <2>1 DEF SessionWhole
<1>10. Interrupts' = Interrupts /\ \A y \in Interrupts : y \in ToSet(got)
  BY <1>2, <1>3 DEF Interrupts
<1>11. OneServed'
  <2>1. (\A e \in ToSet(got') : e.kind # "unsaved") => \A y \in Interrupts : Served(y)
    BY <1>3, <1>10 DEF OneServed
  <2>2. \A y \in Interrupts : {e \in ToSet(got') : e.n < y.n} \subseteq {e \in ToSet(got) : e.n < y.n}
    BY <1>2, <1>3, <1>5, <1>10
  <2>3. \A y \in Interrupts : Served(y) => Served(y)'
    BY <1>1, <2>2 DEF Served, Bare
  <2>. QED
    BY <1>1, <1>2, <1>3, <1>4, <1>10, <2>1, <2>3 DEF OneServed
<1>. QED
  BY <1>7, <1>9, <1>11

\* The checkpoint is saved with all that was passed on so far.
LEMMA ReceiveServed ==
  ASSUME Numbered, SessionWhole, OneServed, ReceiveInterrupt
  PROVE  (Numbered /\ SessionWhole /\ OneServed)'
<1>1. /\ pc \in {"run", "closing"} /\ pc' = pc /\ inHand = <<>> /\ up # <<>> /\ up' = Tail(up)
      /\ UNCHANGED <<sessionEvents, before, count>> /\ ~signal /\ signal' = TRUE
      /\ Head(up).kind = "interrupt"
  BY DEF ReceiveInterrupt, Arrives, agentVars
<1>2. PICK x : x = up[1]
  OBVIOUS
<1>3. /\ Head(up) = x /\ IsEvent(x) /\ IsSeq(up') /\ x.n \in Nat /\ x.n <= count
      /\ \A i \in 1 .. Len(up') :
           /\ IsEvent(up'[i]) /\ up'[i].n <= count
           /\ \A j \in 1 .. (i - 1) : up'[j].n < up'[i].n
           /\ pc = "run" \/ i < Len(up') => InSession(up'[i])
      /\ up' # <<>> => x.n < up'[1].n
      /\ \A e \in ToSet(got) : e.n \in Nat /\ e.n < x.n
  BY <1>1, <1>2, TakeServed
<1>4. up' # <<>> => up'[1].n \in Nat
  <2>1. ASSUME up' # <<>> PROVE 1 \in 1 .. Len(up')
    BY <1>3, <2>1, NoneIs DEF IsSeq
  <2>. QED
    BY <1>3, <2>1 DEF IsEvent
<1>5. inHand' = <<x>> /\ ToSet(inHand') = {x} /\ inHand'[1] = x /\ x.kind = "interrupt"
  BY <1>1, <1>3, OneIs DEF ReceiveInterrupt
<1>6. /\ \A e \in ToSet(got) : e.kind \notin {"interrupt", "unsaved"}
      /\ \A e \in ToSet(got) : InSession(e)
      /\ Bare(before) \subseteq Bare(ToSet(sessionEvents))
  BY <1>1 DEF OneServed, SessionWhole
<1>7. Bare(before \union ToSet(got)) \subseteq Bare(ToSet(sessionEvents))
  BY <1>6 DEF InSession, Bare
<1>8. \A i \in 1 .. Len(up') : pc = "run" \/ i < Len(up') => InSession(up[i])'
  BY <1>1, <1>3 DEF InSession
<1>9. CASE store' = Save(x) /\ got' = got
  <2>1. /\ store' # <<>> /\ store'[1].path = x.path
        /\ store'[1].session = [k \in DOMAIN sessionEvents |-> WithoutRole(sessionEvents[k])]
        /\ store'[1].told = before \union ToSet(got)
    BY <1>9, OneIs DEF Save
  <2>. DEFINE saved == store'[1].session
  <2>8. IsSeq(saved) /\ ToSet(saved) = Bare(ToSet(sessionEvents)) /\ Bare(ToSet(saved)) = ToSet(saved)
    BY <2>1, BareIs DEF Numbered
  <2>. HIDE DEF saved
  <2>2. Numbered'
    <3>1. \A e \in ToSet(got') \union ToSet(inHand') :
            e.n \in Nat /\ e.n <= count' /\ (up' # <<>> => e.n < up'[1].n)
      BY <1>1, <1>3, <1>4, <1>5, <1>9 DEF Numbered
    <3>2. \A e \in ToSet(got') : \A y \in ToSet(inHand') : e.n <= y.n
      BY <1>3, <1>5, <1>9
    <3>3. /\ IsSeq(up') /\ IsSeq(got') /\ IsSeq(sessionEvents') /\ count' \in Nat
          /\ inHand' = <<inHand'[1]>> /\ IsEvent(inHand'[1])
      BY <1>1, <1>3, <1>5, <1>9 DEF Numbered
    <3>4. \A i \in 1 .. Len(up') :
            /\ IsEvent(up'[i]) /\ up'[i].n <= count'
            /\ \A j \in 1 .. (i - 1) : up'[j].n < up'[i].n
      BY <1>1, <1>3
    <3>. QED
      BY <3>1, <3>2, <3>3, <3>4 DEF Numbered
  <2>3. SessionWhole'
    <3>1. \A e \in ToSet(got) : InSession(e)'
      BY <1>1, <1>6 DEF InSession
    <3>. QED
      BY <1>1, <1>5, <1>6, <1>7, <1>8, <1>9, <2>1, <2>8, <3>1 DEF SessionWhole, Numbered, saved
  <2>4. Interrupts' = {}
    BY <1>6, <1>9 DEF Interrupts
  <2>5. Bare(before \union {e \in ToSet(got) : e.n < x.n}) \subseteq ToSet(saved)
    BY <1>7, <2>8 DEF Bare
  <2>6. Served(x)'
    BY <1>1, <1>9, <2>1, <2>5 DEF Served, saved
  <2>7. \A y \in (Interrupts \union ToSet(inHand))' : y = x
    BY <1>5, <2>4
  <2>. QED
    BY <1>1, <2>2, <2>3, <2>6, <2>7 DEF OneServed
<1>10. CASE store' = store /\ got' = Append(got, [x EXCEPT !.kind = "unsaved"])
  <2>1. PICK u : u = [x EXCEPT !.kind = "unsaved"]
    OBVIOUS
  <2>2. u.kind = "unsaved" /\ u.n = x.n
    BY <1>3, <2>1 DEF IsEvent
  <2>3. IsSeq(got') /\ ToSet(got') = ToSet(got) \union {u}
    BY <1>10, <2>1, AddIs DEF Numbered
  <2>4. Numbered'
    <3>1. \A e \in ToSet(got') : e.n \in Nat /\ e.n <= x.n
      BY <1>3, <2>2, <2>3
    <3>2. \A e \in ToSet(got') \union ToSet(inHand') :
            e.n \in Nat /\ e.n <= count' /\ (up' # <<>> => e.n < up'[1].n)
      BY <1>1, <1>3, <1>4, <1>5, <3>1, SMTT(30) DEF Numbered
    <3>3. \A e \in ToSet(got') : \A y \in ToSet(inHand') : e.n <= y.n
      BY <1>5, <3>1
    <3>4. /\ IsSeq(up') /\ IsSeq(got') /\ IsSeq(sessionEvents') /\ count' \in Nat
          /\ inHand' = <<inHand'[1]>> /\ IsEvent(inHand'[1])
      BY <1>1, <1>3, <1>5, <2>3 DEF Numbered
    <3>5. \A i \in 1 .. Len(up') :
            /\ IsEvent(up'[i]) /\ up'[i].n <= count'
            /\ \A j \in 1 .. (i - 1) : up'[j].n < up'[i].n
      BY <1>1, <1>3
    <3>. QED
      BY <3>2, <3>3, <3>4, <3>5 DEF Numbered
  <2>5. SessionWhole'
    <3>1. \A e \in ToSet(got') : InSession(e)'
      BY <1>1, <1>6, <2>2, <2>3 DEF InSession
    <3>. QED
      BY <1>1, <1>5, <1>8, <1>10, <3>1 DEF SessionWhole
  <2>. QED
    BY <1>1, <2>2, <2>3, <2>4, <2>5 DEF OneServed
<1>. QED
  BY <1>3, <1>9, <1>10 DEF ReceiveInterrupt

\* What is in the hand of the Runner is passed on.
LEMMA PassOnInterruptServed ==
  ASSUME Numbered, SessionWhole, OneServed, PassOnInterrupt
  PROVE  (Numbered /\ SessionWhole /\ OneServed)'
<1>1. /\ pc \in {"run", "closing"} /\ inHand # <<>> /\ inHand' = <<>> /\ got' = got \o inHand
      /\ UNCHANGED <<pc, sessionEvents, up, signal, store, before, count>>
  BY DEF PassOnInterrupt, agentVars
<1>2. PICK x : inHand = <<x>> /\ IsEvent(x)
  BY <1>1 DEF Numbered
<1>3. ToSet(inHand) = {x} /\ ToSet(inHand') = {}
  BY <1>1, <1>2, OneIs, NoneIs
<1>4. IsSeq(got') /\ ToSet(got') = ToSet(got) \union {x}
  BY <1>1, <1>2, AddIs DEF Numbered
<1>5. x.kind = "interrupt" /\ x.n \in Nat /\ x.n <= count /\ (up # <<>> => x.n < up[1].n)
      /\ \A e \in ToSet(got) : e.n <= x.n
  BY <1>3 DEF Numbered, SessionWhole
<1>6. Numbered'
  BY <1>1, <1>3, <1>4, <1>5 DEF Numbered
<1>7. SessionWhole'
  <2>1. \A e \in ToSet(got) \union {x} : InSession(e) => InSession(e)'
    BY <1>1 DEF InSession
  <2>2. \A i \in 1 .. Len(up) : InSession(up[i]) => InSession(up[i])'
    BY <1>1 DEF InSession
  <2>3. InSession(x)
    BY <1>5 DEF InSession
  <2>. QED
    BY <1>1, <1>3, <1>4, <2>1, <2>2, <2>3 DEF SessionWhole
<1>8. OneServed'
  <2>1. signal
    BY <1>1 DEF OneServed
  <2>2. Interrupts' = Interrupts \union {x}
    BY <1>4, <1>5 DEF Interrupts
  <2>3. \A y \in Interrupts \union {x} : y.n <= x.n /\ y.n \in Nat
    BY <1>5 DEF Interrupts, Numbered
  <2>4. \A y \in Interrupts \union {x} :
          {e \in ToSet(got') : e.n < y.n} \subseteq {e \in ToSet(got) : e.n < y.n}
    BY <1>4, <1>5, <2>3
  <2>5. \A y \in Interrupts \union {x} : Served(y) => Served(y)'
    BY <1>1, <2>4 DEF Served, Bare
  <2>6. (\A e \in ToSet(got') : e.kind # "unsaved") =>
          \A y \in Interrupts \union {x} : Served(y)
    BY <1>3, <1>4 DEF OneServed
  <2>. QED
    BY <1>1, <1>3, <2>1, <2>2, <2>5, <2>6 DEF OneServed
<1>. QED
  BY <1>6, <1>7, <1>8

\* The session of the checkpoint has what the user was told.
LEMMA ResumeServed ==
  ASSUME Numbered, SessionWhole, OneServed, ResumeFlow
  PROVE  (Numbered /\ SessionWhole /\ OneServed)'
<1>1. /\ store # <<>> /\ sessionEvents' = store[1].session /\ before' = store[1].told
      /\ pc' \in {"run", "failed"}
      /\ up' = <<>> /\ inHand' = <<>> /\ signal' = FALSE /\ got' = <<>>
      /\ store' = store /\ count' = count
  BY DEF ResumeFlow, loadCheckPoint
<1>2. Interrupts' = {}
  BY <1>1, NoneIs DEF Interrupts
<1>. QED
  BY <1>1, <1>2, NoneIs DEF Numbered, SessionWhole, OneServed

\* Every step keeps what a checkpoint serves.
LEMMA FlowStep == FlowInv /\ [Next]_vars => FlowInv'
<1>. SUFFICES ASSUME FlowInv, [Next]_vars
             PROVE  FlowInv'
  OBVIOUS
<1>1. mode' = mode
  BY KindKept
<1>2. CASE mode # "flow"
  BY <1>1, <1>2, KindKept DEF FlowInv, flowVars, runnerVars
<1>3. CASE mode = "flow"
  <2>1. Numbered /\ SessionWhole /\ OneServed
    BY <1>3 DEF FlowInv
  <2>2. CASE UNCHANGED vars
    BY <1>1, <1>3, <2>1, <2>2
    DEF vars, workflowVars, flowVars, agentVars, runnerVars, FlowInv, Numbered, SessionWhole,
        OneServed, Served, Interrupts, InSession
  <2>3. CASE NextEvent \/ AgentFails
    <3>1. \E say : Pass(say) /\ pc = "run" /\ pc' = "run" /\ UNCHANGED <<runnerVars, before>>
      BY <2>3 DEF NextEvent, AgentFails
    <3>. QED
      BY <1>1, <1>3, <2>1, <3>1, PassServed DEF FlowInv
  <2>. QED
    BY <1>1, <1>3, <2>1, <2>2, <2>3, KindKept, TurnServed, TransferServed, PassOnServed,
       ReceiveServed, PassOnInterruptServed, ResumeServed DEF FlowWork, FlowInv
<1>. QED
  BY <1>2, <1>3

\* From the moment the user has an interrupt the store has the checkpoint that
\* leads to the agent that interrupted and whose session has all he was told
\* before, unless he is told that it was not saved, through any number of
\* resumptions (handleIter of runner.go).
THEOREM CheckpointCorrect == Spec => []CheckpointServes
<1>1. FlowInv => CheckpointServes
  <2>1. ASSUME FlowInv, mode = "flow"
        PROVE  CheckpointServes
    BY <2>1 DEF FlowInv, OneServed, Served, CheckpointServes, Bare
  <2>2. ASSUME FlowInv, mode # "flow"
        PROVE  CheckpointServes
    BY <2>2, NoneIs DEF FlowInv, CheckpointServes, Interrupts
  <2>. QED
    BY <2>1, <2>2
<1>. QED
  BY <1>1, FlowInitial, FlowStep, PTL DEF Spec

-----------------------------------------------------------------------------
(* Recursive functions. *)

\* A function from b at l on, with each value from the one before.
Recursive(f, l, n, T, b, g) ==
  f \in [l .. l + n -> T] /\ f[l] = b /\ \A k \in l + 1 .. l + n : f[k] = g[<<f[k - 1], k>>]

\* There is one.
LEMMA Recursion ==
  ASSUME NEW l \in Nat, NEW n \in Nat, NEW T, NEW b \in T, NEW g \in [T \X Nat -> T]
  PROVE  \E f : Recursive(f, l, n, T, b, g)
<1>. DEFINE Has(f, m) == Recursive(f, l, m, T, b, g)
            M == {m \in Nat : \E f : Has(f, m)}
<1>1. 0 \in M
  <2>. DEFINE f == [k \in l .. l + 0 |-> b]
  <2>1. f \in [l .. l + 0 -> T] /\ f[l] = b
    OBVIOUS
  <2>2. Has(f, 0)
    BY <2>1 DEF Recursive
  <2>. HIDE DEF f
  <2>. QED
    BY <2>2
<1>2. ASSUME NEW m \in M
      PROVE  m + 1 \in M
  <2>1. m \in Nat /\ m + 1 \in Nat /\ \E f : Has(f, m)
    OBVIOUS
  <2>2. PICK f : Has(f, m)
    BY <2>1
  <2>. DEFINE h == [k \in l .. l + (m + 1) |-> IF k = l + m + 1 THEN g[<<f[k - 1], k>>] ELSE f[k]]
  <2>3. h \in [l .. l + (m + 1) -> T]
    BY <2>1, <2>2 DEF Recursive
  <2>4. \A k \in l + 1 .. l + (m + 1) : h[k] = g[<<h[k - 1], k>>]
    BY <2>1, <2>2 DEF Recursive
  <2>5. Has(h, m + 1)
    BY <2>1, <2>2, <2>3, <2>4 DEF Recursive
  <2>. QED
    <3>. HIDE DEF h, Has
    <3>. QED
      BY <2>1, <2>5
<1>3. M = Nat
  <2>. HIDE DEF M
  <2>1. M \in SUBSET Nat
    BY DEF M
  <2>. QED
    BY <1>1, <1>2, <2>1, AllNumbers
<1>. QED
  BY <1>3

-----------------------------------------------------------------------------
\* A message that is not the result of a transfer.
Spoken(e) == HasMessage(e) /\ e.kind \notin {"transfer", "interrupt"}

\* A transfer comes directly after such a message: the one that called for it.
Called(q) == IsSeq(q) /\ \A i \in 2 .. Len(q) : q[i].kind = "transfer" => Spoken(q[i - 1])
StartsWithCall(q) == q # <<>> => q[1].kind # "transfer"

\* No agent calls for two transfers with one message.
TurnsWhole == \A t \in Turns : Called(t) /\ StartsWithCall(t)

\* The events of a session, in the order of their numbers.
Ordered(s) ==
  /\ Called(s) /\ StartsWithCall(s)
  /\ \A i \in 1 .. Len(s) : IsEvent(s[i]) /\ s[i].run \in Nat /\ s[i].run <= runs
  /\ \A i \in 1 .. Len(s) : s[i].n \in Nat /\ 0 < s[i].n /\ s[i].n <= count
                            /\ \A j \in 1 .. (i - 1) : s[j].n < s[i].n

\* A transfer has the role of a tool unless it is older than the last resumption.
Roles(s) == \A i \in 1 .. Len(s) : s[i].kind = "transfer" => (s[i].role = "tool" <=> s[i].run = runs)
NoRoles(s) == \A i \in 1 .. Len(s) : s[i].role = ""

InputInv ==
  /\ count \in Nat /\ runs \in Nat
  /\ Roles(sessionEvents)
  /\ store # <<>> => NoRoles(store[1].session)
  /\ Ordered(sessionEvents)
  /\ store # <<>> => Ordered(store[1].session)
  /\ Called(toSay)
  /\ toSay # <<>> /\ toSay[1].kind = "transfer" =>
       sessionEvents # <<>> /\ Spoken(sessionEvents[Len(sessionEvents)])

\* What is flattened is put together from the left.
Flattened(c, seqs, n, S) ==
  /\ c \in [1 .. n -> Seq(S)]
  /\ c[1] = seqs[1] /\ \A k \in 2 .. n : c[k] = c[k - 1] \o seqs[k]
  /\ FlattenSeq(seqs) = c[n]

\* That is what FlattenSeq gives.
LEMMA FlattenIs ==
  ASSUME NEW S, NEW n \in Nat \ {0}, NEW seqs \in [1 .. n -> Seq(S)]
  PROVE  \E c : Flattened(c, seqs, n, S)
<1>. DEFINE T == Seq(S)
            g == [p \in T \X Nat |-> IF p[2] \in 1 .. n THEN p[1] \o seqs[p[2]] ELSE p[1]]
            P(h) == h = [i \in 1 .. n |-> IF i = 1 THEN seqs[i] ELSE h[i - 1] \o seqs[i]]
            c == CHOOSE h : P(h)
<1>1. g \in [T \X Nat -> T]
  OBVIOUS
<1>2. ASSUME NEW t \in T, NEW k \in 2 .. n
      PROVE  g[<<t, k>>] = t \o seqs[k]
  <2>1. <<t, k>> \in T \X Nat /\ k \in 1 .. n
    OBVIOUS
  <2>. HIDE DEF T
  <2>. QED
    BY <2>1
<1>3. PICK b \in T : b = seqs[1]
  OBVIOUS
<1>4. PICK m \in Nat : 1 + m = n
  <2>1. n - 1 \in Nat /\ 1 + (n - 1) = n
    OBVIOUS
  <2>. QED
    BY <2>1
<1>5. PICK f \in [1 .. n -> T] : f[1] = b /\ \A k \in 2 .. n : f[k] = g[<<f[k - 1], k>>]
  <2>. HIDE DEF g, T
  <2>1. 1 \in Nat /\ m \in Nat /\ b \in T /\ g \in [T \X Nat -> T]
    BY <1>1, <1>3, <1>4
  <2>2. PICK f : Recursive(f, 1, m, T, b, g)
    BY <2>1, Recursion, Zenon
  <2>3. 1 .. 1 + m = 1 .. n /\ 1 + 1 .. 1 + m = 2 .. n
    BY <1>4
  <2>. QED
    BY <2>2, <2>3 DEF Recursive
<1>6. P(f)
  <2>1. \A k \in 2 .. n : f[k] = f[k - 1] \o seqs[k]
    <3>1. \A k \in 2 .. n : f[k - 1] \in T
      BY <1>5
    <3>. HIDE DEF g, T
    <3>. QED
      BY <1>2, <1>5, <3>1
  <2>. HIDE DEF T
  <2>2. \A i \in 1 .. n : f[i] = IF i = 1 THEN seqs[i] ELSE f[i - 1] \o seqs[i]
    <3>1. f[1] = seqs[1] /\ \A i \in 1 .. n : i = 1 \/ (i # 1 /\ i \in 2 .. n)
      BY <1>3, <1>5
    <3>. QED
      BY <2>1, <3>1
  <2>3. f = [i \in 1 .. n |-> f[i]]
    BY <1>5
  <2>. QED
    BY <2>2, <2>3
<1>7. P(c)
  <2>. HIDE DEF P
  <2>. QED
    BY <1>6
<1>. HIDE DEF c
<1>8. c[1] = seqs[1] /\ \A k \in 2 .. n : c[k] = c[k - 1] \o seqs[k]
  <2>1. \A i \in 1 .. n : c[i] = IF i = 1 THEN seqs[i] ELSE c[i - 1] \o seqs[i]
    BY <1>7
  <2>. HIDE DEF P
  <2>2. 1 \in 1 .. n /\ 2 .. n \subseteq 1 .. n /\ \A i \in 2 .. n : i # 1
    OBVIOUS
  <2>. QED
    BY <2>1, <2>2
<1>9. c \in [1 .. n -> T]
  <2>. DEFINE M == {k \in Nat : k + 1 <= n => c[k + 1] \in T}
  <2>1. 0 \in M
    BY <1>8
  <2>2. ASSUME NEW k \in M
        PROVE  k + 1 \in M
    <3>. SUFFICES ASSUME k + 2 <= n
                 PROVE  c[k + 2] \in T
      OBVIOUS
    <3>1. c[k + 1] \in T /\ c[k + 2] = c[k + 1] \o seqs[k + 2] /\ seqs[k + 2] \in T
      <4>1. k \in Nat /\ k + 2 \in 2 .. n /\ k + 2 \in 1 .. n /\ (k + 2) - 1 = k + 1 /\ k + 1 <= n
        OBVIOUS
      <4>2. c[k + 1] \in T
        BY <4>1
      <4>. QED
        BY <1>8, <4>1, <4>2
    <3>. QED
      BY <3>1
  <2>3. M = Nat
    <3>. HIDE DEF M
    <3>1. M \in SUBSET Nat
      BY DEF M
    <3>. QED
      BY <2>1, <2>2, <3>1, AllNumbers
  <2>4. \A k \in 1 .. n : c[k] \in T
    <3>. SUFFICES ASSUME NEW k \in 1 .. n
                 PROVE  c[k] \in T
      OBVIOUS
    <3>1. k - 1 \in Nat /\ (k - 1) + 1 = k /\ k <= n
      OBVIOUS
    <3>2. k - 1 \in M
      BY <2>3, <3>1
    <3>. QED
      BY <3>1, <3>2
  <2>5. c = [k \in 1 .. n |-> c[k]]
    BY <1>7
  <2>. HIDE DEF T
  <2>. QED
    BY <2>4, <2>5
<1>10. FlattenSeq(seqs) = c[n]
  <2>1. Len(seqs) = n
    OBVIOUS
  <2>. QED
    BY <2>1 DEF FlattenSeq, c
<1>11. Flattened(c, seqs, n, S)
  BY <1>8, <1>9, <1>10 DEF Flattened
<1>. QED
  BY <1>11

\* A sequence over a set is one.
LEMMA SeqIs ==
  ASSUME NEW S, NEW t \in Seq(S)
  PROVE  IsSeq(t)
<1>1. t \in [1 .. Len(t) -> ToSet(t)] /\ Len(t) \in Nat
  BY LenProperties DEF ToSet
<1>2. t \in Seq(ToSet(t))
  BY <1>1, SeqDef
<1>. QED
  BY <1>2 DEF IsSeq

\* The transfers of a wrapper, each after a call of its own.
LEMMA TransfersCalled ==
  ASSUME NEW q, IsSeq(q), q # <<>>
  PROVE  LET t == FlattenSeq([k \in DOMAIN q |-> TransferMessages(q[k])])
         IN Called(t) /\ StartsWithCall(t)
<1>. DEFINE S == {Say(k, d) : k \in {"calls", "transfer"}, d \in ToSet(q) \union {Root}}
            seqs == [k \in DOMAIN q |-> TransferMessages(q[k])]
            Fit(t) == /\ t # <<>> /\ t[1].kind # "transfer"
                      /\ \A i \in 2 .. Len(t) : t[i].kind = "transfer" => Spoken(t[i - 1])
<1>1. PICK n \in Nat \ {0} : DOMAIN q = 1 .. n /\ \A k \in 1 .. n : q[k] \in ToSet(q)
  <2>1. Len(q) \in Nat \ {0} /\ DOMAIN q = 1 .. Len(q)
    BY RestIs DEF IsSeq
  <2>. QED
    BY <2>1 DEF ToSet
<1>2. ASSUME NEW k \in 1 .. n
      PROVE  /\ seqs[k] \in Seq(S) /\ Len(seqs[k]) = 2
             /\ seqs[k][1].kind = "calls" /\ seqs[k][2].kind = "transfer"
  <2>1. /\ Say("calls", Root) \in S /\ Say("transfer", q[k]) \in S
        /\ seqs[k] = <<Say("calls", Root), Say("transfer", q[k])>>
    BY <1>1 DEF TransferMessages
  <2>2. Say("calls", Root).kind = "calls" /\ Say("transfer", q[k]).kind = "transfer"
    BY DEF Say
  <2>. HIDE DEF S, seqs
  <2>. QED
    BY <2>1, <2>2
<1>3. PICK c : Flattened(c, seqs, n, S)
  <2>1. seqs \in [1 .. n -> Seq(S)]
    <3>. HIDE DEF S
    <3>. QED
      BY <1>1, <1>2
  <2>. HIDE DEF S, seqs
  <2>. QED
    BY <1>1, <2>1, FlattenIs, Zenon
<1>. HIDE DEF S, seqs
<1>4. \A k \in 1 .. n : Fit(c[k])
  <2>. DEFINE M == {m \in Nat : m + 1 <= n => Fit(c[m + 1])}
  <2>1. 0 \in M
    <3>1. c[1] \in Seq(S) /\ Len(c[1]) = 2 /\ c[1][1].kind = "calls" /\ c[1][2].kind = "transfer"
      BY <1>2, <1>3 DEF Flattened
    <3>2. "calls" # "transfer"
      OBVIOUS
    <3>3. Spoken(c[1][1]) /\ c[1] # <<>>
      BY <3>1 DEF Spoken, HasMessage
    <3>. QED
      BY <3>1, <3>3
  <2>2. ASSUME NEW m \in M
        PROVE  m + 1 \in M
    <3>. SUFFICES ASSUME m + 2 <= n
                 PROVE  Fit(c[m + 2])
      OBVIOUS
    <3>1. /\ m \in Nat /\ m + 2 \in 2 .. n /\ m + 2 \in 1 .. n /\ (m + 2) - 1 = m + 1
          /\ m + 1 <= n /\ m + 1 \in 1 .. n
      OBVIOUS
    <3>2. PICK r \in Seq(S) : r = c[m + 1]
      BY <1>3, <3>1 DEF Flattened
    <3>3. PICK u \in Seq(S) : u = seqs[m + 2] /\ Len(u) = 2
                               /\ u[1].kind = "calls" /\ u[2].kind = "transfer"
      BY <1>2, <3>1
    <3>4. Fit(r)
      BY <3>1, <3>2
    <3>5. c[m + 2] = r \o u
      BY <1>3, <3>1, <3>2, <3>3 DEF Flattened
    <3>6. Len(r) \in Nat /\ Len(r \o u) = Len(r) + 2
          /\ (\A i \in 1 .. Len(r) : (r \o u)[i] = r[i])
          /\ (r \o u)[Len(r) + 1] = u[1] /\ (r \o u)[Len(r) + 2] = u[2]
      <4>1. r \in Seq(S) /\ u \in Seq(S) /\ Len(u) = 2
        BY <3>2, <3>3
      <4>2. Len(r) \in Nat
        BY <4>1, LenProperties
      <4>3. /\ Len(r \o u) = Len(r) + Len(u)
            /\ \A i \in 1 .. Len(r) + Len(u) :
                 (r \o u)[i] = IF i <= Len(r) THEN r[i] ELSE u[i - Len(r)]
        BY <4>1, ConcatProperties, Zenon
      <4>4. Len(r) + 1 \in 1 .. Len(r) + Len(u) /\ Len(r) + 2 \in 1 .. Len(r) + Len(u)
            /\ (Len(r) + 1) - Len(r) = 1 /\ (Len(r) + 2) - Len(r) = 2
            /\ ~(Len(r) + 1 <= Len(r)) /\ ~(Len(r) + 2 <= Len(r))
            /\ \A i \in 1 .. Len(r) : i \in 1 .. Len(r) + Len(u) /\ i <= Len(r)
        BY <4>1, <4>2
      <4>. QED
        BY <4>1, <4>2, <4>3, <4>4
    <3>7. Len(r) # 0
      BY <3>4
    <3>8. Spoken(u[1])
      BY <3>3 DEF Spoken, HasMessage
    <3>9. \A i \in 2 .. Len(r \o u) :
            \/ i \in 2 .. Len(r) /\ i \in 1 .. Len(r) /\ i - 1 \in 1 .. Len(r)
            \/ i = Len(r) + 1
            \/ i = Len(r) + 2 /\ i - 1 = Len(r) + 1
      <4>1. Len(r) \in Nat /\ Len(r \o u) = Len(r) + 2
        BY <3>6
      <4>. QED
        BY <4>1
    <3>10. \A i \in 2 .. Len(r \o u) : (r \o u)[i].kind = "transfer" => Spoken((r \o u)[i - 1])
      BY <3>3, <3>4, <3>6, <3>8, <3>9
    <3>11. r \o u # <<>> /\ (r \o u)[1] = r[1]
      BY <3>6, <3>7
    <3>. QED
      BY <3>4, <3>5, <3>10, <3>11
  <2>3. M = Nat
    <3>. HIDE DEF M
    <3>1. M \in SUBSET Nat
      BY DEF M
    <3>. QED
      BY <2>1, <2>2, <3>1, AllNumbers
  <2>. SUFFICES ASSUME NEW k \in 1 .. n
               PROVE  Fit(c[k])
    OBVIOUS
  <2>4. k - 1 \in Nat /\ (k - 1) + 1 = k /\ k <= n
    OBVIOUS
  <2>5. k - 1 \in M
    BY <2>3, <2>4
  <2>. QED
    BY <2>4, <2>5
<1>5. IsSeq(c[n]) /\ Fit(c[n])
  BY <1>3, <1>4, SeqIs DEF Flattened
<1>. QED
  BY <1>3, <1>5 DEF Called, StartsWithCall, seqs, Flattened

-----------------------------------------------------------------------------
\* Without its last element.
LEMMA FrontIs ==
  ASSUME NEW S, NEW q \in Seq(S), NEW e \in S
  PROVE  /\ q # <<>> => Front(q) \in Seq(S)
         /\ Append(q, e) # <<>> /\ Front(Append(q, e)) = q
<1>1. ASSUME q # <<>>
      PROVE  Front(q) \in Seq(S)
  <2>1. Len(q) \in Nat \ {0} /\ Len(q) - 1 \in 0 .. Len(q)
    BY <1>1
  <2>. QED
    BY <2>1 DEF Front
<1>2. PICK r \in Seq(S) : r = Append(q, e)
  BY AppendProperties
<1>3. Len(q) \in Nat /\ Len(r) = Len(q) + 1 /\ \A i \in 1 .. Len(q) : r[i] = q[i]
  BY <1>2
<1>4. Front(r) = SubSeq(r, 1, Len(q))
  BY <1>3 DEF Front
<1>5. Front(r) = [i \in 1 .. Len(q) |-> r[i]]
  BY <1>3, <1>4
<1>6. q = [i \in 1 .. Len(q) |-> q[i]]
  <2>1. q \in [1 .. Len(q) -> S]
    BY LenProperties
  <2>. QED
    BY <2>1
<1>. QED
  BY <1>1, <1>2, <1>3, <1>5, <1>6

\* The entries, event by event.
LEMMA EntriesAre ==
  ASSUME IsSeq(sessionEvents)
  PROVE  LET s == sessionEvents
             E == ToSet(s) \union {User}
         IN /\ \A k \in 0 .. Len(s) : historyEntries[k] \in Seq(E)
            /\ historyEntries[0] = <<User>>
            /\ \A k \in 1 .. Len(s) : historyEntries[k] = History(historyEntries[k - 1], s[k])
<1>1. PICK s : s = sessionEvents
  OBVIOUS
<1>2. PICK n \in Nat : n = Len(s) /\ DOMAIN s = 1 .. n /\ \A k \in 1 .. n : s[k] \in ToSet(s)
  <2>1. Len(s) \in Nat /\ DOMAIN s = 1 .. Len(s)
    BY <1>1 DEF IsSeq
  <2>. QED
    BY <2>1 DEF ToSet
<1>3. PICK E : E = ToSet(s) \union {User}
  OBVIOUS
<1>4. PICK T : T = Seq(E)
  OBVIOUS
<1>5. PICK u \in T : u = <<User>>
  <2>1. PICK e \in E : e = User
    BY <1>3
  <2>2. <<e>> \in Seq(E)
    OBVIOUS
  <2>. QED
    BY <1>4, <2>1, <2>2
<1>6. ASSUME NEW q \in T, NEW e \in E
      PROVE  History(q, e) \in T
  BY <1>4, FrontIs DEF History
<1>7. PICK g : g = [p \in T \X Nat |-> IF p[2] \in 1 .. n THEN History(p[1], s[p[2]]) ELSE p[1]]
  OBVIOUS
<1>8. g \in [T \X Nat -> T]
  BY <1>2, <1>3, <1>6, <1>7
<1>9. ASSUME NEW q \in T, NEW k \in 1 .. n
      PROVE  g[<<q, k>>] = History(q, s[k])
  BY <1>7
<1>10. PICK f : Recursive(f, 0, n, T, u, g)
  <2>1. 0 \in Nat
    OBVIOUS
  <2>. QED
    BY <1>8, <2>1, Recursion, Zenon
<1>11. f \in [0 .. n -> T] /\ f[0] = u /\ \A k \in 1 .. n : f[k] = g[<<f[k - 1], k>>]
  <2>1. 0 .. 0 + n = 0 .. n /\ 0 + 1 .. 0 + n = 1 .. n
    OBVIOUS
  <2>. QED
    BY <1>10, <2>1 DEF Recursive
<1>12. \A k \in 1 .. n : f[k] = History(f[k - 1], s[k])
  <2>1. \A k \in 1 .. n : f[k - 1] \in T
    BY <1>11
  <2>. QED
    BY <1>9, <1>11, <2>1
<1>. DEFINE P(h) == h = [k \in 0 .. n |-> IF k = 0 THEN u ELSE History(h[k - 1], s[k])]
            c == CHOOSE h : P(h)
<1>13. P(f)
  <2>1. \A k \in 0 .. n : f[k] = IF k = 0 THEN u ELSE History(f[k - 1], s[k])
    <3>1. \A k \in 0 .. n : k = 0 \/ (k # 0 /\ k \in 1 .. n)
      OBVIOUS
    <3>. QED
      BY <1>11, <1>12, <3>1
  <2>2. f = [k \in 0 .. n |-> f[k]]
    BY <1>11
  <2>. QED
    BY <2>1, <2>2
<1>14. P(c)
  <2>. HIDE DEF P
  <2>. QED
    BY <1>13
<1>15. historyEntries = c
  BY <1>1, <1>2, <1>5 DEF historyEntries
<1>. HIDE DEF c
<1>16. c[0] = u /\ \A k \in 1 .. n : c[k] = History(c[k - 1], s[k])
  <2>1. \A k \in 0 .. n : c[k] = IF k = 0 THEN u ELSE History(c[k - 1], s[k])
    BY <1>14
  <2>. HIDE DEF P
  <2>2. 0 \in 0 .. n /\ \A k \in 1 .. n : k # 0 /\ k \in 0 .. n
    OBVIOUS
  <2>. QED
    BY <2>1, <2>2
<1>17. \A k \in 0 .. n : c[k] \in T
  <2>. HIDE DEF P
  <2>. DEFINE M == {k \in Nat : k <= n => c[k] \in T}
  <2>1. 0 \in M
    BY <1>16
  <2>2. ASSUME NEW k \in M
        PROVE  k + 1 \in M
    <3>. SUFFICES ASSUME k + 1 <= n
                 PROVE  c[k + 1] \in T
      OBVIOUS
    <3>1. k \in Nat /\ k <= n /\ k + 1 \in 1 .. n /\ (k + 1) - 1 = k
      OBVIOUS
    <3>2. c[k] \in T /\ s[k + 1] \in E
      BY <1>2, <1>3, <3>1
    <3>3. c[k + 1] = History(c[k], s[k + 1])
      BY <1>16, <3>1
    <3>. QED
      BY <1>6, <3>2, <3>3
  <2>3. M = Nat
    <3>. HIDE DEF M
    <3>1. M \in SUBSET Nat
      BY DEF M
    <3>. QED
      BY <2>1, <2>2, <3>1, AllNumbers
  <2>. QED
    BY <2>3
<1>. QED
  BY <1>1, <1>2, <1>3, <1>4, <1>5, <1>15, <1>16, <1>17

\* An agent is given all the messages of its session, but for transfers and
\* what called for them if these are to be skipped.
LEMMA InputIs ==
  ASSUME Ordered(sessionEvents), Roles(sessionEvents)
  PROVE  \A k \in DOMAIN sessionEvents :
           LET e == sessionEvents[k]
               pair == skip /\ (\/ e.kind = "transfer"
                                \/ /\ k < Len(sessionEvents)
                                   /\ sessionEvents[k + 1].kind = "transfer"
                                   /\ sessionEvents[k + 1].run = runs)
           IN HasMessage(e) => (Contains(genAgentInput, e) <=> ~pair)
<1>1. PICK s : s = sessionEvents
  OBVIOUS
<1>2. IsSeq(s) /\ IsSeq(sessionEvents)
  BY <1>1 DEF Ordered, Called
<1>3. PICK n \in Nat : n = Len(s) /\ DOMAIN s = 1 .. n /\ \A k \in 1 .. n : s[k] \in ToSet(s)
  <2>1. Len(s) \in Nat /\ DOMAIN s = 1 .. Len(s)
    BY <1>2 DEF IsSeq
  <2>. QED
    BY <2>1 DEF ToSet
<1>4. PICK E : E = ToSet(s) \union {User}
  OBVIOUS
<1>5. PICK h : h = historyEntries
  OBVIOUS
<1>6. /\ \A k \in 0 .. n : h[k] \in Seq(E)
      /\ h[0] = <<User>>
      /\ \A k \in 1 .. n : h[k] = History(h[k - 1], s[k])
  BY <1>1, <1>2, <1>3, <1>4, <1>5, EntriesAre
<1>7. /\ \A i, j \in 1 .. n : i # j => s[i] # s[j]
      /\ \A i \in 1 .. n : s[i] # User
  <2>1. \A i \in 1 .. n : s[i].n \in Nat /\ 0 < s[i].n /\ \A j \in 1 .. (i - 1) : s[j].n < s[i].n
    BY <1>1, <1>3 DEF Ordered
  <2>2. ASSUME NEW i \in 1 .. n, NEW j \in 1 .. n, i # j
        PROVE  s[i] # s[j]
    <3>1. CASE j < i
      BY <2>1, <3>1
    <3>2. CASE i < j
      BY <2>1, <3>2
    <3>. QED
      BY <2>2, <3>1, <3>2
  <2>3. User.n = 0
    BY DEF User
  <2>. QED
    BY <2>1, <2>2, <2>3
<1>8. \A i \in 1 .. n : s[i].kind = "transfer" => i \in 2 .. n /\ Spoken(s[i - 1])
  BY <1>1, <1>3 DEF Ordered, Called, StartsWithCall, IsSeq
<1>16. \A i \in 1 .. n : s[i].kind = "transfer" => (s[i].role = "tool" <=> s[i].run = runs)
  BY <1>1, <1>3 DEF Roles
<1>. DEFINE Gone(j) == s[j].kind = "transfer" /\ s[j].run = runs
            Pair(j, k) == skip /\ (s[j].kind = "transfer" \/ (j < k /\ Gone(j + 1)))
            Fit(k) == /\ \A x \in ToSet(h[k]) : x = User \/ \E j \in 1 .. k : x = s[j]
                      /\ \A j \in 1 .. k : HasMessage(s[j]) => (s[j] \in ToSet(h[k]) <=> ~Pair(j, k))
<1>9. ASSUME NEW k \in 1 .. n, ~HasMessage(s[k]), Fit(k - 1)
      PROVE  Fit(k)
  <2>1. h[k] = h[k - 1] /\ k \in Nat /\ 1 .. k - 1 \subseteq 1 .. k
    BY <1>6, <1>9 DEF History
  <2>2. s[k].kind # "transfer"
    BY <1>9 DEF HasMessage
  <2>3. \A j \in 1 .. k : j = k \/ (j \in 1 .. k - 1 /\ (j < k - 1 <=> j < k /\ j + 1 # k))
    BY <2>1
  <2>4. \A j \in 1 .. k - 1 : Pair(j, k) <=> Pair(j, k - 1)
    BY <2>1, <2>2, <2>3
  <2>5. \A x \in ToSet(h[k]) : x = User \/ \E j \in 1 .. k : x = s[j]
    BY <1>9, <2>1
  <2>. QED
    BY <1>9, <2>1, <2>3, <2>4, <2>5
<1>17. ASSUME NEW k \in 1 .. n, skip, s[k].kind = "transfer", ~Gone(k), Fit(k - 1)
       PROVE  Fit(k)
  <2>1. k \in Nat /\ k - 1 \in 0 .. n /\ 1 .. k - 1 \subseteq 1 .. k /\ k \in 1 .. k
    OBVIOUS
  <2>2. h[k] = h[k - 1]
    <3>1. HasMessage(s[k]) /\ s[k].role # "tool"
      BY <1>16, <1>17 DEF HasMessage
    <3>. QED
      BY <1>6, <1>17, <3>1 DEF History
  <2>3. \A j \in 1 .. k : j = k \/ (j \in 1 .. k - 1 /\ j # k /\ (j < k - 1 <=> j < k /\ j + 1 # k))
    BY <2>1
  <2>4. \A j \in 1 .. k - 1 : Pair(j, k) <=> Pair(j, k - 1)
    BY <1>17, <2>1, <2>3
  <2>5. \A x \in ToSet(h[k]) : x = User \/ \E j \in 1 .. k - 1 : x = s[j]
    BY <1>17, <2>2
  <2>6. s[k] \notin ToSet(h[k])
    <3>1. \A j \in 1 .. k - 1 : j \in 1 .. n /\ j # k
      BY <2>1
    <3>. QED
      BY <1>7, <2>5, <3>1
  <2>7. Pair(k, k)
    BY <1>17
  <2>8. \A j \in 1 .. k - 1 : HasMessage(s[j]) => (s[j] \in ToSet(h[k]) <=> ~Pair(j, k - 1))
    BY <1>17, <2>2
  <2>9. \A x \in ToSet(h[k]) : x = User \/ \E j \in 1 .. k : x = s[j]
    BY <2>1, <2>5
  <2>. HIDE DEF Pair
  <2>10. \A j \in 1 .. k : HasMessage(s[j]) => (s[j] \in ToSet(h[k]) <=> ~Pair(j, k))
    BY <2>3, <2>4, <2>6, <2>7, <2>8
  <2>. QED
    BY <2>9, <2>10
<1>10. ASSUME NEW k \in 1 .. n, HasMessage(s[k]), ~(skip /\ s[k].kind = "transfer"), Fit(k - 1)
       PROVE  Fit(k)
  <2>1. /\ k \in Nat /\ k - 1 \in 0 .. n /\ 1 .. k - 1 \subseteq 1 .. k /\ k \in 1 .. k
        /\ \A j \in 1 .. k : j \in 1 .. n
    OBVIOUS
  <2>2. ToSet(h[k]) = ToSet(h[k - 1]) \union {s[k]}
    <3>1. PICK q \in Seq(E) : q = h[k - 1]
      BY <1>6, <2>1
    <3>2. IsSeq(q)
      BY SeqIs
    <3>3. h[k] = Append(q, s[k])
      BY <1>6, <1>10, <3>1 DEF History
    <3>. QED
      BY <3>1, <3>2, <3>3, AddIs
  <2>3. \A j \in 1 .. k : j = k \/ (j \in 1 .. k - 1 /\ j # k /\ (j < k - 1 <=> j < k /\ j + 1 # k))
    BY <2>1
  <2>4. \A j \in 1 .. k - 1 : Pair(j, k) <=> Pair(j, k - 1)
    BY <1>10, <2>1, <2>3
  <2>5. \A x \in ToSet(h[k]) : x = User \/ \E j \in 1 .. k : x = s[j]
    BY <1>10, <2>1, <2>2
  <2>6. \A j \in 1 .. k - 1 : s[j] # s[k]
    BY <1>7, <2>1, <2>3
  <2>7. ~Pair(k, k)
    BY <1>10, <2>1
  <2>8. \A j \in 1 .. k - 1 : HasMessage(s[j]) => (s[j] \in ToSet(h[k - 1]) <=> ~Pair(j, k - 1))
    BY <1>10
  <2>. HIDE DEF Pair
  <2>9. \A j \in 1 .. k : HasMessage(s[j]) => (s[j] \in ToSet(h[k]) <=> ~Pair(j, k))
    BY <2>2, <2>3, <2>4, <2>6, <2>7, <2>8
  <2>. QED
    BY <2>5, <2>9
<1>11. ASSUME NEW k \in 1 .. n, skip, Gone(k), Fit(k - 2)
       PROVE  Fit(k)
  <2>1. /\ k \in 2 .. n /\ k - 1 \in 1 .. n /\ k - 2 \in 0 .. n /\ (k - 1) - 1 = k - 2
        /\ Spoken(s[k - 1])
    BY <1>8, <1>11
  <2>2. h[k] = h[k - 2]
    <3>1. PICK q \in Seq(E) : q = h[k - 2]
      BY <1>6, <2>1
    <3>2. s[k - 1] \in E
      BY <1>3, <1>4, <2>1
    <3>3. h[k - 1] = Append(q, s[k - 1])
      BY <1>6, <2>1, <3>1 DEF History, Spoken
    <3>4. HasMessage(s[k]) /\ s[k].role = "tool"
      BY <1>11, <1>16 DEF HasMessage
    <3>5. h[k] = History(h[k - 1], s[k])
      BY <1>6
    <3>6. Append(q, s[k - 1]) # <<>> /\ Front(Append(q, s[k - 1])) = q
      BY <3>2, FrontIs
    <3>. QED
      BY <1>11, <3>1, <3>3, <3>4, <3>5, <3>6 DEF History
  <2>3. \A j \in 1 .. k :
          \/ j = k
          \/ j = k - 1
          \/ j \in 1 .. k - 2 /\ j + 1 \in 1 .. k - 1 /\ (j < k - 2 <=> j + 1 # k - 1) /\ j < k
    BY <2>1
  <2>4. s[k - 1].kind # "transfer"
    BY <2>1 DEF Spoken
  <2>5. \A j \in 1 .. k - 2 : Pair(j, k) <=> Pair(j, k - 2)
    <3>1. \A j \in 1 .. k - 2 : j < k /\ (j < k - 2 \/ j + 1 = k - 1)
      BY <2>1
    <3>. QED
      BY <2>1, <2>4, <3>1
  <2>6. Pair(k, k) /\ Pair(k - 1, k)
    BY <1>11, <2>1
  <2>7. \A x \in ToSet(h[k]) : x = User \/ \E j \in 1 .. k - 2 : x = s[j]
    BY <1>11, <2>2
  <2>8. s[k] \notin ToSet(h[k]) /\ s[k - 1] \notin ToSet(h[k])
    <3>1. \A j \in 1 .. k - 2 : j \in 1 .. n /\ j # k /\ j # k - 1
      BY <2>1
    <3>. QED
      BY <1>7, <2>1, <2>7, <3>1
  <2>9. \A x \in ToSet(h[k]) : x = User \/ \E j \in 1 .. k : x = s[j]
    <3>1. 1 .. k - 2 \subseteq 1 .. k
      BY <2>1
    <3>. QED
      BY <2>7, <3>1
  <2>10. \A j \in 1 .. k - 2 : HasMessage(s[j]) => (s[j] \in ToSet(h[k]) <=> ~Pair(j, k - 2))
    BY <1>11, <2>2
  <2>. HIDE DEF Pair
  <2>11. \A j \in 1 .. k : HasMessage(s[j]) => (s[j] \in ToSet(h[k]) <=> ~Pair(j, k))
    BY <2>3, <2>5, <2>6, <2>8, <2>10
  <2>. QED
    BY <2>9, <2>11
<1>12. Fit(0)
  <2>1. ToSet(h[0]) = {User}
    BY <1>6, OneIs
  <2>. QED
    BY <2>1
<1>13. Fit(n)
  <2>. HIDE DEF Fit
  <2>. DEFINE M == {m \in Nat : m <= n => Fit(m) /\ (m # 0 => Fit(m - 1))}
  <2>1. 0 \in M
    BY <1>12
  <2>2. ASSUME NEW m \in M
        PROVE  m + 1 \in M
    <3>. SUFFICES ASSUME m + 1 <= n
                 PROVE  Fit(m + 1) /\ Fit((m + 1) - 1)
      OBVIOUS
    <3>1. m \in Nat /\ m + 1 \in 1 .. n /\ (m + 1) - 1 = m /\ (m + 1) - 2 = m - 1
      OBVIOUS
    <3>2. Fit(m) /\ (m # 0 => Fit(m - 1))
      OBVIOUS
    <3>3. CASE ~HasMessage(s[m + 1])
      BY <1>9, <3>1, <3>2, <3>3
    <3>4. CASE HasMessage(s[m + 1]) /\ ~(skip /\ s[m + 1].kind = "transfer")
      BY <1>10, <3>1, <3>2, <3>4
    <3>5. CASE skip /\ Gone(m + 1)
      <4>1. s[m + 1].kind = "transfer"
        BY <3>5
      <4>2. m + 1 \in 2 .. n
        BY <1>8, <3>1, <4>1
      <4>3. m # 0
        BY <3>1, <4>2
      <4>. QED
        BY <1>11, <3>1, <3>2, <3>5, <4>3
    <3>6. CASE skip /\ s[m + 1].kind = "transfer" /\ ~Gone(m + 1)
      BY <1>17, <3>1, <3>2, <3>6
    <3>. QED
      BY <3>3, <3>4, <3>5, <3>6
  <2>3. M = Nat
    <3>. HIDE DEF M
    <3>1. M \in SUBSET Nat
      BY DEF M
    <3>. QED
      BY <2>1, <2>2, <3>1, AllNumbers
  <2>. QED
    BY <2>3
<1>14. genAgentInput = h[n] /\ h[n] \in Seq(E)
  BY <1>1, <1>3, <1>5, <1>6 DEF genAgentInput
<1>15. \A x : Contains(h[n], x) <=> x \in ToSet(h[n])
  <2>1. Len(h[n]) \in Nat /\ DOMAIN h[n] = 1 .. Len(h[n])
    BY <1>14
  <2>. QED
    BY <2>1 DEF Contains, ToSet
<1>. QED
  BY <1>1, <1>3, <1>13, <1>14, <1>15

-----------------------------------------------------------------------------
InputKept == mode = "flow" => InputInv

\* A path ends with an agent: of the one at work, of all that was said, and of
\* the checkpoint.
Known(p) == IsSeq(p) /\ p # <<>> /\ Last(p) \in FlowAgents

PathKnown ==
  mode = "flow" =>
    /\ pc = "run" => Known(path)
    /\ \A i \in 1 .. Len(up) : Known(up[i].path)
    /\ store # <<>> => Known(store[1].path)

\* No agent runs at first.
LEMMA PathInitial == Init => PathKnown
<1>. SUFFICES ASSUME Init
             PROVE  PathKnown
  OBVIOUS
<1>1. pc # "run" /\ up = <<>> /\ store = <<>>
  BY DEF Init, WorkflowInit, FlowInit
<1>. QED
  BY <1>1, NoneIs DEF PathKnown

\* Every step keeps the path.
LEMMA PathStep == FlowInv /\ PathKnown /\ [Next]_vars => PathKnown'
<1>. SUFFICES ASSUME FlowInv, PathKnown, [Next]_vars
             PROVE  PathKnown'
  OBVIOUS
<1>1. mode' = mode
  BY KindKept
<1>2. CASE mode # "flow"
  BY <1>1, <1>2 DEF PathKnown
<1>. SUFFICES ASSUME mode = "flow"
             PROVE  PathKnown'
  BY <1>2
<1>3. FlowWork \/ ResumeFlow \/ UNCHANGED vars
  BY KindKept
<1>4. IsSeq(up)
  BY DEF FlowInv, Numbered
<1>5. CASE StartFlow
  <2>1. path' = <<Root>> /\ UNCHANGED <<up, store>>
    BY <1>5 DEF StartFlow, RunAgent, runnerVars
  <2>2. Known(<<Root>>)
    <3>1. Root \in FlowAgents /\ <<Root>> \in Seq({Root}) /\ Len(<<Root>>) = 1 /\ <<Root>>[1] = Root
      BY FlowAssumption
    <3>. QED
      BY <3>1, SeqIs, OneIs DEF Known, Last
  <2>. QED
    BY <1>1, <2>1, <2>2 DEF PathKnown
<1>6. CASE TransferTo
  <2>1. PICK p, d : p = path /\ d = Destination
    OBVIOUS
  <2>2. path' = Append(p, d) /\ UNCHANGED <<up, store>> /\ pc = "run" /\ d \in FlowAgents
    BY <1>6, <2>1 DEF TransferTo, RunAgent, runnerVars, AgentIsDone, Reach
  <2>3. Known(p)
    BY <2>1, <2>2 DEF PathKnown
  <2>4. Known(Append(p, d))
    <3>1. PICK r : r = Append(p, d)
      OBVIOUS
    <3>2. IsSeq(r) /\ Len(p) \in Nat /\ Len(r) = Len(p) + 1 /\ r[Len(p) + 1] = d
      BY <2>3, <3>1, AddIs DEF Known
    <3>3. r # <<>> /\ Last(r) = d
      BY <3>2, NoneIs DEF Last
    <3>. QED
      BY <2>2, <3>1, <3>2, <3>3 DEF Known
  <2>. QED
    BY <1>1, <2>2, <2>4 DEF PathKnown
<1>7. CASE NextEvent \/ AgentFails \/ TransferFails
  <2>1. \E say : up' = Append(up, Event(say)) /\ pc = "run" /\ UNCHANGED <<path, store>>
    BY <1>7 DEF NextEvent, AgentFails, TransferFails, Pass, AgentIsDone, agentVars, runnerVars
  <2>2. PICK q, e : q = up /\ up' = Append(q, e) /\ e.path = path
    BY <2>1 DEF Event
  <2>3. /\ Len(q) \in Nat /\ Len(up') = Len(q) + 1 /\ up'[Len(q) + 1] = e
        /\ \A i \in 1 .. Len(q) : up'[i] = q[i]
    BY <1>4, <2>2, AddIs
  <2>4. \A i \in 1 .. Len(up') : i \in 1 .. Len(q) \/ i = Len(q) + 1
    BY <2>3
  <2>5. \A i \in 1 .. Len(up') : Known(up'[i].path)
    BY <2>1, <2>2, <2>3, <2>4 DEF PathKnown
  <2>. QED
    BY <1>1, <2>1, <2>5 DEF PathKnown
<1>8. CASE PassOnEvent \/ ReceiveInterrupt \/ SecondInterrupt
  <2>1. /\ up # <<>> /\ up' = Tail(up) /\ path' = path /\ (pc' = pc \/ pc' # "run")
        /\ store' = store \/ store' = Save(Head(up))
    BY <1>8 DEF PassOnEvent, ReceiveInterrupt, SecondInterrupt, Arrives, agentVars
  <2>2. PICK q : q = up
    OBVIOUS
  <2>3. /\ Len(q) \in Nat \ {0} /\ Len(up') = Len(q) - 1 /\ Head(q) = q[1]
        /\ \A i \in 1 .. Len(q) - 1 : up'[i] = q[i + 1]
    BY <1>4, <2>1, <2>2, RestIs
  <2>4. \A i \in 1 .. Len(up') : i \in 1 .. Len(q) - 1 /\ i + 1 \in 1 .. Len(q)
    BY <2>3
  <2>5. \A i \in 1 .. Len(up') : Known(up'[i].path)
    BY <2>2, <2>3, <2>4 DEF PathKnown
  <2>6. store' = store \/ (store' # <<>> /\ store'[1].path = q[1].path)
    BY <2>1, <2>2, <2>3, OneIs DEF Save
  <2>7. 1 \in 1 .. Len(up)
    BY <2>2, <2>3
  <2>8. store' # <<>> => Known(store'[1].path)
    BY <2>2, <2>6, <2>7 DEF PathKnown
  <2>. QED
    BY <1>1, <2>1, <2>5, <2>8 DEF PathKnown
<1>9. CASE ResumeFlow
  <2>1. path' = store[1].path /\ store # <<>> /\ store' = store /\ up' = <<>>
    BY <1>9 DEF ResumeFlow, loadCheckPoint
  <2>. QED
    BY <1>1, <2>1, NoneIs DEF PathKnown
<1>10. CASE \/ AppendTransfers \/ EndFlow \/ PassOnInterrupt \/ EndRun
            \/ UNCHANGED vars
  <2>1. UNCHANGED <<path, up, store>> /\ (pc' = pc \/ pc' # "run")
    BY <1>10
    DEF AppendTransfers, EndFlow, PassOnInterrupt, EndRun, flowVars, agentVars, runnerVars, vars,
        workflowVars
  <2>. QED
    BY <1>1, <2>1 DEF PathKnown
<1>. QED
  BY <1>3, <1>5, <1>6, <1>7, <1>8, <1>9, <1>10 DEF FlowWork

\* Nothing is said at first.
LEMMA InputInitial == Init => InputKept
<1>. SUFFICES ASSUME Init
             PROVE  InputInv
  BY DEF InputKept
<1>1. sessionEvents = <<>> /\ toSay = <<>> /\ store = <<>> /\ count = 0 /\ runs = 1
  BY DEF Init, FlowInit, WorkflowInit
<1>. QED
  BY <1>1, NoneIs DEF InputInv, Ordered, Called, StartsWithCall, Roles

\* With a greater count, and in a later run, a session is still in order.
LEMMA OrderedLater ==
  ASSUME NEW s, Ordered(s), count \in Nat, count' \in Nat, count <= count',
         runs \in Nat, runs' \in Nat, runs <= runs'
  PROVE  Ordered(s)'
BY DEF Ordered

\* What is said is recorded, unless it is an interrupt, which calls for nothing.
LEMMA PassOrdered ==
  ASSUME InputInv, NEW say, Pass(say), runs' = runs,
         say.kind = "transfer" => sessionEvents # <<>> /\ Spoken(sessionEvents[Len(sessionEvents)])
  PROVE  /\ count' \in Nat /\ count <= count' /\ Ordered(sessionEvents)' /\ Roles(sessionEvents)'
         /\ Spoken(say) => /\ sessionEvents' # <<>>
                           /\ Spoken(sessionEvents'[Len(sessionEvents')])
<1>1. PICK e : e = Event(say)
  OBVIOUS
<1>2. /\ e.kind = say.kind /\ e.n = count + 1 /\ e.run = runs /\ runs \in Nat
      /\ e.kind = "transfer" => e.role = "tool"
      /\ IsEvent(e)
  BY <1>1 DEF Event, RoleOf, InputInv, IsEvent
<1>3. count' = count + 1 /\ sessionEvents' = sessionEvents \o Recorded(e) /\ count \in Nat
  BY <1>1 DEF Pass, InputInv
<1>4. PICK s, c : s = sessionEvents /\ c = count
  OBVIOUS
<1>5. IsSeq(s) /\ Ordered(s) /\ Roles(s)
  BY <1>4 DEF InputInv, Ordered, Called
<1>6. CASE e.kind = "interrupt"
  <2>1. sessionEvents' = s
    BY <1>3, <1>4, <1>5, <1>6, AddIs DEF Recorded
  <2>2. Ordered(s)'
    BY <1>2, <1>3, <1>5, OrderedLater
  <2>3. ~Spoken(say)
    BY <1>2, <1>6 DEF Spoken
  <2>. QED
    BY <1>3, <1>5, <2>1, <2>2, <2>3 DEF Ordered, Roles
<1>7. CASE e.kind # "interrupt"
  <2>1. PICK r : r = Append(s, e)
    OBVIOUS
  <2>2. sessionEvents' = r
    BY <1>3, <1>4, <1>5, <1>7, <2>1, AddIs DEF Recorded
  <2>3. /\ IsSeq(r) /\ Len(s) \in Nat /\ Len(r) = Len(s) + 1
        /\ \A i \in 1 .. Len(s) : r[i] = s[i]
        /\ r[Len(s) + 1] = e
    BY <1>5, <2>1, AddIs
  <2>4. r # <<>>
    BY <2>3, NoneIs
  <2>5. Spoken(say) => Spoken(r[Len(r)])
    BY <1>2, <2>3 DEF Spoken, HasMessage
  <2>6. /\ \A i \in 2 .. Len(s) : s[i].kind = "transfer" => Spoken(s[i - 1])
        /\ s # <<>> => s[1].kind # "transfer"
        /\ \A i \in 1 .. Len(s) : s[i].n \in Nat /\ 0 < s[i].n /\ s[i].n <= c
                                  /\ \A j \in 1 .. (i - 1) : s[j].n < s[i].n
        /\ \A i \in 1 .. Len(s) : IsEvent(s[i]) /\ s[i].run \in Nat /\ s[i].run <= runs
    BY <1>4, <1>5 DEF Ordered, Called, StartsWithCall
  <2>7. e.kind = "transfer" => Len(s) # 0 /\ Spoken(s[Len(s)])
    BY <1>2, <1>4, <1>5, <2>3 DEF IsSeq
  <2>8. \A i \in 2 .. Len(r) : r[i].kind = "transfer" => Spoken(r[i - 1])
    <3>1. \A i \in 2 .. Len(r) :
            \/ i \in 2 .. Len(s) /\ i \in 1 .. Len(s) /\ i - 1 \in 1 .. Len(s)
            \/ i = Len(s) + 1 /\ i - 1 = Len(s) /\ i - 1 \in 1 .. Len(s)
      BY <2>3
    <3>. QED
      BY <2>3, <2>6, <2>7, <3>1
  <2>9. r[1].kind # "transfer"
    <3>1. CASE Len(s) = 0
      BY <2>3, <2>7, <3>1
    <3>2. CASE Len(s) # 0
      <4>1. s # <<>> /\ 1 \in 1 .. Len(s)
        BY <2>3, <3>2, NoneIs
      <4>. QED
        BY <2>3, <2>6, <4>1
    <3>. QED
      BY <3>1, <3>2
  <2>10. \A i \in 1 .. Len(r) : r[i].n \in Nat /\ 0 < r[i].n /\ r[i].n <= c + 1
                                 /\ \A j \in 1 .. (i - 1) : r[j].n < r[i].n
    <3>1. c \in Nat /\ e.n = c + 1
      BY <1>2, <1>3, <1>4
    <3>. SUFFICES ASSUME NEW i \in 1 .. Len(r)
                 PROVE  r[i].n \in Nat /\ 0 < r[i].n /\ r[i].n <= c + 1
                        /\ \A j \in 1 .. (i - 1) : r[j].n < r[i].n
      OBVIOUS
    <3>2. CASE i \in 1 .. Len(s)
      <4>1. \A j \in 1 .. (i - 1) : j \in 1 .. Len(s)
        BY <2>3, <3>2
      <4>. QED
        BY <2>3, <2>6, <3>1, <3>2, <4>1
    <3>3. CASE i = Len(s) + 1
      <4>1. \A j \in 1 .. Len(s) : s[j].n \in Nat /\ s[j].n <= c
        BY <2>6
      <4>2. \A j \in 1 .. (i - 1) : j \in 1 .. Len(s)
        BY <3>3, <2>3
      <4>. QED
        BY <2>3, <3>1, <3>3, <4>1, <4>2
    <3>. QED
      BY <2>3, <3>2, <3>3
  <2>11. count' = c + 1
    BY <1>3, <1>4
  <2>12. \A i \in 1 .. Len(r) :
           /\ IsEvent(r[i]) /\ r[i].run \in Nat /\ r[i].run <= runs
           /\ r[i].kind = "transfer" => (r[i].role = "tool" <=> r[i].run = runs)
    <3>1. \A i \in 1 .. Len(r) : i \in 1 .. Len(s) \/ i = Len(s) + 1
      BY <2>3
    <3>. QED
      BY <1>2, <1>5, <2>3, <2>6, <3>1 DEF Roles
  <2>13. Ordered(r)'
    BY <2>3, <2>4, <2>8, <2>9, <2>10, <2>11, <2>12 DEF Ordered, Called, StartsWithCall
  <2>14. Roles(r)'
    BY <2>12 DEF Roles
  <2>. QED
    BY <1>3, <2>2, <2>4, <2>5, <2>13, <2>14 DEF Ordered, Roles
<1>. QED
  BY <1>6, <1>7

\* What is left to say when the first of it is said.
LEMMA RestCalled ==
  ASSUME NEW q, Called(q), q # <<>>
  PROVE  /\ Called(Tail(q)) /\ Head(q) = q[1]
         /\ Tail(q) # <<>> /\ Tail(q)[1].kind = "transfer" => Spoken(q[1])
<1>1. PICK r : r = Tail(q)
  OBVIOUS
<1>2. /\ IsSeq(r) /\ Len(q) \in Nat \ {0} /\ Len(r) = Len(q) - 1
      /\ \A i \in 1 .. Len(q) - 1 : r[i] = q[i + 1]
      /\ Head(q) = q[1]
  BY <1>1, RestIs DEF Called
<1>3. \A i \in 2 .. Len(r) : r[i].kind = "transfer" => Spoken(r[i - 1])
  <2>. SUFFICES ASSUME NEW i \in 2 .. Len(r), r[i].kind = "transfer"
               PROVE  Spoken(r[i - 1])
    OBVIOUS
  <2>1. i + 1 \in 2 .. Len(q) /\ i \in 1 .. Len(q) - 1 /\ i - 1 \in 1 .. Len(q) - 1
        /\ (i - 1) + 1 = i /\ (i + 1) - 1 = i
    BY <1>2
  <2>2. r[i] = q[i + 1] /\ r[i - 1] = q[i]
    BY <1>2, <2>1
  <2>. QED
    BY <2>1, <2>2 DEF Called
<1>4. r # <<>> /\ r[1].kind = "transfer" => Spoken(q[1])
  <2>1. r # <<>> => Len(r) # 0
    BY <1>2 DEF IsSeq
  <2>2. r # <<>> => 2 \in 2 .. Len(q) /\ 1 \in 1 .. Len(q) - 1 /\ 2 - 1 = 1 /\ 1 + 1 = 2
    BY <1>2, <2>1
  <2>3. r # <<>> => r[1] = q[2]
    BY <1>2, <2>2
  <2>. QED
    BY <2>2, <2>3 DEF Called
<1>. QED
  BY <1>1, <1>2, <1>3, <1>4 DEF Called

\* A checkpoint keeps the order, and drops the roles.
LEMMA WithoutRoles ==
  ASSUME NEW q, Ordered(q), NEW s, s = [k \in DOMAIN q |-> WithoutRole(q[k])]
  PROVE  Ordered(s) /\ NoRoles(s)
<1>1. IsSeq(s) /\ IsSeq(q)
  BY BareIs DEF Ordered, Called
<1>2. DOMAIN q = 1 .. Len(q) /\ Len(q) \in Nat /\ DOMAIN s = 1 .. Len(s) /\ Len(s) \in Nat
  BY <1>1 DEF IsSeq
<1>3. Len(s) = Len(q)
  BY <1>2
<1>4. \A i \in 1 .. Len(q) : /\ s[i].kind = q[i].kind /\ s[i].n = q[i].n /\ s[i].run = q[i].run
                             /\ s[i].role = "" /\ IsEvent(s[i])
  <2>. SUFFICES ASSUME NEW i \in 1 .. Len(q)
               PROVE  /\ s[i].kind = q[i].kind /\ s[i].n = q[i].n /\ s[i].run = q[i].run
                      /\ s[i].role = "" /\ IsEvent(s[i])
    OBVIOUS
  <2>1. IsEvent(q[i]) /\ s[i] = WithoutRole(q[i])
    BY <1>2 DEF Ordered
  <2>. QED
    BY <2>1 DEF WithoutRole, IsEvent
<1>5. s # <<>> => Len(s) # 0 /\ q # <<>>
  BY <1>1, <1>3, NoneIs DEF IsSeq
<1>6. \A i \in 2 .. Len(q) : i \in 1 .. Len(q) /\ i - 1 \in 1 .. Len(q)
  BY <1>2
<1>7. \A i \in 1 .. Len(q) : \A j \in 1 .. (i - 1) : j \in 1 .. Len(q)
  BY <1>2
<1>8. Called(s) /\ StartsWithCall(s)
  <2>1. \A i \in 1 .. Len(q) : Spoken(q[i]) => Spoken(s[i])
    BY <1>4 DEF Spoken, HasMessage
  <2>2. \A i \in 2 .. Len(s) : s[i].kind = "transfer" => Spoken(s[i - 1])
    BY <1>3, <1>4, <1>6, <2>1 DEF Ordered, Called
  <2>3. s # <<>> => 1 \in 1 .. Len(q)
    BY <1>2, <1>3, <1>5
  <2>. QED
    BY <1>1, <1>4, <1>5, <2>2, <2>3 DEF Ordered, Called, StartsWithCall
<1>9. \A i \in 1 .. Len(s) : s[i].n \in Nat /\ 0 < s[i].n /\ s[i].n <= count
                            /\ \A j \in 1 .. (i - 1) : s[j].n < s[i].n
  BY <1>3, <1>4, <1>7 DEF Ordered
<1>10. \A i \in 1 .. Len(s) : IsEvent(s[i]) /\ s[i].run \in Nat /\ s[i].run <= runs
  BY <1>3, <1>4 DEF Ordered
<1>. QED
  BY <1>3, <1>4, <1>8, <1>9, <1>10 DEF Ordered, NoRoles

\* A checkpoint stays in order.
LEMMA StoreLater ==
  ASSUME InputInv, store' = store, count' \in Nat, count <= count', runs' = runs
  PROVE  /\ store' # <<>> => Ordered(store[1].session)' /\ NoRoles(store[1].session)'
         /\ runs \in Nat /\ runs' \in Nat
<1>1. runs \in Nat /\ count \in Nat /\ runs' \in Nat /\ runs <= runs'
  BY DEF InputInv
<1>2. PICK s : s = store[1].session
  OBVIOUS
<1>3. ASSUME store # <<>>
      PROVE  Ordered(s)' /\ NoRoles(s)
  <2>1. Ordered(s) /\ NoRoles(s)
    BY <1>2, <1>3 DEF InputInv
  <2>. QED
    BY <1>1, <2>1, OrderedLater
<1>4. store' # <<>> => Ordered(s)' /\ NoRoles(s) /\ store'[1].session = s
  BY <1>2, <1>3
<1>. QED
  BY <1>1, <1>4 DEF Ordered, NoRoles

\* Every step keeps the session in order.
LEMMA InputStep ==
  ASSUME TurnsWhole, PathKnown, InputKept, [Next]_vars
  PROVE  InputKept'
<1>1. mode' = mode
  BY KindKept
<1>2. CASE mode # "flow"
  BY <1>1, <1>2 DEF InputKept
<1>. SUFFICES ASSUME mode = "flow", InputInv
             PROVE  InputInv'
  BY <1>1, <1>2 DEF InputKept
<1>3. FlowWork \/ ResumeFlow \/ UNCHANGED vars
  BY KindKept
<1>4. CASE UNCHANGED <<runs, count, sessionEvents, store, toSay>>
  BY <1>4 DEF InputInv, Ordered, Roles, NoRoles
<1>5. CASE StartFlow \/ TransferTo
  <2>1. UNCHANGED <<runs, count, sessionEvents, store>> /\ toSay' \in Turns
    BY <1>5 DEF StartFlow, TransferTo, RunAgent, runnerVars
  <2>2. Called(toSay') /\ (toSay' # <<>> => toSay'[1].kind # "transfer")
    BY <2>1 DEF TurnsWhole, StartsWithCall
  <2>. QED
    BY <2>1, <2>2 DEF InputInv, Ordered, Roles, NoRoles
<1>6. CASE NextEvent
  <2>1. PICK q : q = toSay
    OBVIOUS
  <2>2. Pass(q[1]) /\ toSay' = Tail(q) /\ store' = store /\ runs' = runs /\ q # <<>> /\ Called(q)
        /\ (Tail(q) # <<>> /\ Tail(q)[1].kind = "transfer" => Spoken(q[1])) /\ Called(Tail(q))
    BY <1>6, <2>1, RestCalled DEF NextEvent, InputInv, runnerVars
  <2>3. PICK say : say = q[1]
    OBVIOUS
  <2>4. Pass(say) /\ (say.kind = "transfer" =>
                         sessionEvents # <<>> /\ Spoken(sessionEvents[Len(sessionEvents)]))
    BY <2>1, <2>2, <2>3 DEF InputInv
  <2>5. /\ count' \in Nat /\ count <= count' /\ Ordered(sessionEvents)' /\ Roles(sessionEvents)'
        /\ Spoken(say) => /\ sessionEvents' # <<>>
                          /\ Spoken(sessionEvents'[Len(sessionEvents')])
    BY <2>2, <2>4, PassOrdered
  <2>6. /\ store' # <<>> => Ordered(store[1].session)' /\ NoRoles(store[1].session)'
        /\ runs' \in Nat
    BY <2>2, <2>5, StoreLater
  <2>. QED
    BY <2>2, <2>3, <2>5, <2>6 DEF InputInv
<1>7. CASE AgentFails
  <2>1. PICK say : say = Say("error", Root)
    OBVIOUS
  <2>2. Pass(say) /\ toSay' = <<>> /\ store' = store /\ runs' = runs /\ say.kind # "transfer"
    BY <1>7, <2>1 DEF AgentFails, runnerVars, Say
  <2>3. count' \in Nat /\ count <= count' /\ Ordered(sessionEvents)' /\ Roles(sessionEvents)'
    BY <2>2, PassOrdered
  <2>4. /\ store' # <<>> => Ordered(store[1].session)' /\ NoRoles(store[1].session)'
        /\ runs' \in Nat
    BY <2>2, <2>3, StoreLater
  <2>. QED
    BY <2>2, <2>3, <2>4, NoneIs DEF InputInv, Called
<1>8. CASE AppendTransfers
  <2>1. PICK q : q = ToAgents[Me]
    OBVIOUS
  <2>2. /\ UNCHANGED <<runs, count, sessionEvents, store>> /\ q # <<>>
        /\ toSay' = FlattenSeq([k \in DOMAIN q |-> TransferMessages(q[k])])
    BY <1>8, <2>1 DEF AppendTransfers, runnerVars
  <2>3. IsSeq(q)
    <3>1. Me \in FlowAgents
      BY <1>8 DEF AppendTransfers, PathKnown, Known, Me
    <3>. QED
      BY <2>1, <3>1, FlowAssumption DEF IsSeq
  <2>4. Called(toSay') /\ (toSay' # <<>> => toSay'[1].kind # "transfer")
    BY <2>2, <2>3, TransfersCalled DEF StartsWithCall
  <2>. QED
    BY <2>2, <2>4 DEF InputInv, Ordered, Roles, NoRoles
<1>9. CASE TransferFails
  <2>1. count' = count + 1 /\ UNCHANGED <<runs, sessionEvents, store, toSay>>
    BY <1>9 DEF TransferFails, agentVars, runnerVars
  <2>2. count \in Nat /\ count' \in Nat /\ count <= count'
    BY <2>1 DEF InputInv
  <2>3. /\ store' # <<>> => Ordered(store[1].session)' /\ NoRoles(store[1].session)'
        /\ runs \in Nat /\ runs' \in Nat /\ runs <= runs'
    BY <2>1, <2>2, StoreLater
  <2>4. PICK s : s = sessionEvents
    OBVIOUS
  <2>5. Ordered(s)'
    BY <2>1, <2>2, <2>3, <2>4, OrderedLater DEF InputInv
  <2>6. Ordered(sessionEvents)' /\ Roles(sessionEvents)'
    BY <2>1, <2>4, <2>5 DEF InputInv, Ordered, Roles
  <2>. QED
    BY <2>1, <2>2, <2>3, <2>6 DEF InputInv
<1>10. CASE ReceiveInterrupt
  <2>1. /\ UNCHANGED <<runs, count, sessionEvents, toSay>>
        /\ store' = store \/ store' = Save(Head(up))
    BY <1>10 DEF ReceiveInterrupt, agentVars
  <2>2. CASE store' = store
    BY <2>1, <2>2 DEF InputInv, Ordered, Roles, NoRoles
  <2>3. CASE store' = Save(Head(up))
    <3>1. PICK s : s = [k \in DOMAIN sessionEvents |-> WithoutRole(sessionEvents[k])]
      OBVIOUS
    <3>2. store' # <<>> /\ store'[1].session = s
      BY <2>3, <3>1, OneIs DEF Save
    <3>3. Ordered(sessionEvents) /\ IsSeq(sessionEvents)
      BY DEF InputInv, Ordered, Called
    <3>4. Ordered(s) /\ NoRoles(s)
      BY <3>1, <3>3, WithoutRoles
    <3>. QED
      BY <2>1, <3>2, <3>4 DEF InputInv, Ordered, Roles, NoRoles
  <2>. QED
    BY <2>1, <2>2, <2>3
<1>11. CASE ResumeFlow
  <2>1. /\ UNCHANGED <<count, store>> /\ store # <<>> /\ sessionEvents' = store[1].session
        /\ toSay' \in Turns \/ toSay' = <<>>
        /\ runs' = runs + 1 /\ runs' \in Nat /\ runs \in Nat
    BY <1>11 DEF ResumeFlow, loadCheckPoint, InputInv
  <2>2. Called(toSay') /\ (toSay' # <<>> => toSay'[1].kind # "transfer")
    BY <2>1, NoneIs DEF TurnsWhole, StartsWithCall, Called
  <2>3. PICK s : s = store[1].session
    OBVIOUS
  <2>4. Ordered(s) /\ NoRoles(s) /\ count \in Nat
    BY <2>1, <2>3 DEF InputInv
  <2>5. Ordered(s)'
    BY <2>1, <2>4, OrderedLater
  <2>6. Roles(s)'
    <3>1. runs' # runs /\ \A i \in 1 .. Len(s) : s[i].run # runs' /\ s[i].role = ""
      <4>1. \A i \in 1 .. Len(s) : s[i].run \in Nat /\ s[i].run <= runs /\ s[i].role = ""
        BY <2>4 DEF NoRoles, Ordered
      <4>2. runs' = runs + 1 /\ runs \in Nat
        BY <2>1
      <4>3. runs' # runs /\ \A x \in Nat : x <= runs => x # runs'
        BY <4>2
      <4>. QED
        BY <4>1, <4>3
    <3>. QED
      BY <3>1 DEF Roles
  <2>. QED
    BY <2>1, <2>2, <2>3, <2>4, <2>5, <2>6 DEF InputInv, Ordered, Roles, NoRoles
<1>12. CASE EndFlow \/ PassOnEvent \/ PassOnInterrupt \/ SecondInterrupt \/ EndRun \/ UNCHANGED vars
  BY <1>4, <1>12
  DEF EndFlow, PassOnEvent, PassOnInterrupt, SecondInterrupt, EndRun, flowVars, agentVars,
      runnerVars, vars, workflowVars, Arrives
<1>. QED
  BY <1>3, <1>5, <1>6, <1>7, <1>8, <1>9, <1>10, <1>11, <1>12 DEF FlowWork

\* An agent that is handed a conversation over is given every message of it,
\* those from before an interrupt as well, less transfers and, of those since
\* the last resumption, what called for them if it is to skip these
\* (genAgentInput of flow.go); provided that no
\* agent calls for two transfers with one message, because then a message goes
\* that has nothing to do with them.
THEOREM InputCorrect == ASSUME TurnsWhole PROVE Spec => InputWhole
<1>1. InputKept /\ [Next]_vars =>
        (path' # path /\ input' # input =>
           \A k \in DOMAIN sessionEvents :
             LET e == sessionEvents[k]
                 pair == skip /\ (\/ e.kind = "transfer"
                                  \/ /\ k < Len(sessionEvents)
                                     /\ sessionEvents[k + 1].kind = "transfer"
                                     /\ sessionEvents[k + 1].run = runs)
             IN HasMessage(e) => (Contains(input', e) <=> ~pair))
  <2>. SUFFICES ASSUME InputKept, [Next]_vars, path' # path, input' # input
               PROVE  \A k \in DOMAIN sessionEvents :
                        LET e == sessionEvents[k]
                            pair == skip /\ (\/ e.kind = "transfer"
                                             \/ /\ k < Len(sessionEvents)
                                                /\ sessionEvents[k + 1].kind = "transfer"
                                                /\ sessionEvents[k + 1].run = runs)
                        IN HasMessage(e) => (Contains(input', e) <=> ~pair)
    OBVIOUS
  <2>1. mode = "flow" /\ (FlowWork \/ ResumeFlow)
    BY KindKept DEF flowVars, agentVars, vars
  <2>2. input' = genAgentInput
    BY <2>1
    DEF FlowWork, ResumeFlow, StartFlow, NextEvent, AgentFails, AppendTransfers, TransferTo,
        TransferFails, EndFlow, PassOnEvent, ReceiveInterrupt, PassOnInterrupt, SecondInterrupt,
        EndRun, RunAgent, flowVars, agentVars
  <2>3. Ordered(sessionEvents) /\ Roles(sessionEvents)
    BY <2>1 DEF InputKept, InputInv
  <2>. QED
    BY <2>2, <2>3, InputIs
<1>2. InputKept /\ [Next]_vars =>
        [path' # path /\ input' # input =>
           \A k \in DOMAIN sessionEvents :
             LET e == sessionEvents[k]
                 pair == skip /\ (\/ e.kind = "transfer"
                                  \/ /\ k < Len(sessionEvents)
                                     /\ sessionEvents[k + 1].kind = "transfer"
                                     /\ sessionEvents[k + 1].run = runs)
             IN HasMessage(e) => (Contains(input', e) <=> ~pair)]_<<workflowVars, flowVars>>
  BY <1>1
<1>. QED
  BY <1>2, InputInitial, InputStep, PathInitial, PathStep, FlowInitial, FlowStep, PTL DEF Spec, InputWhole

-----------------------------------------------------------------------------
(* Sums. *)

\* The sum of numbers, put together from the left.
Summed(sum, a, n) ==
  /\ sum \in [0 .. n -> Nat]
  /\ sum[0] = 0 /\ \A k \in 1 .. n : sum[k] = sum[k - 1] + a[k]
  /\ SumOf(a) = sum[n]

\* That is what SumOf gives.
LEMMA SumIs ==
  ASSUME NEW n \in Nat, NEW a \in [1 .. n -> Nat]
  PROVE  \E sum : Summed(sum, a, n)
<1>1. PICK g : g = [p \in Nat \X Nat |-> IF p[2] \in 1 .. n THEN p[1] + a[p[2]] ELSE p[1]]
  OBVIOUS
<1>2. g \in [Nat \X Nat -> Nat]
  BY <1>1
<1>3. ASSUME NEW q \in Nat, NEW k \in 1 .. n
      PROVE  g[<<q, k>>] = q + a[k]
  BY <1>1
<1>4. PICK f : Recursive(f, 0, n, Nat, 0, g)
  <2>1. 0 \in Nat
    OBVIOUS
  <2>. QED
    BY <1>2, <2>1, Recursion, Zenon
<1>5. f \in [0 .. n -> Nat] /\ f[0] = 0 /\ \A k \in 1 .. n : f[k] = g[<<f[k - 1], k>>]
  <2>1. 0 .. 0 + n = 0 .. n /\ 0 + 1 .. 0 + n = 1 .. n
    OBVIOUS
  <2>. QED
    BY <1>4, <2>1 DEF Recursive
<1>6. \A k \in 1 .. n : f[k] = f[k - 1] + a[k]
  <2>1. \A k \in 1 .. n : f[k - 1] \in Nat
    BY <1>5
  <2>. QED
    BY <1>3, <1>5, <2>1
<1>. DEFINE P(h) == h = [k \in 0 .. n |-> IF k = 0 THEN 0 ELSE h[k - 1] + a[k]]
            c == CHOOSE h : P(h)
<1>7. P(f)
  <2>1. \A k \in 0 .. n : f[k] = IF k = 0 THEN 0 ELSE f[k - 1] + a[k]
    <3>1. \A k \in 0 .. n : k = 0 \/ (k # 0 /\ k \in 1 .. n)
      OBVIOUS
    <3>. QED
      BY <1>5, <1>6, <3>1
  <2>2. f = [k \in 0 .. n |-> f[k]]
    BY <1>5
  <2>. QED
    BY <2>1, <2>2
<1>8. P(c)
  <2>. HIDE DEF P
  <2>. QED
    BY <1>7
<1>9. SumOf(a) = c[n]
  <2>1. Len(a) = n
    OBVIOUS
  <2>. QED
    BY <2>1 DEF SumOf
<1>. HIDE DEF c
<1>10. c[0] = 0 /\ \A k \in 1 .. n : c[k] = c[k - 1] + a[k]
  <2>1. \A k \in 0 .. n : c[k] = IF k = 0 THEN 0 ELSE c[k - 1] + a[k]
    BY <1>8
  <2>. HIDE DEF P
  <2>2. 0 \in 0 .. n /\ \A k \in 1 .. n : k # 0 /\ k \in 0 .. n
    OBVIOUS
  <2>. QED
    BY <2>1, <2>2
<1>11. \A k \in 0 .. n : c[k] \in Nat
  <2>. HIDE DEF P
  <2>. DEFINE M == {k \in Nat : k <= n => c[k] \in Nat}
  <2>1. 0 \in M
    BY <1>10
  <2>2. ASSUME NEW k \in M
        PROVE  k + 1 \in M
    <3>. SUFFICES ASSUME k + 1 <= n
                 PROVE  c[k + 1] \in Nat
      OBVIOUS
    <3>1. k \in Nat /\ k <= n /\ k + 1 \in 1 .. n /\ (k + 1) - 1 = k /\ c[k] \in Nat
      OBVIOUS
    <3>2. c[k + 1] = c[k] + a[k + 1]
      BY <1>10, <3>1
    <3>. QED
      BY <3>1, <3>2
  <2>3. M = Nat
    <3>. HIDE DEF M
    <3>1. M \in SUBSET Nat
      BY DEF M
    <3>. QED
      BY <2>1, <2>2, <3>1, AllNumbers
  <2>. QED
    BY <2>3
<1>12. c = [k \in 0 .. n |-> c[k]]
  BY <1>8
<1>13. c \in [0 .. n -> Nat]
  <2>. HIDE DEF P
  <2>. QED
    BY <1>11, <1>12
<1>14. Summed(c, a, n)
  <2>. HIDE DEF P
  <2>. QED
    BY <1>9, <1>10, <1>13 DEF Summed
<1>. QED
  BY <1>14

\* More numbers, or greater ones, have no smaller sum.
LEMMA SumGrows ==
  ASSUME NEW n \in Nat, NEW m \in Nat, NEW d \in Nat, n + d <= m,
         NEW a \in [1 .. n -> Nat], NEW b \in [1 .. m -> Nat],
         \A k \in 1 .. n : a[k] <= b[k + d]
  PROVE  SumOf(a) <= SumOf(b) /\ SumOf(a) \in Nat /\ SumOf(b) \in Nat
<1>1. PICK s : Summed(s, a, n)
  BY SumIs
<1>2. PICK t : Summed(t, b, m)
  BY SumIs
<1>3. \A k \in 0 .. n : s[k] <= t[k + d]
  <2>. DEFINE M == {k \in Nat : k <= n => s[k] <= t[k + d]}
  <2>1. 0 \in M
    BY <1>1, <1>2 DEF Summed
  <2>2. ASSUME NEW k \in M
        PROVE  k + 1 \in M
    <3>. SUFFICES ASSUME k + 1 <= n
                 PROVE  s[k + 1] <= t[(k + 1) + d]
      OBVIOUS
    <3>1. /\ k \in Nat /\ k <= n /\ k + 1 \in 1 .. n /\ (k + 1) - 1 = k /\ s[k] <= t[k + d]
          /\ (k + 1) + d \in 1 .. m /\ ((k + 1) + d) - 1 = k + d /\ k \in 0 .. n /\ k + d \in 0 .. m
      OBVIOUS
    <3>2. s[k + 1] = s[k] + a[k + 1] /\ s[k] \in Nat
      BY <1>1, <3>1 DEF Summed
    <3>3. t[(k + 1) + d] = t[k + d] + b[(k + 1) + d] /\ t[k + d] \in Nat
      BY <1>2, <3>1 DEF Summed
    <3>4. a[k + 1] \in Nat /\ b[(k + 1) + d] \in Nat /\ a[k + 1] <= b[(k + 1) + d]
      BY <3>1
    <3>5. PICK w, x, y, z \in Nat : w = s[k] /\ x = t[k + d] /\ y = a[k + 1] /\ z = b[(k + 1) + d]
      BY <3>2, <3>3, <3>4
    <3>6. w + y <= x + z
      <4>1. w <= x /\ y <= z
        BY <3>1, <3>4, <3>5
      <4>. QED
        BY <4>1
    <3>. QED
      BY <3>2, <3>3, <3>5, <3>6
  <2>3. M = Nat
    <3>. HIDE DEF M
    <3>1. M \in SUBSET Nat
      BY DEF M
    <3>. QED
      BY <2>1, <2>2, <3>1, AllNumbers
  <2>. SUFFICES ASSUME NEW k \in 0 .. n
               PROVE  s[k] <= t[k + d]
    OBVIOUS
  <2>4. k \in Nat /\ k <= n
    OBVIOUS
  <2>5. k \in M
    BY <2>3, <2>4
  <2>. QED
    BY <2>4, <2>5
<1>4. \A k \in 0 .. (m - (n + d)) : t[n + d] <= t[(n + d) + k]
  <2>. DEFINE M == {k \in Nat : (n + d) + k <= m => t[n + d] <= t[(n + d) + k]}
  <2>1. 0 \in M
    <3>1. t[n + d] \in Nat /\ (n + d) + 0 = n + d
      BY <1>2 DEF Summed
    <3>. QED
      BY <3>1
  <2>2. ASSUME NEW k \in M
        PROVE  k + 1 \in M
    <3>. SUFFICES ASSUME (n + d) + (k + 1) <= m
                 PROVE  t[n + d] <= t[(n + d) + (k + 1)]
      OBVIOUS
    <3>1. PICK i \in Nat : i = (n + d) + k
      OBVIOUS
    <3>2. /\ i + 1 = (n + d) + (k + 1) /\ t[n + d] <= t[i]
          /\ i + 1 \in 1 .. m /\ (i + 1) - 1 = i /\ i \in 0 .. m /\ n + d \in 0 .. m
      BY <3>1
    <3>3. t[i + 1] = t[i] + b[i + 1] /\ t[i] \in Nat /\ t[n + d] \in Nat /\ b[i + 1] \in Nat
      BY <1>2, <3>2 DEF Summed
    <3>. QED
      BY <3>2, <3>3
  <2>3. M = Nat
    <3>. HIDE DEF M
    <3>1. M \in SUBSET Nat
      BY DEF M
    <3>. QED
      BY <2>1, <2>2, <3>1, AllNumbers
  <2>. SUFFICES ASSUME NEW k \in 0 .. (m - (n + d))
               PROVE  t[n + d] <= t[(n + d) + k]
    OBVIOUS
  <2>4. k \in Nat /\ (n + d) + k <= m
    OBVIOUS
  <2>5. k \in M
    BY <2>3, <2>4
  <2>. QED
    BY <2>4, <2>5
<1>5. s[n] <= t[n + d] /\ t[n + d] <= t[m]
  <2>1. m - (n + d) \in 0 .. (m - (n + d)) /\ (n + d) + (m - (n + d)) = m /\ n \in 0 .. n
    OBVIOUS
  <2>. QED
    BY <1>3, <1>4, <2>1
<1>. QED
  <2>1. s[n] \in Nat /\ t[n + d] \in Nat /\ t[m] \in Nat
    BY <1>1, <1>2 DEF Summed
  <2>. QED
    BY <1>1, <1>2, <1>5, <2>1 DEF Summed

-----------------------------------------------------------------------------
(* Results of tools, and the files they are moved to. *)

IsToolMessage(m) ==
  /\ m = [role |-> "tool", tool |-> m.tool, id |-> m.id, result |-> m.result,
          form |-> m.form, size |-> m.size, was |-> m.was, round |-> m.round]
  /\ m.was \in Nat /\ m.round \in Nat /\ m.result \in Nat

\* The same message, or what was left of it.
SameResult(m, n) ==
  /\ m.role = n.role
  /\ m.role = "tool" => /\ IsToolMessage(n)
                        /\ n.tool = m.tool /\ n.id = m.id /\ n.result = m.result
                        /\ n.was = m.was /\ n.round = m.round

\* What came after a result in a round stays so.
After(ms, m) ==
  SumOf([k \in DOMAIN ms |-> IF LaterInRound(m, ms[k]) THEN ms[k].was ELSE 0])

\* More messages, or what is left of them, have no less after a result.
LEMMA AfterGrows ==
  ASSUME NEW ms, IsSeq(ms), NEW ns, IsSeq(ns), Len(ms) <= Len(ns),
         \A k \in 1 .. Len(ns) : ns[k].role = "tool" => IsToolMessage(ns[k]),
         \A k \in 1 .. Len(ms) : SameResult(ms[k], ns[k]),
         NEW m, NEW n, SameResult(m, n), m.role = "tool"
  PROVE  After(ms, m) <= After(ns, n) /\ After(ms, m) \in Nat /\ After(ns, n) \in Nat
<1>1. Len(ms) \in Nat /\ Len(ns) \in Nat /\ DOMAIN ms = 1 .. Len(ms) /\ DOMAIN ns = 1 .. Len(ns)
  BY DEF IsSeq
<1>2. PICK i, j \in Nat : i = Len(ms) /\ j = Len(ns)
  BY <1>1
<1>3. PICK a : a = [k \in 1 .. i |-> IF LaterInRound(m, ms[k]) THEN ms[k].was ELSE 0]
  OBVIOUS
<1>4. PICK b : b = [k \in 1 .. j |-> IF LaterInRound(n, ns[k]) THEN ns[k].was ELSE 0]
  OBVIOUS
<1>5. ASSUME NEW k \in 1 .. i
      PROVE  /\ LaterInRound(m, ms[k]) <=> LaterInRound(n, ns[k])
             /\ LaterInRound(m, ms[k]) => ms[k].was \in Nat
             /\ LaterInRound(m, ms[k]) => ms[k].was = ns[k].was
  <2>1. PICK x, y : x = ms[k] /\ y = ns[k]
    OBVIOUS
  <2>2. SameResult(x, y)
    BY <1>2, <2>1
  <2>. QED
    BY <2>1, <2>2 DEF LaterInRound, SameResult, IsToolMessage
<1>6. b \in [1 .. j -> Nat]
  <2>1. \A k \in 1 .. j : LaterInRound(n, ns[k]) => ns[k].was \in Nat
    BY <1>2 DEF LaterInRound, IsToolMessage
  <2>. QED
    BY <1>4, <2>1
<1>7. a \in [1 .. i -> Nat]
  <2>1. ASSUME NEW k \in 1 .. i
        PROVE  (IF LaterInRound(m, ms[k]) THEN ms[k].was ELSE 0) \in Nat
    <3>1. LaterInRound(m, ms[k]) => ms[k].was \in Nat
      BY <1>5
    <3>. QED
      BY <3>1
  <2>. QED
    BY <1>3, <2>1
<1>8. i + 0 <= j /\ 0 \in Nat /\ \A k \in 1 .. i : k + 0 = k /\ k \in 1 .. j
  BY <1>2
<1>9. \A k \in 1 .. i : a[k] <= b[k + 0]
  <2>1. \A k \in 1 .. i : a[k] = b[k] /\ a[k] \in Nat
    <3>. SUFFICES ASSUME NEW k \in 1 .. i
                 PROVE  a[k] = b[k] /\ a[k] \in Nat
      OBVIOUS
    <3>1. /\ a[k] = IF LaterInRound(m, ms[k]) THEN ms[k].was ELSE 0
          /\ b[k] = IF LaterInRound(n, ns[k]) THEN ns[k].was ELSE 0
      BY <1>3, <1>4, <1>8
    <3>2. a[k] = b[k]
      BY <1>5, <3>1
    <3>. QED
      BY <1>7, <3>2
  <2>. QED
    BY <1>8, <2>1
<1>10. SumOf(a) <= SumOf(b) /\ SumOf(a) \in Nat /\ SumOf(b) \in Nat
  BY <1>6, <1>7, <1>8, <1>9, SumGrows
<1>. QED
  BY <1>1, <1>2, <1>3, <1>4, <1>10 DEF After

\* What is cleared comes before more than the budget for recent messages.
LEMMA ReducedIs ==
  ASSUME NEW ms, IsSeq(ms), \A k \in 1 .. Len(ms) : ms[k].role = "tool" => IsToolMessage(ms[k])
  PROVE  /\ IsSeq(Reduced(ms)) /\ Len(Reduced(ms)) = Len(ms)
         /\ \A k \in 1 .. Len(ms) :
              /\ SameResult(ms[k], Reduced(ms)[k])
              /\ \/ Reduced(ms)[k] = ms[k]
                 \/ /\ ms[k].role = "tool" /\ Reduced(ms)[k].form = "cleared"
                    /\ ms[k].tool \notin ExcludeTools
                    /\ \E l \in k + 1 .. Len(ms) :
                         SumOf([i \in 1 .. Len(ms) - (l - 1) |-> ms[i + (l - 1)].size]) > KeepRecent
<1>1. PICK n \in Nat : n = Len(ms) /\ DOMAIN ms = 1 .. n
  BY DEF IsSeq
<1>2. ASSUME NEW k \in 1 .. n
      PROVE  SameResult(ms[k], ms[k])
  BY <1>1 DEF SameResult
<1>3. CASE Reduced(ms) = ms
  BY <1>1, <1>2, <1>3
<1>4. CASE Reduced(ms) # ms
  <2>1. PICK r : r = RecentStart(ms)
    OBVIOUS
  <2>2. PICK q : q = Reduced(ms)
    OBVIOUS
  <2>3. q = [k \in 1 .. n |-> IF k < r /\ IsResult(ms[k]) /\ ms[k].tool \notin ExcludeTools
                             THEN [ms[k] EXCEPT !.form = "cleared", !.size = PlaceholderSize]
                             ELSE ms[k]]
    BY <1>1, <1>4, <2>1, <2>2 DEF Reduced
  <2>. DEFINE over == {k \in 1 .. n : Tokens(SubSeq(ms, k, n)) > KeepRecent}
  <2>4. r = 1 \/ r \in over
    <3>1. r = IF over = {} THEN 1 ELSE CHOOSE k \in over : \A l \in over : l <= k
      BY <1>1, <2>1 DEF RecentStart
    <3>2. CASE over # {}
      <4>1. over \in SUBSET Nat /\ \A k \in over : k <= n
        OBVIOUS
      <4>. HIDE DEF over
      <4>2. \E k \in over : \A l \in over : k >= l
        BY <3>2, <4>1, GreatestOne
      <4>3. \E k \in over : \A l \in over : l <= k
        BY <4>1, <4>2
      <4>. QED
        BY <3>1, <3>2, <4>3
    <3>. HIDE DEF over
    <3>. QED
      BY <3>1, <3>2
  <2>5. r \in over => /\ r \in 1 .. n
                      /\ SumOf([i \in 1 .. n - (r - 1) |-> ms[i + (r - 1)].size]) > KeepRecent
    <3>1. ASSUME r \in over
          PROVE  /\ r \in 1 .. n
                 /\ SumOf([i \in 1 .. n - (r - 1) |-> ms[i + (r - 1)].size]) > KeepRecent
      <4>1. r \in 1 .. n /\ Tokens(SubSeq(ms, r, n)) > KeepRecent
        BY <3>1
      <4>2. PICK u : u = SubSeq(ms, r, n)
        OBVIOUS
      <4>3. DOMAIN u = 1 .. n - (r - 1) /\ \A i \in 1 .. n - (r - 1) : u[i] = ms[i + (r - 1)]
        BY <1>1, <4>1, <4>2 DEF IsSeq
      <4>4. [i \in DOMAIN u |-> u[i].size] = [i \in 1 .. n - (r - 1) |-> ms[i + (r - 1)].size]
        BY <4>3
      <4>. QED
        BY <4>1, <4>2, <4>4 DEF Tokens
    <3>. QED
      BY <3>1
  <2>6. IsSeq(q) /\ Len(q) = n
    <3>1. q \in [1 .. n -> ToSet(q)]
      BY <2>3 DEF ToSet
    <3>2. q \in Seq(ToSet(q))
      BY <3>1, SeqDef
    <3>3. DOMAIN q = 1 .. n
      BY <2>3
    <3>4. DOMAIN q = 1 .. Len(q) /\ Len(q) \in Nat
      BY <3>2
    <3>5. \A k \in Nat : k \in 1 .. n <=> k \in 1 .. Len(q)
      BY <3>3, <3>4
    <3>6. Len(q) = n
      <4>1. n # 0 => n \in 1 .. Len(q)
        BY <3>5
      <4>2. Len(q) # 0 => Len(q) \in 1 .. n
        BY <3>4, <3>5
      <4>3. PICK m \in Nat : m = Len(q)
        BY <3>4
      <4>4. (n # 0 => n <= m) /\ (m # 0 => m <= n)
        BY <4>1, <4>2, <4>3
      <4>. QED
        BY <4>3, <4>4
    <3>. QED
      BY <3>2, <3>6 DEF IsSeq
  <2>7. ASSUME NEW k \in 1 .. n
        PROVE  /\ SameResult(ms[k], q[k])
               /\ \/ q[k] = ms[k]
                  \/ /\ ms[k].role = "tool" /\ q[k].form = "cleared"
                     /\ ms[k].tool \notin ExcludeTools
                     /\ r \in k + 1 .. n
                     /\ SumOf([i \in 1 .. n - (r - 1) |-> ms[i + (r - 1)].size]) > KeepRecent
    <3>1. CASE q[k] = ms[k]
      BY <1>2, <3>1
    <3>2. CASE q[k] # ms[k]
      <4>1. /\ k < r /\ IsResult(ms[k]) /\ ms[k].tool \notin ExcludeTools
            /\ q[k] = [ms[k] EXCEPT !.form = "cleared", !.size = PlaceholderSize]
        BY <2>3, <3>2
      <4>2. ms[k].role = "tool" /\ IsToolMessage(ms[k])
        BY <1>1, <4>1 DEF IsResult
      <4>3. r # 1 /\ r \in over /\ r \in k + 1 .. n
        BY <2>4, <2>5, <4>1
      <4>4. SameResult(ms[k], q[k]) /\ q[k].form = "cleared"
        <5>1. PICK m : m = ms[k]
          OBVIOUS
        <5>2. q[k] = [role |-> "tool", tool |-> m.tool, id |-> m.id, result |-> m.result,
                      form |-> "cleared", size |-> PlaceholderSize, was |-> m.was,
                      round |-> m.round]
          BY <4>1, <4>2, <5>1 DEF IsToolMessage
        <5>. QED
          BY <4>2, <5>1, <5>2 DEF SameResult, IsToolMessage
      <4>. QED
        BY <2>5, <4>1, <4>2, <4>3, <4>4
    <3>. QED
      BY <3>1, <3>2
  <2>. QED
    BY <1>1, <2>2, <2>6, <2>7
<1>. QED
  BY <1>3, <1>4

-----------------------------------------------------------------------------
Stored(id, result) == id \in DOMAIN files /\ (id \in rewritten \/ files[id].of = result)

\* A call at work, with its result so far.
CallOk(x) ==
  /\ x = [call |-> x.call, stage |-> x.stage, result |-> x.result, form |-> x.form, size |-> x.size]
  /\ x.size \in Nat /\ x.result \in Nat /\ x.call.size \in Nat
  /\ x.form \in {"whole", "notice"}
  /\ x.form = "notice" => Stored(x.call.id, x.result)

\* The result of a tool among so many messages of the model.
ResultOk(ms, k, asks) ==
  LET m == ms[k] IN
    /\ IsToolMessage(m)
    /\ m.form # "cleared" => m.size = m.was
    /\ m.form = "cleared" => m.tool \notin ExcludeTools
    /\ m.round <= asks
    /\ m.round < asks => m.result \in shown \/ After(ms, m) > KeepRecent
    /\ m.round = asks => /\ m.form # "cleared"
                          /\ \A l \in k + 1 .. Len(ms) : LaterInRound(m, ms[l])

ToolResults(ms) == {k \in DOMAIN ms : ms[k].role = "tool"}

FilesInv ==
  /\ IsSeq(transcript) /\ results \in Nat
  /\ \E n \in Nat : DOMAIN todoCalls = 1 .. n
  /\ \A c \in DOMAIN todoCalls :
       CallOk(todoCalls[c]) /\ \A d \in 1 .. c - 1 : todoCalls[d].result < todoCalls[c].result
  /\ \A k \in DOMAIN transcript : transcript[k].role \in {"tool", "assistant"}
  /\ \A k \in ToolResults(transcript) : ResultOk(transcript, k, AskedModel)
  /\ \A k \in ToolResults(transcript) :
       transcript[k].form = "notice" => Stored(transcript[k].id, transcript[k].result)
  /\ pc = "tools" => \A k \in ToolResults(transcript) : transcript[k].round < AskedModel

FilesKept == Files => FilesInv

\* How often the model was asked.
Asked(ms) == Cardinality({k \in DOMAIN ms : ms[k].role = "assistant"})

\* That is a number.
LEMMA AskedIs ==
  ASSUME NEW ms, IsSeq(ms)
  PROVE  Asked(ms) \in Nat
<1>1. PICK n \in Nat : DOMAIN ms = 1 .. n
  BY DEF IsSeq
<1>2. PICK T : T = {k \in DOMAIN ms : ms[k].role = "assistant"}
  OBVIOUS
<1>3. IsFiniteSet(T)
  <2>1. T \in SUBSET (1 .. n) /\ IsFiniteSet(1 .. n)
    BY <1>1, <1>2, FS_Interval
  <2>. QED
    BY <2>1, FS_Subset
<1>. QED
  BY <1>2, <1>3, FS_CardinalityType DEF Asked

\* Results of tools do not count.
LEMMA AskedSame ==
  ASSUME NEW ms, IsSeq(ms), NEW ns, IsSeq(ns), Len(ms) <= Len(ns),
         \A k \in 1 .. Len(ms) : ns[k].role = ms[k].role,
         \A k \in Len(ms) + 1 .. Len(ns) : ns[k].role = "tool"
  PROVE  Asked(ns) = Asked(ms)
<1>1. PICK n, m \in Nat : n = Len(ms) /\ DOMAIN ms = 1 .. n /\ m = Len(ns) /\ DOMAIN ns = 1 .. m
  BY DEF IsSeq
<1>2. n <= m /\ \A k \in 1 .. m : k \in 1 .. n \/ k \in n + 1 .. m
  BY <1>1
<1>3. \A k : (k \in 1 .. m /\ ns[k].role = "assistant") <=> (k \in 1 .. n /\ ms[k].role = "assistant")
  BY <1>1, <1>2
<1>4. {k \in DOMAIN ns : ns[k].role = "assistant"} = {k \in DOMAIN ms : ms[k].role = "assistant"}
  BY <1>1, <1>3
<1>. QED
  BY <1>4 DEF Asked

\* A message of the model does.
LEMMA AskedOnce ==
  ASSUME NEW ms, IsSeq(ms), NEW m, m.role = "assistant"
  PROVE  Asked(Append(ms, m)) = Asked(ms) + 1
<1>1. PICK n \in Nat : n = Len(ms) /\ DOMAIN ms = 1 .. n
  BY DEF IsSeq
<1>2. PICK ns : ns = Append(ms, m)
  OBVIOUS
<1>3. DOMAIN ns = 1 .. n + 1 /\ (\A k \in 1 .. n : ns[k] = ms[k]) /\ ns[n + 1] = m
  <2>1. IsSeq(ns) /\ Len(ns) = n + 1 /\ (\A k \in 1 .. n : ns[k] = ms[k]) /\ ns[n + 1] = m
    BY <1>1, <1>2, AddIs
  <2>. QED
    BY <2>1 DEF IsSeq
<1>. DEFINE S == {k \in DOMAIN ms : ms[k].role = "assistant"}
<1>4. {k \in DOMAIN ns : ns[k].role = "assistant"} = S \union {n + 1}
  BY <1>1, <1>3
<1>5. IsFiniteSet(S) /\ n + 1 \notin S
  <2>1. S \in SUBSET (1 .. n) /\ n + 1 \notin S
    BY <1>1
  <2>2. IsFiniteSet(1 .. n)
    BY FS_Interval
  <2>. HIDE DEF S
  <2>. QED
    BY <2>1, <2>2, FS_Subset
<1>6. Cardinality(S \union {n + 1}) = Cardinality(S) + 1
  <2>. HIDE DEF S
  <2>. QED
    BY <1>5, FS_AddElement
<1>. QED
  BY <1>2, <1>4, <1>6 DEF Asked

\* One sequence after the other.
LEMMA BothAre ==
  ASSUME NEW q, IsSeq(q), NEW r, IsSeq(r), NEW both, both = q \o r
  PROVE  /\ IsSeq(both) /\ Len(q) \in Nat /\ Len(r) \in Nat /\ Len(both) = Len(q) + Len(r)
         /\ \A i \in 1 .. Len(q) : both[i] = q[i]
         /\ \A i \in 1 .. Len(r) : both[Len(q) + i] = r[i]
<1>1. PICK S : S = ToSet(q) \union ToSet(r)
  OBVIOUS
<1>2. q \in Seq(S) /\ r \in Seq(S)
  BY <1>1, SeqMonotonic DEF IsSeq
<1>3. PICK m, n \in Nat : m = Len(q) /\ n = Len(r)
  BY <1>2
<1>4. /\ both \in Seq(S) /\ Len(both) = m + n
      /\ \A i \in 1 .. m + n : both[i] = IF i <= m THEN q[i] ELSE r[i - m]
  BY <1>2, <1>3, ConcatProperties
<1>5. /\ \A i \in 1 .. m : i \in 1 .. m + n /\ i <= m
      /\ \A i \in 1 .. n : m + i \in 1 .. m + n /\ ~(m + i <= m) /\ (m + i) - m = i
  BY <1>3
<1>6. IsSeq(both)
  BY <1>4, SeqIs
<1>. QED
  BY <1>3, <1>4, <1>5, <1>6

\* What is in a file stays in it, or the path is known to have been written again.
LEMMA PutKeeps ==
  ASSUME NEW q, NEW content, Put(q, content), NEW id, NEW r, Stored(id, r)
  PROVE  Stored(id, r)'
BY DEF Put, Stored

\* One call goes on.
LEMMA CallGoesOn ==
  ASSUME FilesInv, UNCHANGED <<pc, transcript, results, shown>>,
         \A id, r : Stored(id, r) => Stored(id, r)',
         NEW c \in DOMAIN todoCalls, NEW x, CallOk(x)', x.result = todoCalls[c].result,
         DOMAIN todoCalls' = DOMAIN todoCalls, todoCalls'[c] = x,
         \A d \in DOMAIN todoCalls : d # c => todoCalls'[d] = todoCalls[d]
  PROVE  FilesInv'
<1>1. DOMAIN todoCalls' = DOMAIN todoCalls
      /\ \A d \in DOMAIN todoCalls : todoCalls'[d] = IF d = c THEN x ELSE todoCalls[d]
  OBVIOUS
<1>2. \A y : CallOk(y) => CallOk(y)'
  BY DEF CallOk
<1>3. \A d \in DOMAIN todoCalls' :
        /\ CallOk(todoCalls[d])'
        /\ todoCalls'[d].result = todoCalls[d].result
  <2>1. \A d \in DOMAIN todoCalls : CallOk(todoCalls[d])
    BY DEF FilesInv
  <2>2. ASSUME NEW d \in DOMAIN todoCalls
        PROVE  CallOk(todoCalls[d])' /\ todoCalls'[d].result = todoCalls[d].result
    <3>1. PICK y : y = todoCalls'[d]
      OBVIOUS
    <3>2. CallOk(y)' /\ y.result = todoCalls[d].result
      BY <1>1, <1>2, <2>1, <2>2, <3>1
    <3>3. CallOk(y)' => CallOk(todoCalls[d])'
      BY <3>1 DEF CallOk, Stored
    <3>. QED
      BY <3>1, <3>2, <3>3
  <2>. QED
    BY <1>1, <2>2
<1>4. ToolResults(transcript') = ToolResults(transcript) /\ AskedModel' = AskedModel
  BY DEF AskedModel
<1>5. \A k \in ToolResults(transcript) : ResultOk(transcript, k, AskedModel) =>
                                        ResultOk(transcript, k, AskedModel)'
  BY DEF ResultOk, AskedModel
<1>6. \A d \in DOMAIN todoCalls : \A e \in 1 .. d - 1 : e \in DOMAIN todoCalls
  BY DEF FilesInv
<1>. QED
  BY <1>1, <1>3, <1>4, <1>5, <1>6 DEF FilesInv

\* A tool returns, fails, or its result is moved.
LEMMA FileCallStep ==
  ASSUME FilesInv, NEW c \in DOMAIN todoCalls,
         \/ RunOther(c) \/ ReadFile(c) \/ WriteFile(c) \/ EditFile(c) \/ ToolFails(c)
         \/ Offload(c) \/ OffloadFails(c)
  PROVE  FilesInv'
<1>1. PICK y : y = todoCalls[c]
  OBVIOUS
<1>2. /\ y = [call |-> y.call, stage |-> y.stage, result |-> y.result, form |-> y.form, size |-> y.size]
      /\ y.size \in Nat /\ y.result \in Nat /\ y.call.size \in Nat
      /\ y.form \in {"whole", "notice"}
      /\ y.form = "notice" => Stored(y.call.id, y.result)
  BY <1>1 DEF FilesInv, CallOk
<1>3. UNCHANGED <<pc, transcript, results, shown>>
  BY DEF RunOther, ReadFile, WriteFile, EditFile, ToolFails, Offload, OffloadFails, CallFails, Changes
<1>4. ASSUME NEW id, NEW r, Stored(id, r)
      PROVE  Stored(id, r)'
  <2>1. CASE UNCHANGED <<files, rewritten>>
    BY <1>4, <2>1 DEF Stored
  <2>2. CASE \E q, content : Put(q, content)
    BY <1>4, <2>2, PutKeeps
  <2>. QED
    BY <2>1, <2>2
    DEF RunOther, ReadFile, WriteFile, EditFile, ToolFails, Offload, OffloadFails, CallFails, Changes
<1>5. ASSUME NEW size \in Nat, Returned(c, size)
      PROVE  FilesInv'
  <2>1. PICK x : x = [call |-> y.call, stage |-> IF size > TokenLimit THEN "offload" ELSE "done",
                      result |-> y.result, form |-> y.form, size |-> size]
    OBVIOUS
  <2>2. DOMAIN todoCalls' = DOMAIN todoCalls /\ todoCalls'[c] = x
       /\ \A d \in DOMAIN todoCalls : d # c => todoCalls'[d] = todoCalls[d]
    <3>1. PICK then : then = IF size > TokenLimit THEN "offload" ELSE "done"
      OBVIOUS
    <3>2. PICK f : f = [todoCalls EXCEPT ![c].size = size]
      OBVIOUS
    <3>3. todoCalls' = [f EXCEPT ![c].stage = then]
      BY <1>5, <3>1, <3>2 DEF Returned
    <3>4. PICK w : w = [call |-> y.call, stage |-> y.stage, result |-> y.result, form |-> y.form,
                        size |-> size]
      OBVIOUS
    <3>5. DOMAIN f = DOMAIN todoCalls /\ f[c] = w
          /\ \A d \in DOMAIN todoCalls : d # c => f[d] = todoCalls[d]
      <4>1. f[c] = [y EXCEPT !.size = size]
        BY <1>1, <3>2
      <4>2. [y EXCEPT !.size = size] = w
        BY <1>2, <3>4
      <4>. QED
        BY <3>2, <4>1, <4>2
    <3>6. todoCalls'[c] = [w EXCEPT !.stage = then]
      BY <3>3, <3>5
    <3>7. [w EXCEPT !.stage = then] = x
      BY <2>1, <3>1, <3>4
    <3>. QED
      BY <3>3, <3>5, <3>6, <3>7
  <2>3. CallOk(x)' /\ x.result = todoCalls[c].result
    BY <1>1, <1>2, <1>4, <2>1 DEF CallOk
  <2>. QED
    BY <1>3, <1>4, <2>2, <2>3, CallGoesOn
<1>6. ASSUME todoCalls' = [todoCalls EXCEPT ![c].stage = "failed"]
      PROVE  FilesInv'
  <2>1. PICK x : x = [call |-> y.call, stage |-> "failed",
                      result |-> y.result, form |-> y.form, size |-> y.size]
    OBVIOUS
  <2>2. DOMAIN todoCalls' = DOMAIN todoCalls /\ todoCalls'[c] = x
       /\ \A d \in DOMAIN todoCalls : d # c => todoCalls'[d] = todoCalls[d]
    <3>1. todoCalls'[c] = [y EXCEPT !.stage = "failed"]
      BY <1>1, <1>6
    <3>2. [y EXCEPT !.stage = "failed"] = x
      BY <1>2, <2>1
    <3>. QED
      BY <1>6, <3>1, <3>2
  <2>3. CallOk(x)' /\ x.result = todoCalls[c].result
    BY <1>1, <1>2, <1>4, <2>1 DEF CallOk
  <2>. QED
    BY <1>3, <1>4, <2>2, <2>3, CallGoesOn
<1>7. CASE RunOther(c)
  BY <1>1, <1>2, <1>5, <1>7 DEF RunOther
<1>8. CASE ReadFile(c)
  <2>1. PICK size \in 0 .. files[Path(c)].size : Returned(c, size)
    BY <1>8 DEF ReadFile
  <2>2. size \in Nat
    OBVIOUS
  <2>. QED
    BY <1>5, <2>1, <2>2
<1>9. CASE WriteFile(c) \/ EditFile(c)
  BY <1>5, <1>9 DEF WriteFile, EditFile, Changes
<1>10. CASE ToolFails(c) \/ OffloadFails(c)
  BY <1>6, <1>10 DEF ToolFails, OffloadFails, CallFails
<1>11. CASE Offload(c)
  <2>1. PICK x : x = [call |-> y.call, stage |-> "done",
                      result |-> y.result, form |-> "notice", size |-> NoticeSize]
    OBVIOUS
  <2>2. DOMAIN todoCalls' = DOMAIN todoCalls /\ todoCalls'[c] = x
       /\ \A d \in DOMAIN todoCalls : d # c => todoCalls'[d] = todoCalls[d]
    <3>1. PICK f : f = [todoCalls EXCEPT ![c].stage = "done"]
      OBVIOUS
    <3>2. PICK g : g = [f EXCEPT ![c].form = "notice"]
      OBVIOUS
    <3>3. todoCalls' = [g EXCEPT ![c].size = NoticeSize]
      BY <1>11, <3>1, <3>2 DEF Offload
    <3>4. PICK v, w :
            /\ v = [call |-> y.call, stage |-> "done", result |-> y.result, form |-> y.form, size |-> y.size]
            /\ w = [call |-> y.call, stage |-> "done", result |-> y.result, form |-> "notice", size |-> y.size]
      OBVIOUS
    <3>5. DOMAIN f = DOMAIN todoCalls /\ f[c] = v
          /\ \A d \in DOMAIN todoCalls : d # c => f[d] = todoCalls[d]
      <4>1. f[c] = [y EXCEPT !.stage = "done"]
        BY <1>1, <3>1
      <4>2. [y EXCEPT !.stage = "done"] = v
        BY <1>2, <3>4
      <4>. QED
        BY <3>1, <4>1, <4>2
    <3>6. DOMAIN g = DOMAIN todoCalls /\ g[c] = w
          /\ \A d \in DOMAIN todoCalls : d # c => g[d] = todoCalls[d]
      <4>1. g[c] = [v EXCEPT !.form = "notice"]
        BY <3>2, <3>5
      <4>2. [v EXCEPT !.form = "notice"] = w
        BY <3>4
      <4>. QED
        BY <3>2, <3>5, <4>1, <4>2
    <3>7. todoCalls'[c] = [w EXCEPT !.size = NoticeSize]
      BY <3>3, <3>6
    <3>8. [w EXCEPT !.size = NoticeSize] = x
      BY <2>1, <3>4
    <3>. QED
      BY <3>3, <3>6, <3>7, <3>8
  <2>3. Stored(y.call.id, y.result)'
    BY <1>1, <1>11 DEF Offload, Put, Stored
  <2>4. CallOk(x)' /\ x.result = todoCalls[c].result
    BY <1>1, <1>2, <2>1, <2>3, FilesAssumption DEF CallOk
  <2>. QED
    BY <1>3, <1>4, <2>2, <2>4, CallGoesOn
<1>12. RunOther(c) \/ ReadFile(c) \/ WriteFile(c) \/ EditFile(c) \/ ToolFails(c)
       \/ Offload(c) \/ OffloadFails(c)
  OBVIOUS
<1>. QED
  BY <1>7, <1>8, <1>9, <1>10, <1>11, <1>12, Zenon

\* A result with its message as it was stays what it is when more is said.
LEMMA ResultStays ==
  ASSUME NEW ms, IsSeq(ms), NEW ns, IsSeq(ns), Len(ms) <= Len(ns),
         \A k \in 1 .. Len(ns) : ns[k].role = "tool" => IsToolMessage(ns[k]),
         \A k \in 1 .. Len(ms) : SameResult(ms[k], ns[k]),
         NEW k \in 1 .. Len(ms), ms[k].role = "tool", After(ms, ms[k]) > KeepRecent
  PROVE  After(ns, ns[k]) > KeepRecent
<1>1. PICK m, n : m = ms[k] /\ n = ns[k]
  OBVIOUS
<1>2. SameResult(m, n) /\ m.role = "tool"
  BY <1>1
<1>3. After(ms, m) <= After(ns, n) /\ After(ms, m) \in Nat /\ After(ns, n) \in Nat
  BY <1>2, AfterGrows
<1>4. PICK x, y \in Nat : x = After(ms, m) /\ y = After(ns, n)
  BY <1>3
<1>. QED
  BY <1>1, <1>3, <1>4, FilesAssumption

\* The results join the messages.
LEMMA CallsEndStep ==
  ASSUME FilesInv, CallsEnd
  PROVE  FilesInv'
<1>1. PICK ms, asks : ms = transcript /\ asks = AskedModel
  OBVIOUS
<1>2. UNCHANGED <<files, todoCalls, results, shown, rewritten>>
  BY DEF CallsEnd
<1>3. \A y : CallOk(y) => CallOk(y)'
  BY <1>2 DEF CallOk, Stored
<1>4. \A c \in DOMAIN todoCalls : CallOk(todoCalls[c])'
  <2>. SUFFICES ASSUME NEW c \in DOMAIN todoCalls
               PROVE  CallOk(todoCalls[c])'
    OBVIOUS
  <2>1. PICK y : y = todoCalls[c]
    OBVIOUS
  <2>2. CallOk(y)'
    BY <1>3, <2>1 DEF FilesInv
  <2>. QED
    BY <1>2, <2>1, <2>2 DEF CallOk, Stored
<1>5. CASE transcript' = transcript /\ pc' # "tools"
  <2>1. AskedModel' = AskedModel
    BY <1>5 DEF AskedModel
  <2>. QED
    BY <1>2, <1>4, <1>5, <2>1 DEF FilesInv, ResultOk, Stored
<1>6. CASE /\ transcript' = transcript \o [c \in DOMAIN todoCalls |-> ToolMessage(todoCalls[c])]
           /\ pc = "tools" /\ pc' # "tools"
  <2>1. PICK n \in Nat : DOMAIN todoCalls = 1 .. n
    BY DEF FilesInv
  <2>2. PICK ts : ts = [c \in 1 .. n |-> ToolMessage(todoCalls[c])]
    OBVIOUS
  <2>3. IsSeq(ts) /\ Len(ts) = n
    <3>1. PICK S : S = ToSet(ts)
      OBVIOUS
    <3>2. \A c \in 1 .. n : ts[c] \in S
      BY <2>2, <3>1 DEF ToSet
    <3>3. ts \in Seq(S) /\ Len(ts) = n
      BY <2>2, <3>2
    <3>. QED
      BY <3>1, <3>3 DEF IsSeq
  <2>4. PICK ns : ns = ms \o ts
    OBVIOUS
  <2>5. transcript' = ns
    BY <1>1, <1>6, <2>1, <2>2, <2>4
  <2>6. PICK l \in Nat : l = Len(ms)
    BY <1>1 DEF FilesInv, IsSeq
  <2>7. /\ IsSeq(ms) /\ IsSeq(ns) /\ Len(ns) = l + n
        /\ \A i \in 1 .. l : ns[i] = ms[i]
        /\ \A i \in 1 .. n : ns[l + i] = ts[i]
    <3>1. IsSeq(ms)
      BY <1>1 DEF FilesInv
    <3>2. IsSeq(ts)
      BY <2>3
    <3>3. IsSeq(ns) /\ Len(ns) = Len(ms) + Len(ts)
      BY <2>4, <3>1, <3>2, BothAre
    <3>4. \A i \in 1 .. Len(ms) : ns[i] = ms[i]
      BY <2>4, <3>1, <3>2, BothAre
    <3>5. \A i \in 1 .. Len(ts) : ns[Len(ms) + i] = ts[i]
      BY <2>4, <3>1, <3>2, BothAre
    <3>. QED
      BY <2>3, <2>6, <3>1, <3>3, <3>4, <3>5
  <2>8. ASSUME NEW k \in 1 .. l + n
        PROVE  k \in 1 .. l \/ \E c \in 1 .. n : k = l + c
    <3>1. k \in 1 .. l \/ (k - l \in 1 .. n /\ k = l + (k - l))
      OBVIOUS
    <3>. QED
      BY <3>1
  <2>9. DOMAIN ms = 1 .. l /\ DOMAIN ns = 1 .. l + n
    BY <2>6, <2>7 DEF IsSeq
  <2>10. ASSUME NEW c \in 1 .. n
         PROVE  /\ ns[l + c] = ToolMessage(todoCalls[c]) /\ ns[l + c].role = "tool"
                /\ IsToolMessage(ns[l + c]) /\ ns[l + c].round = asks
                /\ ns[l + c].form \in {"whole", "notice"} /\ ns[l + c].size = ns[l + c].was
                /\ ns[l + c].result = todoCalls[c].result
                /\ ns[l + c].form = "notice" => Stored(ns[l + c].id, ns[l + c].result)
    <3>1. PICK y : y = todoCalls[c]
      OBVIOUS
    <3>2. ns[l + c] = ToolMessage(y)
      BY <2>2, <2>7, <3>1
    <3>3. CallOk(y)
      BY <2>1, <3>1 DEF FilesInv
    <3>4. asks \in Nat
      BY <1>1, AskedIs DEF FilesInv, AskedModel, Asked
    <3>. QED
      BY <1>1, <3>1, <3>2, <3>3, <3>4 DEF ToolMessage, IsToolMessage, CallOk
  <2>11. AskedModel' = asks
    <3>1. \A k \in l + 1 .. l + n : ns[k].role = "tool"
      <4>1. \A k \in l + 1 .. l + n : k \in 1 .. l + n /\ k \notin 1 .. l
        OBVIOUS
      <4>. QED
        BY <2>8, <2>10, <4>1
    <3>2. Asked(ns) = Asked(ms)
      BY <2>6, <2>7, <3>1, AskedSame
    <3>. QED
      BY <1>1, <2>5, <3>2 DEF AskedModel, Asked
  <2>12. \A k \in ToolResults(ms) : k \in 1 .. l /\ ResultOk(ms, k, asks) /\ ms[k].round < asks
                                 /\ (ms[k].form = "notice" => Stored(ms[k].id, ms[k].result))
    BY <1>1, <1>6, <2>9 DEF FilesInv, ToolResults
  <2>13. \A k \in 1 .. l + n : ns[k].role = "tool" => IsToolMessage(ns[k])
    BY <2>7, <2>8, <2>9, <2>10, <2>12 DEF ResultOk, ToolResults
  <2>14. \A k \in 1 .. l : SameResult(ms[k], ns[k])
    BY <2>7, <2>9, <2>12 DEF SameResult, ToolResults, ResultOk
  <2>15. ASSUME NEW k \in 1 .. l, ns[k].role = "tool"
         PROVE  ResultOk(ns, k, asks)
    <3>1. k \in ToolResults(ms) /\ ns[k] = ms[k] /\ ms[k].role = "tool"
      BY <2>7, <2>9, <2>15 DEF ToolResults
    <3>2. ResultOk(ms, k, asks) /\ ms[k].round < asks
      BY <2>12, <3>1
    <3>3. After(ms, ms[k]) > KeepRecent => After(ns, ns[k]) > KeepRecent
      <4>1. Len(ms) <= Len(ns) /\ 1 .. Len(ns) = 1 .. l + n /\ 1 .. Len(ms) = 1 .. l
        BY <2>6, <2>7
      <4>. QED
        BY <2>7, <2>13, <2>14, <3>1, <4>1, ResultStays
    <3>4. asks \in Nat /\ ms[k].round \in Nat
      BY <1>1, <3>2, AskedIs DEF FilesInv, AskedModel, Asked, ResultOk, IsToolMessage
    <3>5. ms[k].round # asks
      BY <3>2, <3>4
    <3>. QED
      BY <3>1, <3>2, <3>3, <3>5 DEF ResultOk
  <2>16. ASSUME NEW c \in 1 .. n
         PROVE  ResultOk(ns, l + c, asks)
    <3>1. asks \in Nat
      BY <1>1, AskedIs DEF FilesInv, AskedModel, Asked
    <3>2. ASSUME NEW d \in (l + c) + 1 .. l + n
          PROVE  LaterInRound(ns[l + c], ns[d])
      <4>1. PICK e \in 1 .. n : d = l + e
        <5>1. d \in 1 .. l + n /\ d \notin 1 .. l
          OBVIOUS
        <5>. QED
          BY <2>8, <5>1
      <4>2. c \in 1 .. e - 1
        BY <4>1
      <4>3. todoCalls[c].result < todoCalls[e].result
        BY <2>1, <4>2 DEF FilesInv
      <4>4. ns[d].role = "tool" /\ ns[d].round = ns[l + c].round /\ ns[d].result > ns[l + c].result
        <5>1. todoCalls[c].result \in Nat /\ todoCalls[e].result \in Nat
          BY <2>1 DEF FilesInv, CallOk
        <5>. QED
          BY <2>10, <4>1, <4>3, <5>1
      <4>. QED
        BY <4>4 DEF LaterInRound
    <3>3. ~(asks < asks) /\ asks <= asks
      BY <3>1
    <3>. QED
      BY <2>7, <2>10, <3>2, <3>3 DEF ResultOk
  <2>17. \A k \in ToolResults(ns) : ResultOk(ns, k, asks)
    BY <2>8, <2>9, <2>15, <2>16 DEF ToolResults
  <2>18. \A k \in ToolResults(ns) : ns[k].form = "notice" => Stored(ns[k].id, ns[k].result)
    <3>. SUFFICES ASSUME NEW k \in 1 .. l + n, ns[k].role = "tool", ns[k].form = "notice"
                 PROVE  Stored(ns[k].id, ns[k].result)
      BY <2>9 DEF ToolResults
    <3>1. CASE k \in 1 .. l
      <4>1. ns[k] = ms[k]
        BY <2>7, <3>1
      <4>2. k \in ToolResults(ms)
        BY <2>9, <3>1, <4>1 DEF ToolResults
      <4>. QED
        BY <2>12, <4>1, <4>2
    <3>2. CASE \E c \in 1 .. n : k = l + c
      BY <2>10, <3>2
    <3>. QED
      BY <2>8, <3>1, <3>2
  <2>19. \A k \in DOMAIN ns : ns[k].role \in {"tool", "assistant"}
    BY <1>1, <2>7, <2>8, <2>9, <2>10 DEF FilesInv
  <2>20. \A k \in ToolResults(transcript') : ResultOk(transcript, k, AskedModel)'
    BY <1>2, <2>5, <2>11, <2>17 DEF ResultOk
  <2>21. \A k \in ToolResults(transcript') :
           transcript'[k].form = "notice" => Stored(transcript[k].id, transcript[k].result)'
    BY <1>2, <2>5, <2>18 DEF Stored
  <2>. QED
    BY <1>2, <1>4, <1>6, <2>5, <2>7, <2>19, <2>20, <2>21 DEF FilesInv
<1>. QED
  BY <1>5, <1>6 DEF CallsEnd

\* Results of the last round that use up the budget come after one that is cleared.
LEMMA ProtectedAfter ==
  ASSUME NEW n \in Nat, NEW ms, DOMAIN ms = 1 .. n,
         NEW k \in 1 .. n, NEW l \in k + 1 .. n,
         \A j \in k + 1 .. n : /\ LaterInRound(ms[k], ms[j])
                               /\ ms[j].size = ms[j].was /\ ms[j].was \in Nat,
         \A j \in 1 .. n : ms[j].role = "tool" => ms[j].was \in Nat,
         SumOf([i \in 1 .. n - (l - 1) |-> ms[i + (l - 1)].size]) > KeepRecent
  PROVE  After(ms, ms[k]) > KeepRecent
<1>1. PICK d, i \in Nat : d = l - 1 /\ i = n - d
  OBVIOUS
<1>2. i + d <= n /\ \A j \in 1 .. i : j + d \in k + 1 .. n
  BY <1>1
<1>3. PICK a : a = [j \in 1 .. i |-> ms[j + d].size]
  OBVIOUS
<1>4. PICK b : b = [j \in 1 .. n |-> IF LaterInRound(ms[k], ms[j]) THEN ms[j].was ELSE 0]
  OBVIOUS
<1>5. a \in [1 .. i -> Nat]
  BY <1>2, <1>3
<1>6. b \in [1 .. n -> Nat]
  <2>1. \A j \in 1 .. n : LaterInRound(ms[k], ms[j]) => ms[j].was \in Nat
    BY DEF LaterInRound
  <2>. QED
    BY <1>4, <2>1
<1>7. \A j \in 1 .. i : a[j] <= b[j + d]
  <2>. SUFFICES ASSUME NEW j \in 1 .. i
               PROVE  a[j] <= b[j + d]
    OBVIOUS
  <2>1. PICK e : e = j + d
    OBVIOUS
  <2>2. e \in k + 1 .. n /\ e \in 1 .. n
    <3>1. e \in k + 1 .. n
      BY <1>2, <2>1
    <3>. QED
      BY <3>1
  <2>3. b[e] = ms[e].was /\ ms[e].was \in Nat
    BY <1>4, <2>2
  <2>4. a[j] = ms[e].was
    BY <1>3, <2>1, <2>2
  <2>. QED
    BY <2>1, <2>3, <2>4
<1>8. SumOf(a) <= SumOf(b) /\ SumOf(a) \in Nat /\ SumOf(b) \in Nat
  BY <1>2, <1>5, <1>6, <1>7, SumGrows
<1>9. SumOf(a) > KeepRecent
  BY <1>1, <1>3
<1>10. SumOf(b) = After(ms, ms[k])
  BY <1>4 DEF After
<1>11. PICK x, y \in Nat : x = SumOf(a) /\ y = SumOf(b)
  BY <1>8
<1>12. y > KeepRecent
  BY <1>8, <1>9, <1>11, FilesAssumption
<1>. QED
  BY <1>10, <1>11, <1>12

\* No result is out of reach, whichever were cleared before the model is asked.
NoneLost(ms, ns, n, asks, seen) ==
  \A k \in 1 .. n : ms[k].role = "tool" =>
    /\ ns[k].form # "cleared" => ns[k] = ms[k]
    /\ IsToolMessage(ns[k]) /\ ns[k].round <= asks
    /\ ns[k].form # "cleared" => ns[k].size = ns[k].was
    /\ ns[k].form = "cleared" => ns[k].tool \notin ExcludeTools
    /\ ns[k].result \in seen \/ After(ns, ns[k]) > KeepRecent

\* The model is given the results that are whole.
Given(q, n, seen) == \A k \in 1 .. n : IsResult(q[k]) => q[k].result \in seen

ResultsOk(ms, asks) == \A k \in ToolResults(ms) : ResultOk(ms, k, asks)

\* What clearing and a question to the model do to the results.
LEMMA ClearedAre ==
  ASSUME NEW ms, IsSeq(ms), NEW n \in Nat, n = Len(ms), NEW asks \in Nat,
         ResultsOk(ms, asks),
         NEW m, m.role = "assistant", NEW ns, ns = Append(Reduced(ms), m),
         NEW seen, Given(Reduced(ms), n, seen), shown \subseteq seen
  PROVE  /\ IsSeq(ns) /\ Len(ns) = n + 1 /\ ns[n + 1] = m
         /\ \A k \in 1 .. n : ns[k].role = ms[k].role
         /\ Asked(ns) = Asked(ms) + 1
         /\ NoneLost(ms, ns, n, asks, seen)
<1>1. DOMAIN ms = 1 .. n
  BY DEF IsSeq
<1>2. \A k \in 1 .. n : ms[k].role = "tool" => ResultOk(ms, k, asks) /\ IsToolMessage(ms[k])
  BY <1>1 DEF ToolResults, ResultOk, ResultsOk
<1>3. PICK q : q = Reduced(ms)
  OBVIOUS
<1>4. /\ IsSeq(q) /\ Len(q) = n
      /\ \A k \in 1 .. n :
           /\ SameResult(ms[k], q[k])
           /\ \/ q[k] = ms[k]
              \/ /\ ms[k].role = "tool" /\ q[k].form = "cleared" /\ ms[k].tool \notin ExcludeTools
                 /\ \E l \in k + 1 .. n :
                      SumOf([i \in 1 .. n - (l - 1) |-> ms[i + (l - 1)].size]) > KeepRecent
  BY <1>2, <1>3, ReducedIs
<1>5. ns = Append(q, m)
  BY <1>3
<1>6. IsSeq(ns) /\ Len(ns) = n + 1 /\ (\A k \in 1 .. n : ns[k] = q[k]) /\ ns[n + 1] = m
  BY <1>4, <1>5, AddIs
<1>7. \A k \in 1 .. n : ns[k].role = ms[k].role /\ q[k].role = ms[k].role
  BY <1>4, <1>6 DEF SameResult
<1>8. Asked(ns) = Asked(ms) + 1
  <2>1. Len(ms) <= Len(q) /\ (\A k \in Len(ms) + 1 .. Len(q) : q[k].role = "tool")
    BY <1>4
  <2>2. \A k \in 1 .. Len(ms) : q[k].role = ms[k].role
    BY <1>7
  <2>3. Asked(q) = Asked(ms)
    BY <1>4, <2>1, <2>2, AskedSame
  <2>. QED
    BY <1>4, <1>5, <2>3, AskedOnce
<1>9. ASSUME NEW k \in 1 .. n, ms[k].role = "tool", After(ms, ms[k]) > KeepRecent
      PROVE  After(ns, ns[k]) > KeepRecent
  <2>1. \A i \in 1 .. Len(ms) : SameResult(ms[i], ns[i])
    BY <1>4, <1>6
  <2>2. \A i \in 1 .. n + 1 : i \in 1 .. n \/ i = n + 1
    OBVIOUS
  <2>3. \A i \in 1 .. n : ns[i].role = "tool" => IsToolMessage(ns[i])
    BY <2>1 DEF SameResult
  <2>4. \A i \in 1 .. Len(ns) : ns[i].role = "tool" => IsToolMessage(ns[i])
    BY <1>6, <2>2, <2>3
  <2>5. Len(ms) <= Len(ns)
    BY <1>6
  <2>. QED
    BY <1>6, <1>9, <2>1, <2>4, <2>5, ResultStays
<1>10. ASSUME NEW k \in 1 .. n, ms[k].role = "tool"
       PROVE  /\ ns[k].form # "cleared" => ns[k] = ms[k]
              /\ IsToolMessage(ns[k]) /\ ns[k].round <= asks
              /\ ns[k].form # "cleared" => ns[k].size = ns[k].was
              /\ ns[k].form = "cleared" => ns[k].tool \notin ExcludeTools
              /\ ns[k].result \in seen \/ After(ns, ns[k]) > KeepRecent
  <2>1. /\ ResultOk(ms, k, asks) /\ IsToolMessage(ms[k]) /\ SameResult(ms[k], ns[k])
        /\ ns[k] = q[k] /\ ns[k].role = "tool"
    BY <1>2, <1>4, <1>6, <1>7, <1>10
  <2>2. IsToolMessage(ns[k]) /\ ns[k].tool = ms[k].tool /\ ns[k].result = ms[k].result
        /\ ns[k].was = ms[k].was /\ ns[k].round = ms[k].round
    BY <1>10, <2>1 DEF SameResult
  <2>3. ns[k].round <= asks
    BY <2>1, <2>2 DEF ResultOk
  <2>4. ms[k].round < asks => ns[k].result \in seen \/ After(ns, ns[k]) > KeepRecent
    BY <1>9, <1>10, <2>1, <2>2 DEF ResultOk
  <2>5. ms[k].round < asks \/ ms[k].round = asks
    <3>1. ms[k].round \in Nat /\ ms[k].round <= asks
      BY <2>1 DEF ResultOk, IsToolMessage
    <3>. QED
      BY <3>1
  <2>6. CASE ns[k] = ms[k]
    <3>1. ns[k].form # "cleared" => ns[k].result \in seen
      BY <1>3, <2>1 DEF IsResult, Given
    <3>2. ns[k].form = "cleared" => ms[k].round < asks
      BY <2>1, <2>5, <2>6 DEF ResultOk
    <3>. QED
      BY <2>1, <2>2, <2>3, <2>4, <2>6, <3>1, <3>2 DEF ResultOk
  <2>7. CASE ns[k] # ms[k]
    <3>1. ns[k].form = "cleared" /\ ms[k].tool \notin ExcludeTools
      BY <1>4, <2>1, <2>7
    <3>2. PICK l \in k + 1 .. n :
            SumOf([i \in 1 .. n - (l - 1) |-> ms[i + (l - 1)].size]) > KeepRecent
      BY <1>4, <2>1, <2>7
    <3>3. ASSUME ms[k].round = asks
          PROVE  After(ms, ms[k]) > KeepRecent
      <4>1. ASSUME NEW j \in k + 1 .. n
            PROVE  /\ LaterInRound(ms[k], ms[j])
                   /\ ms[j].size = ms[j].was /\ ms[j].was \in Nat
        <5>1. LaterInRound(ms[k], ms[j])
          BY <2>1, <3>3 DEF ResultOk
        <5>2. ms[j].role = "tool" /\ ms[j].round = asks /\ j \in 1 .. n
          BY <3>3, <5>1 DEF LaterInRound
        <5>3. ResultOk(ms, j, asks)
          BY <1>2, <5>2
        <5>. QED
          BY <5>1, <5>2, <5>3 DEF ResultOk, IsToolMessage
      <4>2. \A j \in 1 .. n : ms[j].role = "tool" => ms[j].was \in Nat
        BY <1>2 DEF IsToolMessage
      <4>. QED
        BY <1>1, <3>2, <4>1, <4>2, ProtectedAfter
    <3>4. ns[k].result \in seen \/ After(ns, ns[k]) > KeepRecent
      BY <1>9, <1>10, <2>4, <2>5, <3>3
    <3>. QED
      BY <2>2, <2>3, <3>1, <3>4
  <2>. QED
    BY <2>6, <2>7
<1>. QED
  BY <1>6, <1>7, <1>8, <1>10 DEF NoneLost

\* Old results are cleared, and the model is asked.
LEMMA AskStep ==
  ASSUME FilesInv, NEW message \in FileCalls, AskModel(message)
  PROVE  FilesInv'
<1>1. PICK ms, asks, shown0 : ms = transcript /\ asks = AskedModel /\ shown0 = shown'
  OBVIOUS
<1>2. IsSeq(ms)
  BY <1>1 DEF FilesInv
<1>3. PICK n \in Nat : n = Len(ms) /\ DOMAIN ms = 1 .. n
  BY <1>2 DEF IsSeq
<1>4. asks = Asked(ms) /\ asks \in Nat
  BY <1>1, <1>2, AskedIs DEF AskedModel, Asked
<1>5. PICK m : m = [role |-> "assistant", size |-> CallSize * Len(message)]
  OBVIOUS
<1>6. m.role = "assistant"
  BY <1>5
<1>7. PICK q, ns : q = Reduced(ms) /\ ns = Append(Reduced(ms), m)
  OBVIOUS
<1>8. transcript' = ns /\ UNCHANGED <<files, rewritten>>
  BY <1>1, <1>5, <1>7 DEF AskModel
<1>9. shown0 = shown \cup {q[k].result : k \in {l \in DOMAIN q : IsResult(q[l])}}
  BY <1>1, <1>7 DEF AskModel
<1>10. IsSeq(q) /\ Len(q) = n /\ DOMAIN q = 1 .. n /\ \A k \in 1 .. n : q[k].role = ms[k].role
  <2>1. \A k \in 1 .. Len(ms) : ms[k].role = "tool" => IsToolMessage(ms[k])
    BY <1>1, <1>3 DEF FilesInv, ToolResults, ResultOk
  <2>. QED
    BY <1>2, <1>3, <1>7, <2>1, ReducedIs DEF IsSeq, SameResult
<1>11. /\ IsSeq(ns) /\ Len(ns) = n + 1 /\ ns[n + 1] = m
       /\ \A k \in 1 .. n : ns[k].role = ms[k].role
       /\ Asked(ns) = asks + 1 /\ NoneLost(ms, ns, n, asks, shown0)
  <2>1. ResultsOk(ms, asks)
    BY <1>1 DEF FilesInv, ResultsOk
  <2>2. Given(Reduced(ms), n, shown0)
    BY <1>7, <1>9, <1>10 DEF Given
  <2>3. shown \subseteq shown0
    BY <1>9
  <2>. QED
    <3>1. IsSeq(ns) /\ Len(ns) = n + 1 /\ ns[n + 1] = m /\ \A k \in 1 .. n : ns[k] = q[k]
      BY <1>7, <1>10, AddIs
    <3>2. \A k \in 1 .. n : ns[k].role = ms[k].role
      BY <1>10, <3>1
    <3>3. Asked(ns) = Asked(ms) + 1
      BY <1>2, <1>3, <1>4, <1>6, <1>7, <2>1, <2>2, <2>3, ClearedAre, Zenon
    <3>4. NoneLost(ms, ns, n, asks, shown0)
      BY <1>2, <1>3, <1>4, <1>6, <1>7, <2>1, <2>2, <2>3, ClearedAre, Zenon
    <3>. QED
      BY <1>4, <3>1, <3>2, <3>3, <3>4
<1>12. DOMAIN ns = 1 .. n + 1 /\ \A k \in 1 .. n + 1 : k \in 1 .. n \/ k = n + 1
  BY <1>11 DEF IsSeq
<1>13. AskedModel' = asks + 1
  BY <1>8, <1>11 DEF AskedModel, Asked
<1>14. ASSUME NEW k \in ToolResults(ns)
       PROVE  k \in 1 .. n /\ ms[k].role = "tool" /\ k \in ToolResults(ms)
  BY <1>3, <1>6, <1>11, <1>12, <1>14 DEF ToolResults
<1>15. ASSUME NEW k \in ToolResults(ns)
       PROVE  /\ ns[k].round < asks + 1
              /\ ResultOk(ns, k, asks + 1)'
              /\ ns[k].form = "notice" => Stored(ns[k].id, ns[k].result)'
  <2>1. k \in 1 .. n /\ ms[k].role = "tool" /\ k \in ToolResults(ms)
    BY <1>14
  <2>2. ns[k].round \in Nat /\ ns[k].round <= asks
    BY <1>11, <2>1 DEF IsToolMessage, NoneLost
  <2>3. ns[k].round < asks + 1 /\ ns[k].round <= asks + 1 /\ ns[k].round # asks + 1
    BY <1>4, <2>2
  <2>4. ResultOk(ns, k, asks + 1)'
    BY <1>1, <1>11, <2>1, <2>3 DEF ResultOk, NoneLost
  <2>5. ns[k].form = "notice" => ns[k] = ms[k]
    BY <1>11, <2>1 DEF NoneLost
  <2>6. ms[k].form = "notice" => Stored(ms[k].id, ms[k].result)
    BY <1>1, <2>1 DEF FilesInv
  <2>7. ns[k].form = "notice" => Stored(ns[k].id, ns[k].result)'
    BY <1>8, <2>5, <2>6 DEF Stored
  <2>. QED
    BY <2>3, <2>4, <2>7
<1>16. PICK w \in Nat : w = Len(message) /\ DOMAIN message = 1 .. w
  BY FilesAssumption
<1>17. \A c \in 1 .. w : message[c].size \in Nat
  BY <1>16, FilesAssumption DEF ToSet
<1>18. PICK r \in Nat : r = results
  BY DEF FilesInv
<1>19. PICK ts : ts = [c \in 1 .. w |-> [call |-> message[c], stage |-> "run", result |-> r + c,
                                        form |-> "whole", size |-> 1]]
  OBVIOUS
<1>20. todoCalls' = ts /\ results' = r + w
  BY <1>16, <1>18, <1>19 DEF AskModel, Fresh
<1>21. ASSUME NEW c \in 1 .. w
       PROVE  CallOk(ts[c])' /\ \A d \in 1 .. c - 1 : ts[d].result < ts[c].result
  <2>1. PICK x : x = [call |-> message[c], stage |-> "run", result |-> r + c,
                      form |-> "whole", size |-> 1]
    OBVIOUS
  <2>2. x = ts[c]
    BY <1>19, <2>1
  <2>3. x.size \in Nat /\ x.result \in Nat /\ x.call.size \in Nat
    BY <1>17, <2>1
  <2>4. CallOk(x)'
    BY <2>1, <2>3 DEF CallOk
  <2>5. \A d \in 1 .. c - 1 : ts[d].result < ts[c].result
    BY <1>19
  <2>. QED
    BY <2>2, <2>4, <2>5
<1>22. (IsSeq(transcript) /\ results \in Nat)'
  BY <1>8, <1>11, <1>18, <1>20
<1>23. (\E i \in Nat : DOMAIN todoCalls = 1 .. i)'
  BY <1>19, <1>20
<1>24. (\A c \in DOMAIN todoCalls :
          CallOk(todoCalls[c]) /\ \A d \in 1 .. c - 1 : todoCalls[d].result < todoCalls[c].result)'
  <2>1. \A x : CallOk(x)' <=> /\ x = [call |-> x.call, stage |-> x.stage, result |-> x.result,
                                      form |-> x.form, size |-> x.size]
                              /\ x.size \in Nat /\ x.result \in Nat /\ x.call.size \in Nat
                              /\ x.form \in {"whole", "notice"}
                              /\ x.form = "notice" => Stored(x.call.id, x.result)'
    BY DEF CallOk
  <2>2. \A c \in 1 .. w : CallOk(todoCalls[c])'
    BY <1>20, <1>21 DEF CallOk, Stored
  <2>. QED
    BY <1>19, <1>20, <1>21, <2>2
<1>25. (\A k \in DOMAIN transcript : transcript[k].role \in {"tool", "assistant"})'
  BY <1>1, <1>3, <1>6, <1>8, <1>11, <1>12 DEF FilesInv
<1>26. (\A k \in ToolResults(transcript) : ResultOk(transcript, k, AskedModel))'
  <2>1. \A k \in ToolResults(ns) : ResultOk(ns, k, asks + 1)'
    BY <1>15
  <2>. QED
    BY <1>8, <1>13, <2>1 DEF ResultOk
<1>27. (\A k \in ToolResults(transcript) :
          transcript[k].form = "notice" => Stored(transcript[k].id, transcript[k].result))'
  BY <1>8, <1>15 DEF Stored
<1>28. (\A k \in ToolResults(transcript) : transcript[k].round < AskedModel)'
  BY <1>8, <1>13, <1>15
<1>. QED
  BY <1>22, <1>23, <1>24, <1>25, <1>26, <1>27, <1>28 DEF FilesInv
\* No other kind of agent has results of tools.
LEMMA FilesAlone ==
  ASSUME [Next]_vars
  PROVE  /\ mode' = mode
         /\ mode = "files" => FilesWork \/ UNCHANGED vars
BY DEF Next, Sequence, Parallel, React, Flow, Planning, Offloading, Retrieving, Retrieves,
       InSequence, vars, workflowVars

\* There are no results at first.
LEMMA FilesInitial == Init => FilesKept
<1>. SUFFICES ASSUME Init
             PROVE  FilesInv
  BY DEF FilesKept
<1>1. transcript = <<>> /\ todoCalls = <<>> /\ results = 0
  BY DEF Init, FilesInit
<1>2. DOMAIN transcript = {} /\ DOMAIN todoCalls = 1 .. 0
  BY <1>1
<1>3. 0 \in Nat
  OBVIOUS
<1>. QED
  BY <1>1, <1>2, <1>3, NoneIs DEF FilesInv, ToolResults

\* What is known of the results is kept.
LEMMA FilesStep == FilesKept /\ [Next]_vars => FilesKept'
<1>. SUFFICES ASSUME FilesKept, [Next]_vars, Files'
             PROVE  FilesInv'
  BY DEF FilesKept
<1>1. FilesInv /\ (FilesWork \/ UNCHANGED vars)
  BY FilesAlone DEF FilesKept, Files
<1>2. CASE UNCHANGED vars
  <2>1. UNCHANGED <<pc, files, todoCalls, transcript, results, shown, rewritten>>
    BY <1>2 DEF vars, workflowVars, fileVars
  <2>2. AskedModel' = AskedModel
    BY <2>1 DEF AskedModel
  <2>3. \A ms, k, asks : ResultOk(ms, k, asks) => ResultOk(ms, k, asks)'
    BY <2>1 DEF ResultOk
  <2>4. ASSUME NEW c \in DOMAIN todoCalls
        PROVE  CallOk(todoCalls[c])'
    BY <1>1, <2>1 DEF FilesInv, CallOk, Stored
  <2>5. \A k \in ToolResults(transcript) : ResultOk(transcript, k, AskedModel)'
    <3>1. PICK ms, asks : ms = transcript /\ asks = AskedModel
      OBVIOUS
    <3>2. \A k \in ToolResults(ms) : ResultOk(ms, k, asks)'
      BY <1>1, <2>3, <3>1 DEF FilesInv
    <3>3. ms = transcript' /\ asks = AskedModel'
      BY <2>1, <2>2, <3>1
    <3>. QED
      BY <3>1, <3>2, <3>3 DEF ResultOk
  <2>. QED
    BY <1>1, <2>1, <2>2, <2>4, <2>5 DEF FilesInv, Stored
<1>3. CASE FilesWork
  BY <1>1, <1>3, AskStep, CallsEndStep, FileCallStep DEF FilesWork
<1>. QED
  BY <1>1, <1>2, <1>3

\* The model can get at every result, however many tools change files at once:
\* it is there, or in the file that the notice names unless that was written
\* again, or it was cleared, but not before the model was given it once unless
\* the results after it in its round use up the budget for recent ones
\* (handleResult of large_tool_result.go, reduceByTokens of clear_tool_result.go).
THEOREM ResultsCorrect == Spec => []ResultsInReach
<1>1. FilesKept => ResultsInReach
  <2>. SUFFICES ASSUME FilesInv, NEW k \in ToolResults(transcript)
               PROVE  LET m == transcript[k] IN
                        /\ m.form = "notice" =>
                             /\ m.id \in DOMAIN files
                             /\ m.id \in rewritten \/ files[m.id].of = m.result
                        /\ m.form = "cleared" =>
                             /\ m.tool \notin ExcludeTools
                             /\ m.result \in shown \/ TokensAfter(m) > KeepRecent
    BY DEF FilesKept, ResultsInReach, ToolResults
  <2>1. PICK m, ms : m = transcript[k] /\ ms = transcript
    OBVIOUS
  <2>2. m.form = "notice" => Stored(m.id, m.result)
    BY <2>1 DEF FilesInv
  <2>3. ResultOk(ms, k, AskedModel)
    BY <2>1 DEF FilesInv
  <2>4. AskedModel \in Nat /\ m.round \in Nat
    BY <2>1, <2>3, AskedIs DEF FilesInv, AskedModel, Asked, ResultOk, IsToolMessage
  <2>5. m.form = "cleared" => m.round < AskedModel
    BY <2>1, <2>3, <2>4 DEF ResultOk
  <2>6. TokensAfter(m) = After(ms, m)
    BY <2>1 DEF TokensAfter, After
  <2>7. m.form = "cleared" => /\ m.tool \notin ExcludeTools
                              /\ m.result \in shown \/ TokensAfter(m) > KeepRecent
    BY <2>1, <2>3, <2>5, <2>6 DEF ResultOk
  <2>. QED
    BY <2>1, <2>2, <2>7 DEF Stored
<1>. QED
  BY <1>1, FilesInitial, FilesStep, PTL DEF Spec

-----------------------------------------------------------------------------
(* Documents that are split, stored and found again. *)

\* Where a run of parts of one original begins.
Starts(s, i, a) == a \in 1 .. i /\ (\A k \in a .. i : s[k] = s[i]) /\ (a > 1 => s[a - 1] # s[i])

\* It begins somewhere.
LEMMA RunStartIs ==
  ASSUME NEW m \in Nat, NEW s, DOMAIN s = 1 .. m, NEW i \in 1 .. m
  PROVE  Starts(s, i, RunStart(s, i))
<1>. DEFINE Begins(n, j) == j \in 1 .. n /\ (\A k \in j .. n : s[k] = s[n]) /\ (j > 1 => s[j - 1] # s[n])
            M == {n \in Nat : n \in 1 .. m => \E j : Begins(n, j)}
<1>1. 0 \in M
  OBVIOUS
<1>2. ASSUME NEW n \in M
      PROVE  n + 1 \in M
  <2>. SUFFICES ASSUME n + 1 \in 1 .. m
               PROVE  \E j : Begins(n + 1, j)
    OBVIOUS
  <2>1. CASE n \in 1 .. m /\ s[n] = s[n + 1]
    <3>1. PICK j : Begins(n, j)
      BY <2>1
    <3>2. Begins(n + 1, j)
      <4>1. j \in 1 .. n + 1 /\ (j > 1 => s[j - 1] # s[n + 1])
        BY <2>1, <3>1
      <4>2. ASSUME NEW k \in j .. n + 1
            PROVE  s[k] = s[n + 1]
        <5>1. k = n + 1 \/ k \in j .. n
          BY <2>1, <3>1
        <5>. QED
          BY <2>1, <3>1, <5>1
      <4>. QED
        BY <4>1, <4>2
    <3>. QED
      BY <3>2
  <2>2. CASE ~(n \in 1 .. m /\ s[n] = s[n + 1])
    <3>1. n \in Nat /\ (n + 1 > 1 => n \in 1 .. m) /\ (n + 1) - 1 = n
      OBVIOUS
    <3>2. Begins(n + 1, n + 1)
      BY <2>2, <3>1
    <3>. QED
      BY <3>2
  <2>. QED
    BY <2>1, <2>2
<1>3. M = Nat
  <2>1. M \in SUBSET Nat
    OBVIOUS
  <2>. HIDE DEF M
  <2>. QED
    BY <1>1, <1>2, <2>1, AllNumbers
<1>4. \E j : Begins(i, j)
  <2>1. i \in M
    <3>. HIDE DEF M
    <3>. QED
      BY <1>3
  <2>. QED
    BY <2>1
<1>. QED
  BY <1>4 DEF RunStart, Starts

\* Parts that are together get identifiers of their own.
LEMMA PartsDiffer ==
  ASSUME NEW m \in Nat, NEW s, DOMAIN s = 1 .. m, Together(s), NEW i \in 1 .. m, NEW k \in 1 .. m, i < k
  PROVE  SubID(s, i) # SubID(s, k)
<1>. SUFFICES ASSUME SubID(s, i) = SubID(s, k)
             PROVE  FALSE
  OBVIOUS
<1>1. PICK a, b : a = RunStart(s, i) /\ b = RunStart(s, k)
  OBVIOUS
<1>2. a \in 1 .. i /\ (\A j \in a .. i : s[j] = s[i]) /\ (a > 1 => s[a - 1] # s[i])
  <2>1. Starts(s, i, a)
    BY <1>1, RunStartIs
  <2>. QED
    BY <2>1 DEF Starts
<1>3. b \in 1 .. k /\ (\A j \in b .. k : s[j] = s[k]) /\ (b > 1 => s[b - 1] # s[k])
  <2>1. Starts(s, k, b)
    BY <1>1, RunStartIs
  <2>. QED
    BY <2>1 DEF Starts
<1>4. s[i] = s[k] /\ (i - a) + 1 = (k - b) + 1
  BY <1>1, <1>2, <1>3 DEF SubID
<1>5. \A j \in i .. k : s[j] = s[i]
  BY <1>4 DEF Together
<1>6. CASE a < b
  <2>1. b > 1 /\ (b - 1 \in a .. i \/ b - 1 \in i .. k)
    BY <1>2, <1>3, <1>6
  <2>. QED
    BY <1>2, <1>3, <1>4, <1>5, <2>1
<1>7. CASE b < a
  <2>1. a > 1 /\ a - 1 \in b .. k
    BY <1>2, <1>3, <1>7
  <2>. QED
    BY <1>2, <1>3, <1>4, <2>1
<1>8. CASE a = b
  BY <1>2, <1>3, <1>4, <1>8
<1>. QED
  BY <1>2, <1>3, <1>6, <1>7, <1>8

\* What is stored of the parts.
PartStored(s, i) == [id |-> SubID(s, i), parent |-> s[i], part |-> i]
StoredOf(s) ==
  {[id |-> SubID(s, i), parent |-> s[i], part |-> i] :
     i \in {j \in DOMAIN s : \A k \in DOMAIN s : SubID(s, k) = SubID(s, j) => k <= j}}

\* There is an end of it, and if the parts are together all are kept.
LEMMA StoredAll ==
  ASSUME NEW m \in Nat, NEW s, DOMAIN s = 1 .. m
  PROVE  IsFiniteSet(StoredOf(s)) /\ (Together(s) => Cardinality(StoredOf(s)) = m)
<1>1. PICK D : D = {j \in DOMAIN s : \A k \in DOMAIN s : SubID(s, k) = SubID(s, j) => k <= j}
  OBVIOUS
<1>2. D \in SUBSET (1 .. m)
  BY <1>1
<1>3. IsFiniteSet(1 .. m) /\ Cardinality(1 .. m) = m
  BY FS_Interval
<1>4. IsFiniteSet(D)
  BY <1>2, <1>3, FS_Subset
<1>5. PICK f : f = [i \in D |-> PartStored(s, i)]
  OBVIOUS
<1>6. StoredOf(s) = {f[i] : i \in D}
  BY <1>1, <1>5 DEF StoredOf, PartStored
<1>7. f \in Surjection(D, StoredOf(s))
  BY <1>5, <1>6 DEF Surjection
<1>8. \A i, k \in D : f[i] = f[k] => i = k
  <2>1. \A i \in D : f[i].part = i
    BY <1>5 DEF PartStored
  <2>. QED
    BY <2>1
<1>9. IsFiniteSet(StoredOf(s)) /\ Cardinality(StoredOf(s)) = Cardinality(D)
  <2>1. f \in Injection(D, StoredOf(s))
    BY <1>5, <1>6, <1>8 DEF Injection, IsInjective
  <2>. QED
    BY <1>4, <1>7, <2>1, FS_Surjection
<1>10. ASSUME Together(s)
       PROVE  D = 1 .. m
  <2>1. \A i, k \in 1 .. m : SubID(s, k) = SubID(s, i) => k = i
    <3>1. ASSUME NEW i \in 1 .. m, NEW k \in 1 .. m, SubID(s, k) = SubID(s, i), k # i
          PROVE  FALSE
      <4>1. i < k \/ k < i
        BY <3>1
      <4>. QED
        BY <1>10, <3>1, <4>1, PartsDiffer
    <3>. QED
      BY <3>1
  <2>. QED
    BY <1>1, <2>1
<1>. QED
  BY <1>3, <1>9, <1>10

\* Each of the first so many values, in the order in which they come first.
FirstOf(r, s, k, X) ==
  /\ r \in Seq(X) /\ IsInjective(r) /\ ToSet(r) = {s[i] : i \in 1 .. k}
  /\ \A p, q \in 1 .. Len(r) : p < q => \E i \in 1 .. k : s[i] = r[p] /\ \A j \in 1 .. i : s[j] # r[q]

\* One more.
LEMMA FirstGrows ==
  ASSUME NEW n \in Nat, NEW X, NEW s \in [1 .. n -> X], NEW k \in Nat, k + 1 \in 1 .. n,
         NEW r, FirstOf(r, s, k, X), NEW t,
         t = IF s[k + 1] \in ToSet(r) THEN r ELSE Append(r, s[k + 1])
  PROVE  FirstOf(t, s, k + 1, X)
<1>1. PICK m \in Nat : m = Len(r) /\ DOMAIN r = 1 .. m
  BY DEF FirstOf
<1>2. \A i : i \in 1 .. k + 1 <=> i \in 1 .. k \/ i = k + 1
  OBVIOUS
<1>3. \A i \in 1 .. m : r[i] \in ToSet(r)
  BY <1>1 DEF ToSet
<1>4. CASE s[k + 1] \in ToSet(r)
  <2>1. t = r
    BY <1>4
  <2>2. ToSet(r) = {s[i] : i \in 1 .. k + 1}
    BY <1>2, <1>4 DEF FirstOf
  <2>3. ASSUME NEW p \in 1 .. Len(r), NEW q \in 1 .. Len(r), p < q
        PROVE  \E i \in 1 .. k + 1 : s[i] = r[p] /\ \A j \in 1 .. i : s[j] # r[q]
    <3>1. PICK i \in 1 .. k : s[i] = r[p] /\ \A j \in 1 .. i : s[j] # r[q]
      BY <2>3 DEF FirstOf
    <3>. QED
      BY <1>2, <3>1
  <2>4. r \in Seq(X) /\ IsInjective(r)
    BY DEF FirstOf
  <2>5. FirstOf(r, s, k + 1, X)
    <3>1. \A p, q \in 1 .. Len(r) : p < q => \E i \in 1 .. k + 1 : s[i] = r[p] /\ \A j \in 1 .. i : s[j] # r[q]
      BY <2>3
    <3>. QED
      BY <2>2, <2>4, <3>1 DEF FirstOf
  <2>. QED
    BY <2>1, <2>5
<1>5. CASE s[k + 1] \notin ToSet(r)
  <2>1. t = Append(r, s[k + 1])
    BY <1>5
  <2>2. t \in Seq(X) /\ Len(t) = m + 1 /\ DOMAIN t = 1 .. m + 1 /\ t[m + 1] = s[k + 1]
        /\ \A i \in 1 .. m : t[i] = r[i]
    BY <1>1, <2>1 DEF FirstOf
  <2>3. \A i : i \in 1 .. m + 1 <=> i \in 1 .. m \/ i = m + 1
    BY <1>1
  <2>4. IsInjective(t)
    <3>1. ASSUME NEW i \in 1 .. m + 1, NEW j \in 1 .. m + 1, t[i] = t[j]
          PROVE  i = j
      <4>1. CASE i \in 1 .. m /\ j \in 1 .. m
        BY <1>1, <2>2, <3>1, <4>1 DEF FirstOf, IsInjective
      <4>2. CASE i = m + 1 /\ j \in 1 .. m
        BY <1>3, <1>5, <2>2, <3>1, <4>2
      <4>3. CASE i \in 1 .. m /\ j = m + 1
        BY <1>3, <1>5, <2>2, <3>1, <4>3
      <4>. QED
        BY <2>3, <4>1, <4>2, <4>3
    <3>. QED
      BY <2>2, <3>1 DEF IsInjective
  <2>5. ToSet(t) = {s[i] : i \in 1 .. k + 1}
    <3>1. ToSet(t) = ToSet(r) \cup {s[k + 1]}
      BY <1>1, <2>2, <2>3 DEF ToSet
    <3>. QED
      BY <1>2, <3>1 DEF FirstOf
  <2>6. ASSUME NEW p \in 1 .. m + 1, NEW q \in 1 .. m + 1, p < q
        PROVE  \E i \in 1 .. k + 1 : s[i] = t[p] /\ \A j \in 1 .. i : s[j] # t[q]
    <3>1. p \in 1 .. m
      BY <1>1, <2>6
    <3>2. CASE q \in 1 .. m
      <4>1. PICK i \in 1 .. k : s[i] = r[p] /\ \A j \in 1 .. i : s[j] # r[q]
        BY <1>1, <2>6, <3>1, <3>2 DEF FirstOf
      <4>. QED
        BY <1>2, <2>2, <3>1, <3>2, <4>1
    <3>3. CASE q = m + 1
      <4>1. PICK i \in 1 .. k : s[i] = r[p]
        BY <1>3, <3>1 DEF FirstOf
      <4>2. \A j \in 1 .. i : s[j] \in ToSet(r)
        BY <4>1 DEF FirstOf
      <4>. QED
        BY <1>2, <1>5, <2>2, <3>1, <3>3, <4>1, <4>2
    <3>. QED
      BY <2>3, <3>2, <3>3
  <2>7. \A p, q \in 1 .. Len(t) : p < q => \E i \in 1 .. k + 1 : s[i] = t[p] /\ \A j \in 1 .. i : s[j] # t[q]
    <3>1. 1 .. Len(t) = 1 .. m + 1
      BY <2>2
    <3>. SUFFICES ASSUME NEW p \in 1 .. Len(t), NEW q \in 1 .. Len(t), p < q
                 PROVE  \E i \in 1 .. k + 1 : s[i] = t[p] /\ \A j \in 1 .. i : s[j] # t[q]
      OBVIOUS
    <3>2. p \in 1 .. m + 1 /\ q \in 1 .. m + 1
      BY <3>1
    <3>. QED
      BY <2>6, <3>2
  <2>. QED
    BY <2>2, <2>4, <2>5, <2>7 DEF FirstOf
<1>. QED
  BY <1>4, <1>5

\* That is what FirstOnly gives.
LEMMA FirstOnlyIs ==
  ASSUME NEW n \in Nat, NEW X, NEW s \in [1 .. n -> X]
  PROVE  FirstOf(FirstOnly(s), s, n, X)
<1>. DEFINE T == Seq(X)
            g == [p \in T \X Nat |->
                    IF p[2] \in 1 .. n /\ s[p[2]] \notin ToSet(p[1]) THEN Append(p[1], s[p[2]]) ELSE p[1]]
            Next1(t, k) == IF s[k] \in ToSet(t) THEN t ELSE Append(t, s[k])
            P(h) == h = [k \in 0 .. n |-> IF k = 0 THEN <<>> ELSE Next1(h[k - 1], k)]
            c == CHOOSE h : P(h)
<1>1. g \in [T \X Nat -> T]
  OBVIOUS
<1>2. ASSUME NEW t \in T, NEW k \in 1 .. n
      PROVE  g[<<t, k>>] = Next1(t, k)
  <2>1. <<t, k>> \in T \X Nat
    OBVIOUS
  <2>. HIDE DEF T
  <2>. QED
    BY <2>1
<1>3. PICK f : Recursive(f, 0, n, T, <<>>, g)
  <2>1. <<>> \in T /\ 0 \in Nat
    OBVIOUS
  <2>. HIDE DEF T, g
  <2>. QED
    BY <1>1, <2>1, Recursion, Zenon
<1>4. f \in [0 .. n -> T] /\ f[0] = <<>> /\ \A k \in 1 .. n : f[k] = g[<<f[k - 1], k>>]
  <2>1. 0 .. 0 + n = 0 .. n /\ 0 + 1 .. 0 + n = 1 .. n
    OBVIOUS
  <2>. HIDE DEF T, g
  <2>. QED
    BY <1>3, <2>1 DEF Recursive
<1>5. P(f)
  <2>. HIDE DEF T, g, Next1
  <2>1. ASSUME NEW k \in 1 .. n
        PROVE  f[k] = Next1(f[k - 1], k)
    <3>1. k - 1 \in 0 .. n
      OBVIOUS
    <3>2. f[k - 1] \in T
      BY <1>4, <3>1
    <3>. QED
      BY <1>2, <1>4, <3>2
  <2>2. \A k \in 0 .. n : k = 0 \/ (k # 0 /\ k \in 1 .. n)
    OBVIOUS
  <2>3. \A k \in 0 .. n : f[k] = IF k = 0 THEN <<>> ELSE Next1(f[k - 1], k)
    BY <1>4, <2>1, <2>2
  <2>4. f = [k \in 0 .. n |-> f[k]]
    BY <1>4
  <2>. QED
    BY <2>3, <2>4
<1>6. P(c)
  <2>. HIDE DEF P
  <2>. QED
    BY <1>5
<1>7. FirstOnly(s) = c[n]
  <2>1. Len(s) = n
    OBVIOUS
  <2>. QED
    BY <2>1 DEF FirstOnly
<1>. HIDE DEF c
<1>8. c[0] = <<>> /\ \A k \in 1 .. n : c[k] = Next1(c[k - 1], k)
  <2>. HIDE DEF Next1
  <2>1. \A k \in 0 .. n : c[k] = IF k = 0 THEN <<>> ELSE Next1(c[k - 1], k)
    BY <1>6
  <2>2. 0 \in 0 .. n /\ \A k \in 1 .. n : k # 0 /\ k \in 0 .. n
    OBVIOUS
  <2>. HIDE DEF P
  <2>. QED
    BY <2>1, <2>2
<1>9. FirstOf(c[n], s, n, X)
  <2>. HIDE DEF P
  <2>. DEFINE M == {k \in Nat : k <= n => FirstOf(c[k], s, k, X)}
  <2>1. 0 \in M
    <3>1. FirstOf(<<>>, s, 0, X)
      BY DEF FirstOf, IsInjective, ToSet
    <3>. QED
      BY <1>8, <3>1
  <2>2. ASSUME NEW k \in M
        PROVE  k + 1 \in M
    <3>. SUFFICES ASSUME k + 1 <= n
                 PROVE  FirstOf(c[k + 1], s, k + 1, X)
      OBVIOUS
    <3>1. k \in Nat /\ k <= n /\ k + 1 \in 1 .. n /\ (k + 1) - 1 = k /\ FirstOf(c[k], s, k, X)
      OBVIOUS
    <3>2. c[k + 1] = Next1(c[k], k + 1)
      <4>. HIDE DEF Next1
      <4>. QED
        BY <1>8, <3>1
    <3>. QED
      BY <3>1, <3>2, FirstGrows
  <2>3. M = Nat
    <3>1. M \in SUBSET Nat
      OBVIOUS
    <3>. HIDE DEF M
    <3>. QED
      BY <2>1, <2>2, <3>1, AllNumbers
  <2>4. n \in M
    <3>. HIDE DEF M
    <3>. QED
      BY <2>3
  <2>. QED
    BY <2>4
<1>. QED
  BY <1>7, <1>9
\* Of two numbers the smaller divides into more, if there is enough to divide.
LEMMA DividesMore ==
  ASSUME NEW a \in Nat \ {0}, NEW b \in Nat, a < b, NEW z \in Nat, a * b <= z
  PROVE  z \div b \in Nat /\ z \div a \in Nat /\ z \div b < z \div a
<1>1. PICK y \in Nat, r \in Nat : z \div b = y /\ z = b * y + r /\ r < b
  OBVIOUS
<1>2. PICK x \in Nat, q \in Nat : z \div a = x /\ z = a * x + q /\ q < a
  OBVIOUS
<1>. QED
  BY <1>1, <1>2
\* A product of 60 and more contains any two of its numbers.
LEMMA ScaleEnough ==
  /\ Scale \in Nat
  /\ \A p, q \in 1 .. MaxFound : p < q => (59 + p) * (59 + q) <= Scale
<1>. DEFINE n == MaxFound + 1
            g == [x \in Nat \X Nat |-> x[1] * (59 + x[2])]
            P(h) == h = [k \in 0 .. n |-> IF k = 0 THEN 1 ELSE h[k - 1] * (59 + k)]
            c == CHOOSE h : P(h)
<1>1. n \in Nat /\ MaxFound \in Nat
  BY RetrievalAssumption
<1>2. g \in [Nat \X Nat -> Nat] /\ \A x \in Nat, k \in Nat : g[<<x, k>>] = x * (59 + k)
  OBVIOUS
<1>3. PICK f : Recursive(f, 0, n, Nat, 1, g)
  <2>1. 1 \in Nat /\ 0 \in Nat
    OBVIOUS
  <2>. HIDE DEF g, n
  <2>. QED
    BY <1>1, <1>2, <2>1, Recursion, Zenon
<1>. HIDE DEF n
<1>4. f \in [0 .. n -> Nat] /\ f[0] = 1 /\ \A k \in 1 .. n : f[k] = g[<<f[k - 1], k>>]
  <2>1. 0 .. 0 + n = 0 .. n /\ 0 + 1 .. 0 + n = 1 .. n
    BY <1>1
  <2>. HIDE DEF g
  <2>. QED
    BY <1>3, <2>1 DEF Recursive
<1>5. P(f)
  <2>1. ASSUME NEW k \in 1 .. n
        PROVE  f[k] = f[k - 1] * (59 + k)
    <3>1. k - 1 \in 0 .. n /\ k \in Nat
      BY <1>1
    <3>2. f[k - 1] \in Nat
      BY <1>4, <3>1
    <3>. HIDE DEF g
    <3>. QED
      BY <1>2, <1>4, <3>1, <3>2
  <2>2. \A k \in 0 .. n : k = 0 \/ (k # 0 /\ k \in 1 .. n)
    BY <1>1
  <2>3. \A k \in 0 .. n : f[k] = IF k = 0 THEN 1 ELSE f[k - 1] * (59 + k)
    BY <1>4, <2>1, <2>2
  <2>4. f = [k \in 0 .. n |-> f[k]]
    BY <1>4
  <2>. QED
    BY <2>3, <2>4
<1>6. P(c)
  <2>. HIDE DEF P
  <2>. QED
    BY <1>5
<1>7. Scale = c[n]
  BY DEF Scale, n
<1>. HIDE DEF c
<1>8. c[0] = 1 /\ \A k \in 1 .. n : c[k] = c[k - 1] * (59 + k)
  <2>1. \A k \in 0 .. n : c[k] = IF k = 0 THEN 1 ELSE c[k - 1] * (59 + k)
    BY <1>6
  <2>2. 0 \in 0 .. n /\ \A k \in 1 .. n : k # 0 /\ k \in 0 .. n
    BY <1>1
  <2>. HIDE DEF P
  <2>. QED
    BY <2>1, <2>2
<1>. HIDE DEF P, g
<1>9. \A k \in 0 .. n : c[k] \in Nat \ {0}
  <2>. DEFINE M == {k \in Nat : k <= n => c[k] \in Nat \ {0}}
  <2>1. 0 \in M
    BY <1>8
  <2>2. ASSUME NEW k \in M
        PROVE  k + 1 \in M
    <3>. SUFFICES ASSUME k + 1 <= n
                 PROVE  c[k + 1] \in Nat \ {0}
      OBVIOUS
    <3>1. k \in Nat /\ k + 1 \in 1 .. n /\ (k + 1) - 1 = k /\ c[k] \in Nat \ {0}
      BY <1>1
    <3>2. c[k + 1] = c[k] * (59 + (k + 1))
      BY <1>8, <3>1
    <3>3. PICK x, y \in Nat \ {0} : x = c[k] /\ y = 59 + (k + 1)
      BY <3>1
    <3>4. x * y \in Nat \ {0}
      OBVIOUS
    <3>. QED
      BY <3>2, <3>3, <3>4
  <2>3. M = Nat
    <3>1. M \in SUBSET Nat
      OBVIOUS
    <3>. HIDE DEF M
    <3>. QED
      BY <2>1, <2>2, <3>1, AllNumbers
  <2>. SUFFICES ASSUME NEW k \in 0 .. n
               PROVE  c[k] \in Nat \ {0}
    OBVIOUS
  <2>4. k \in Nat /\ k <= n
    BY <1>1
  <2>5. k \in M
    <3>. HIDE DEF M
    <3>. QED
      BY <2>3, <2>4
  <2>. QED
    BY <2>4, <2>5
<1>10. ASSUME NEW p \in 1 .. MaxFound, NEW q \in 1 .. MaxFound, p < q
       PROVE  (59 + p) * (59 + q) <= Scale
  <2>1. /\ n \in 1 .. n /\ n - 1 = MaxFound /\ MaxFound \in 1 .. n /\ MaxFound - 1 \in 0 .. n
        /\ 59 + n = 60 + MaxFound
    BY <1>1, <1>10 DEF n
  <2>2. c[n] = c[MaxFound] * (60 + MaxFound) /\ c[MaxFound] = c[MaxFound - 1] * (59 + MaxFound)
    BY <1>8, <2>1
  <2>3. PICK x, y, z \in Nat \ {0} : x = c[MaxFound - 1] /\ y = 59 + MaxFound /\ z = 60 + MaxFound
    BY <1>1, <1>9, <2>1
  <2>4. PICK a, b \in Nat : a = 59 + p /\ b = 59 + q /\ a <= y /\ b <= z
    BY <1>1, <1>10, <2>3
  <2>5. a * b <= y * z
    BY <2>4
  <2>6. y * z <= (x * y) * z
    <3>1. PICK w \in Nat : w = y * z
      OBVIOUS
    <3>2. (x * y) * z = x * w /\ w <= x * w
      BY <3>1
    <3>. QED
      BY <3>1, <3>2
  <2>. QED
    BY <1>7, <2>2, <2>3, <2>4, <2>5, <2>6
<1>11. Scale \in Nat
  BY <1>1, <1>7, <1>9
<1>. QED
  BY <1>10, <1>11

\* One greater number, and no smaller one, make a greater sum.
LEMMA SumLess ==
  ASSUME NEW n \in Nat, NEW a \in [1 .. n -> Nat], NEW b \in [1 .. n -> Nat],
         \A k \in 1 .. n : a[k] <= b[k], NEW x \in 1 .. n, a[x] < b[x]
  PROVE  SumOf(a) < SumOf(b) /\ SumOf(a) \in Nat /\ SumOf(b) \in Nat
<1>1. PICK s : Summed(s, a, n)
  BY SumIs
<1>2. PICK t : Summed(t, b, n)
  BY SumIs
<1>. DEFINE M == {k \in Nat : k <= n => s[k] <= t[k] /\ (x <= k => s[k] < t[k])}
<1>3. 0 \in M
  BY <1>1, <1>2 DEF Summed
<1>4. ASSUME NEW k \in M
      PROVE  k + 1 \in M
  <2>. SUFFICES ASSUME k + 1 <= n
               PROVE  s[k + 1] <= t[k + 1] /\ (x <= k + 1 => s[k + 1] < t[k + 1])
    OBVIOUS
  <2>1. /\ k \in Nat /\ k <= n /\ k + 1 \in 1 .. n /\ (k + 1) - 1 = k /\ k \in 0 .. n
        /\ s[k] <= t[k] /\ (x <= k => s[k] < t[k])
    OBVIOUS
  <2>2. s[k + 1] = s[k] + a[k + 1] /\ t[k + 1] = t[k] + b[k + 1]
    BY <1>1, <1>2, <2>1 DEF Summed
  <2>3. PICK u, v, w, y \in Nat : u = s[k] /\ v = t[k] /\ w = a[k + 1] /\ y = b[k + 1]
    BY <1>1, <1>2, <2>1 DEF Summed
  <2>4. w <= y /\ (x = k + 1 => w < y)
    BY <2>1, <2>3
  <2>5. u <= v /\ (x <= k => u < v)
    BY <2>1, <2>3
  <2>6. x <= k + 1 => x <= k \/ x = k + 1
    BY <2>1
  <2>7. u + w <= v + y /\ (x <= k + 1 => u + w < v + y)
    BY <2>4, <2>5, <2>6
  <2>. QED
    BY <2>2, <2>3, <2>7
<1>5. M = Nat
  <2>1. M \in SUBSET Nat
    OBVIOUS
  <2>. HIDE DEF M
  <2>. QED
    BY <1>3, <1>4, <2>1, AllNumbers
<1>6. n \in M
  <2>. HIDE DEF M
  <2>. QED
    BY <1>5
<1>7. s[n] < t[n] /\ s[n] \in Nat /\ t[n] \in Nat
  BY <1>1, <1>2, <1>6 DEF Summed
<1>. QED
  BY <1>1, <1>2, <1>7 DEF Summed
\* What the first so many sequences have: what comes before something in its
\* sequence comes before it in all.
Gathered(r, seqs, k, S) ==
  /\ r \in Seq(S)
  /\ \A x : x \in ToSet(r) <=> \E t \in 1 .. k : x \in ToSet(seqs[t])
  /\ \A i \in 1 .. Len(r) : \E t \in 1 .. k : \E p \in 1 .. Len(seqs[t]) :
       seqs[t][p] = r[i] /\ \A q \in 1 .. p : \E j \in 1 .. i : r[j] = seqs[t][q]

\* One more.
LEMMA GatheredGrows ==
  ASSUME NEW S, NEW n \in Nat, NEW seqs \in [1 .. n -> Seq(S)], NEW k \in Nat, k + 1 \in 1 .. n,
         NEW r, Gathered(r, seqs, k, S)
  PROVE  Gathered(r \o seqs[k + 1], seqs, k + 1, S)
<1>1. PICK u : u = seqs[k + 1]
  OBVIOUS
<1>2. PICK m \in Nat, l \in Nat : m = Len(r) /\ l = Len(u) /\ DOMAIN r = 1 .. m /\ DOMAIN u = 1 .. l
  <2>1. u \in Seq(S)
    BY <1>1
  <2>. QED
    BY <2>1 DEF Gathered
<1>3. PICK t : t = r \o u
  OBVIOUS
<1>4. /\ t \in Seq(S) /\ Len(t) = m + l /\ DOMAIN t = 1 .. m + l
      /\ \A i \in 1 .. m : t[i] = r[i]
      /\ \A i \in 1 .. l : t[m + i] = u[i]
  <2>1. u \in Seq(S) /\ r \in Seq(S)
    BY <1>1 DEF Gathered
  <2>. QED
    BY <1>2, <1>3, <2>1
<1>5. \A i \in 1 .. m + l : i \in 1 .. m \/ \E j \in 1 .. l : i = m + j
  <2>1. ASSUME NEW i \in 1 .. m + l, i \notin 1 .. m
        PROVE  \E j \in 1 .. l : i = m + j
    <3>1. i - m \in 1 .. l /\ i = m + (i - m)
      BY <1>2, <2>1
    <3>. QED
      BY <3>1
  <2>. QED
    BY <2>1
<1>6. \A i : i \in 1 .. k + 1 <=> i \in 1 .. k \/ i = k + 1
  OBVIOUS
<1>7. \A x : x \in ToSet(t) <=> \E j \in 1 .. k + 1 : x \in ToSet(seqs[j])
  <2>1. \A x : x \in ToSet(t) <=> x \in ToSet(r) \/ x \in ToSet(u)
    <3>1. ASSUME NEW x \in ToSet(t)
          PROVE  x \in ToSet(r) \/ x \in ToSet(u)
      <4>1. PICK i \in 1 .. m + l : x = t[i]
        BY <1>4 DEF ToSet
      <4>2. CASE i \in 1 .. m
        BY <1>2, <1>4, <4>1, <4>2 DEF ToSet
      <4>3. ASSUME NEW j \in 1 .. l, i = m + j
            PROVE  x \in ToSet(u)
        <5>1. x = u[j]
          BY <1>4, <4>1, <4>3
        <5>. QED
          BY <1>2, <5>1 DEF ToSet
      <4>. QED
        BY <1>5, <4>2, <4>3
    <3>2. ASSUME NEW x \in ToSet(r)
          PROVE  x \in ToSet(t)
      <4>1. PICK i \in 1 .. m : x = r[i]
        BY <1>2 DEF ToSet
      <4>2. i \in 1 .. m + l
        OBVIOUS
      <4>. QED
        BY <1>4, <4>1, <4>2 DEF ToSet
    <3>3. ASSUME NEW x \in ToSet(u)
          PROVE  x \in ToSet(t)
      <4>1. PICK i \in 1 .. l : x = u[i]
        BY <1>2 DEF ToSet
      <4>2. m + i \in 1 .. m + l
        OBVIOUS
      <4>. QED
        BY <1>4, <4>1, <4>2 DEF ToSet
    <3>. QED
      BY <3>1, <3>2, <3>3
  <2>2. \A x : x \in ToSet(r) <=> \E j \in 1 .. k : x \in ToSet(seqs[j])
    BY DEF Gathered
  <2>. QED
    BY <1>1, <1>6, <2>1, <2>2
<1>8. ASSUME NEW i \in 1 .. m + l
      PROVE  \E j \in 1 .. k + 1 : \E p \in 1 .. Len(seqs[j]) :
               seqs[j][p] = t[i] /\ \A q \in 1 .. p : \E h \in 1 .. i : t[h] = seqs[j][q]
  <2>1. CASE i \in 1 .. m
    <3>1. PICK j \in 1 .. k : \E p \in 1 .. Len(seqs[j]) :
            seqs[j][p] = r[i] /\ \A q \in 1 .. p : \E h \in 1 .. i : r[h] = seqs[j][q]
      BY <1>2, <2>1 DEF Gathered
    <3>2. PICK p \in 1 .. Len(seqs[j]) :
            seqs[j][p] = r[i] /\ \A q \in 1 .. p : \E h \in 1 .. i : r[h] = seqs[j][q]
      BY <3>1
    <3>3. \A h \in 1 .. i : h \in 1 .. m
      BY <2>1
    <3>4. \A q \in 1 .. p : \E h \in 1 .. i : t[h] = seqs[j][q]
      BY <1>4, <3>2, <3>3
    <3>5. seqs[j][p] = t[i] /\ j \in 1 .. k + 1
      BY <1>4, <1>6, <2>1, <3>2
    <3>. QED
      BY <3>4, <3>5
  <2>2. ASSUME NEW p \in 1 .. l, i = m + p
        PROVE  \E j \in 1 .. k + 1 : \E x \in 1 .. Len(seqs[j]) :
                 seqs[j][x] = t[i] /\ \A q \in 1 .. x : \E h \in 1 .. i : t[h] = seqs[j][q]
    <3>1. \A q \in 1 .. p : q \in 1 .. l /\ m + q \in 1 .. i
      BY <2>2
    <3>2. \A q \in 1 .. p : \E h \in 1 .. i : t[h] = u[q]
      BY <1>4, <3>1
    <3>3. seqs[k + 1][p] = t[i] /\ p \in 1 .. Len(seqs[k + 1])
      BY <1>1, <1>2, <1>4, <2>2
    <3>4. \A q \in 1 .. p : \E h \in 1 .. i : t[h] = seqs[k + 1][q]
      BY <1>1, <3>2
    <3>5. k + 1 \in 1 .. k + 1
      OBVIOUS
    <3>. QED
      BY <3>3, <3>4, <3>5
  <2>. QED
    BY <1>5, <2>1, <2>2
<1>9. Gathered(t, seqs, k + 1, S)
  <2>1. \A i \in 1 .. Len(t) : \E j \in 1 .. k + 1 : \E p \in 1 .. Len(seqs[j]) :
               seqs[j][p] = t[i] /\ \A q \in 1 .. p : \E h \in 1 .. i : t[h] = seqs[j][q]
    <3>1. 1 .. Len(t) = 1 .. m + l
      BY <1>4
    <3>. SUFFICES ASSUME NEW i \in 1 .. Len(t)
                 PROVE  \E j \in 1 .. k + 1 : \E p \in 1 .. Len(seqs[j]) :
                          seqs[j][p] = t[i] /\ \A q \in 1 .. p : \E h \in 1 .. i : t[h] = seqs[j][q]
      OBVIOUS
    <3>2. i \in 1 .. m + l
      BY <3>1
    <3>. QED
      BY <1>8, <3>2
  <2>. QED
    BY <1>4, <1>7, <2>1 DEF Gathered
<1>. QED
  BY <1>1, <1>3, <1>9

\* All of them, one after the other.
LEMMA GatheredAll ==
  ASSUME NEW S, NEW n \in Nat, NEW seqs \in [1 .. n -> Seq(S)]
  PROVE  Gathered(FlattenSeq(seqs), seqs, n, S)
<1>1. CASE n = 0
  <2>1. seqs = <<>> /\ Len(seqs) = 0
    BY <1>1
  <2>2. FlattenSeq(seqs) = <<>>
    BY <2>1 DEF FlattenSeq
  <2>3. <<>> \in Seq(S) /\ Len(<<>>) = 0 /\ ToSet(<<>>) = {}
    BY DEF ToSet
  <2>. QED
    BY <1>1, <2>2, <2>3 DEF Gathered
<1>2. CASE n # 0
  <2>1. PICK c : Flattened(c, seqs, n, S)
    BY <1>2, FlattenIs
  <2>2. /\ c[1] = seqs[1] /\ FlattenSeq(seqs) = c[n]
        /\ \A k \in 2 .. n : c[k] = c[k - 1] \o seqs[k]
    BY <2>1 DEF Flattened
  <2>3. Gathered(c[1], seqs, 1, S)
    <3>1. Gathered(<<>>, seqs, 0, S)
      <4>1. <<>> \in Seq(S) /\ Len(<<>>) = 0 /\ ToSet(<<>>) = {}
        BY DEF ToSet
      <4>. QED
        BY <4>1 DEF Gathered
    <3>2. Gathered(<<>> \o seqs[0 + 1], seqs, 0 + 1, S)
      <4>1. 0 \in Nat /\ 0 + 1 \in 1 .. n
        BY <1>2
      <4>. QED
        BY <3>1, <4>1, GatheredGrows
    <3>3. <<>> \o seqs[1] = seqs[1] /\ 0 + 1 = 1
      BY <1>2
    <3>. QED
      BY <2>2, <3>2, <3>3
  <2>. DEFINE M == {k \in Nat : k + 1 <= n => Gathered(c[k + 1], seqs, k + 1, S)}
  <2>4. 0 \in M
    BY <2>3
  <2>5. ASSUME NEW k \in M
        PROVE  k + 1 \in M
    <3>. SUFFICES ASSUME (k + 1) + 1 <= n
                 PROVE  Gathered(c[(k + 1) + 1], seqs, (k + 1) + 1, S)
      OBVIOUS
    <3>1. /\ k + 1 \in Nat /\ Gathered(c[k + 1], seqs, k + 1, S)
          /\ (k + 1) + 1 \in 1 .. n /\ (k + 1) + 1 \in 2 .. n /\ ((k + 1) + 1) - 1 = k + 1
      OBVIOUS
    <3>2. c[(k + 1) + 1] = c[k + 1] \o seqs[(k + 1) + 1]
      BY <2>2, <3>1
    <3>3. PICK j \in Nat : j = k + 1
      BY <3>1
    <3>4. Gathered(c[j] \o seqs[j + 1], seqs, j + 1, S)
      BY <3>1, <3>3, GatheredGrows
    <3>. QED
      BY <3>2, <3>3, <3>4
  <2>6. M = Nat
    <3>1. M \in SUBSET Nat
      OBVIOUS
    <3>. HIDE DEF M
    <3>. QED
      BY <2>4, <2>5, <3>1, AllNumbers
  <2>7. n - 1 \in Nat /\ (n - 1) + 1 = n
    BY <1>2
  <2>8. n - 1 \in M
    <3>. HIDE DEF M
    <3>. QED
      BY <2>6, <2>7
  <2>. QED
    BY <2>2, <2>7, <2>8
<1>. QED
  BY <1>1, <1>2

\* What a task has found, so far.
Finding(t) ==
  /\ t.how \in {"running", "found", "failed", "panicked"}
  /\ t.how \in {"failed", "panicked"} => t.err
  /\ t.docs \in Seq(index) /\ IsInjective(t.docs) /\ Len(t.docs) <= MaxFound

Tasks(n) == DOMAIN tasks = 1 .. n /\ \A i \in 1 .. n : Finding(tasks[i])

\* What all that found it put before another document is before it.
Before(j, k, docs) ==
  \A i \in Counted : docs[k] \in FoundIn(i) =>
    docs[j] \in FoundIn(i) /\ Place(i, docs[j]) < Place(i, docs[k])
KeepsOrder(docs) == \A j, k \in DOMAIN docs : Before(j, k, docs) => j < k

\* The place of a document that was found.
LEMMA PlaceIs ==
  ASSUME NEW n \in Nat, Tasks(n), NEW i \in 1 .. n, NEW d \in FoundIn(i)
  PROVE  /\ Place(i, d) \in 1 .. Len(tasks[i].docs) /\ Place(i, d) \in 1 .. MaxFound
         /\ tasks[i].docs[Place(i, d)] = d
         /\ \A p \in 1 .. Len(tasks[i].docs) : tasks[i].docs[p] = d => Place(i, d) = p
<1>1. PICK s : s = tasks[i].docs
  OBVIOUS
<1>2. s \in Seq(index) /\ IsInjective(s) /\ Len(s) <= MaxFound
  BY <1>1 DEF Tasks, Finding
<1>3. MaxFound \in Nat
  BY RetrievalAssumption
<1>4. \E p \in DOMAIN s : s[p] = d
  BY <1>1 DEF FoundIn, ToSet
<1>5. Place(i, d) \in DOMAIN s /\ s[Place(i, d)] = d
  BY <1>1, <1>4 DEF Place
<1>6. DOMAIN s = 1 .. Len(s) /\ Len(s) \in Nat
  BY <1>2
<1>7. \A p \in 1 .. Len(s) : s[p] = d => Place(i, d) = p
  BY <1>2, <1>5, <1>6 DEF IsInjective
<1>. QED
  BY <1>1, <1>2, <1>3, <1>5, <1>6, <1>7

\* What all found is stored, and there is an end of it.
LEMMA AllFoundStored ==
  ASSUME NEW n \in Nat, Tasks(n)
  PROVE  AllFound \subseteq index /\ Counted \subseteq 1 .. n
<1>1. Counted \subseteq 1 .. n
  BY DEF Counted, Tasks
<1>2. ASSUME NEW i \in Counted
      PROVE  FoundIn(i) \subseteq index
  BY <1>1 DEF Tasks, Finding, FoundIn, ToSet
<1>. QED
  BY <1>1, <1>2 DEF AllFound

\* The multi-query retriever: each document at its first place.
LEMMA DeduplicateWhole ==
  ASSUME NEW n \in Nat, Tasks(n), mode # "router", NEW docs \in deduplicateFusion
  PROVE  docs \in Seq(index) /\ ToSet(docs) = AllFound /\ KeepsOrder(docs)
<1>. DEFINE seqs == [i \in DOMAIN tasks |-> tasks[i].docs]
            F == FlattenSeq(seqs)
<1>1. Counted = 1 .. n
  BY DEF Counted, Counts, Tasks
<1>2. seqs \in [1 .. n -> Seq(index)] /\ \A t \in 1 .. n : seqs[t] = tasks[t].docs
  BY DEF Tasks, Finding
<1>3. PICK r : r = F
  OBVIOUS
<1>4. Gathered(r, seqs, n, index)
  BY <1>2, <1>3, GatheredAll
<1>5. PICK m \in Nat : m = Len(r)
  BY <1>4 DEF Gathered
<1>6. r \in [1 .. m -> index]
  BY <1>4, <1>5 DEF Gathered
<1>7. docs = FirstOnly(r)
  BY <1>3 DEF deduplicateFusion
<1>8. FirstOf(docs, r, m, index)
  BY <1>6, <1>7, FirstOnlyIs
<1>9. ToSet(r) = AllFound
  <2>1. \A x : x \in ToSet(r) <=> \E t \in 1 .. n : x \in ToSet(tasks[t].docs)
    BY <1>2, <1>4 DEF Gathered
  <2>. QED
    BY <1>1, <2>1 DEF AllFound, FoundIn
<1>10. ToSet(docs) = AllFound
  BY <1>6, <1>8, <1>9 DEF FirstOf, ToSet
<1>11. docs \in Seq(index)
  BY <1>8 DEF FirstOf
<1>12. ASSUME NEW j \in DOMAIN docs, NEW k \in DOMAIN docs, Before(j, k, docs)
       PROVE  j < k
  <2>1. j \in 1 .. Len(docs) /\ k \in 1 .. Len(docs) /\ Len(docs) \in Nat
    BY <1>11, <1>12
  <2>2. PICK i \in 1 .. m : r[i] = docs[k] /\ (k < j => \A q \in 1 .. i : r[q] # docs[j])
    <3>1. CASE k < j
      BY <1>8, <2>1, <3>1 DEF FirstOf
    <3>2. CASE ~(k < j)
      <4>1. docs[k] \in ToSet(docs)
        BY <1>12 DEF ToSet
      <4>. QED
        BY <1>6, <1>9, <1>10, <3>2, <4>1 DEF ToSet
    <3>. QED
      BY <3>1, <3>2
  <2>3. PICK t \in 1 .. n, p \in Nat :
          /\ p \in 1 .. Len(tasks[t].docs) /\ tasks[t].docs[p] = r[i]
          /\ \A q \in 1 .. p : \E l \in 1 .. i : r[l] = tasks[t].docs[q]
    <3>1. PICK t \in 1 .. n : \E p \in 1 .. Len(seqs[t]) :
            seqs[t][p] = r[i] /\ \A q \in 1 .. p : \E l \in 1 .. i : r[l] = seqs[t][q]
      BY <1>4, <1>5 DEF Gathered
    <3>2. Len(tasks[t].docs) \in Nat
      BY DEF Tasks, Finding
    <3>. QED
      BY <1>2, <3>1, <3>2
  <2>4. tasks[t].docs \in Seq(index)
    BY DEF Tasks, Finding
  <2>5. docs[k] \in FoundIn(t)
    BY <2>2, <2>3, <2>4 DEF FoundIn, ToSet
  <2>6. docs[j] \in FoundIn(t) /\ Place(t, docs[j]) < Place(t, docs[k])
    BY <1>1, <1>12, <2>5 DEF Before
  <2>7. Place(t, docs[k]) = p
    BY <2>2, <2>3, <2>5, PlaceIs
  <2>8. Place(t, docs[j]) \in 1 .. p /\ tasks[t].docs[Place(t, docs[j])] = docs[j]
    <3>1. Place(t, docs[j]) \in 1 .. Len(tasks[t].docs) /\ tasks[t].docs[Place(t, docs[j])] = docs[j]
      BY <2>6, PlaceIs
    <3>2. Len(tasks[t].docs) \in Nat
      BY <2>4
    <3>. QED
      BY <2>3, <2>6, <2>7, <3>1, <3>2
  <2>9. PICK l \in 1 .. i : r[l] = docs[j]
    BY <2>3, <2>8
  <2>10. ~(k < j)
    BY <2>2, <2>9
  <2>11. j # k
    <3>1. Place(t, docs[k]) \in Nat
      BY <2>3, <2>4, <2>7
    <3>. QED
      BY <2>6, <3>1
  <2>. QED
    BY <2>1, <2>10, <2>11
<1>. QED
  BY <1>10, <1>11, <1>12 DEF KeepsOrder

\* What is before another in all results that have it is ranked higher.
LEMMA RankedHigher ==
  ASSUME NEW n \in Nat, Tasks(n), NEW d \in AllFound, NEW e \in AllFound,
         \A i \in Counted : e \in FoundIn(i) => d \in FoundIn(i) /\ Place(i, d) < Place(i, e)
  PROVE  Rank(e) < Rank(d) /\ Rank(e) \in Nat /\ Rank(d) \in Nat
<1>. DEFINE a == [i \in DOMAIN tasks |-> IF i \in Counted /\ e \in FoundIn(i) THEN RankIn(i, e) ELSE 0]
            b == [i \in DOMAIN tasks |-> IF i \in Counted /\ d \in FoundIn(i) THEN RankIn(i, d) ELSE 0]
<1>1. DOMAIN tasks = 1 .. n
  BY DEF Tasks
<1>2. ASSUME NEW i \in 1 .. n, NEW x \in FoundIn(i)
      PROVE  RankIn(i, x) \in Nat
  <2>1. PICK p \in 1 .. MaxFound : p = Place(i, x)
    BY <1>2, PlaceIs
  <2>2. p \in Nat /\ 59 + p \in Nat \ {0}
    BY <2>1, RetrievalAssumption
  <2>3. PICK z \in Nat : z = Scale
    BY ScaleEnough
  <2>4. PICK y \in Nat \ {0} : y = 59 + p
    BY <2>2
  <2>5. z \div y \in Nat
    BY <2>3, <2>4
  <2>. QED
    BY <2>1, <2>3, <2>4, <2>5 DEF RankIn
<1>3. ASSUME NEW i \in Counted, e \in FoundIn(i)
      PROVE  RankIn(i, e) < RankIn(i, d)
  <2>1. i \in 1 .. n /\ d \in FoundIn(i) /\ Place(i, d) < Place(i, e)
    BY <1>1, <1>3 DEF Counted
  <2>2. PICK p \in 1 .. MaxFound, q \in 1 .. MaxFound : p = Place(i, d) /\ q = Place(i, e)
    BY <1>3, <2>1, PlaceIs
  <2>3. p < q /\ p \in Nat /\ q \in Nat
    BY <2>1, <2>2, RetrievalAssumption
  <2>4. PICK z \in Nat : z = Scale /\ (59 + p) * (59 + q) <= z
    BY <2>2, <2>3, ScaleEnough
  <2>5. PICK u \in Nat \ {0}, v \in Nat : u = 59 + p /\ v = 59 + q /\ u < v
    BY <2>3
  <2>6. u * v <= z
    BY <2>4, <2>5
  <2>7. z \div v < z \div u
    BY <2>5, <2>6, DividesMore
  <2>. QED
    BY <2>2, <2>4, <2>5, <2>7 DEF RankIn
<1>4. a \in [1 .. n -> Nat] /\ b \in [1 .. n -> Nat]
  BY <1>1, <1>2
<1>5. ASSUME NEW i \in 1 .. n
      PROVE  a[i] <= b[i] /\ (i \in Counted /\ e \in FoundIn(i) => a[i] < b[i])
  <2>1. CASE i \in Counted /\ e \in FoundIn(i)
    <3>1. d \in FoundIn(i)
      BY <2>1
    <3>2. a[i] = RankIn(i, e) /\ b[i] = RankIn(i, d)
      BY <1>1, <2>1, <3>1
    <3>3. a[i] \in Nat /\ b[i] \in Nat
      BY <1>4
    <3>. QED
      BY <1>3, <2>1, <3>2, <3>3
  <2>2. CASE ~(i \in Counted /\ e \in FoundIn(i))
    <3>1. a[i] = 0
      BY <1>1, <2>2
    <3>2. b[i] \in Nat
      BY <1>4
    <3>. QED
      BY <2>2, <3>1, <3>2
  <2>. QED
    BY <2>1, <2>2
<1>6. PICK x \in 1 .. n : a[x] < b[x]
  <2>1. PICK i \in Counted : e \in FoundIn(i)
    BY DEF AllFound
  <2>2. i \in 1 .. n
    BY <1>1 DEF Counted
  <2>. QED
    BY <1>5, <2>1, <2>2
<1>7. Rank(e) = SumOf(a) /\ Rank(d) = SumOf(b)
  BY DEF Rank
<1>. HIDE DEF a, b
<1>8. \A k \in 1 .. n : a[k] <= b[k]
  BY <1>5
<1>9. SumOf(a) < SumOf(b) /\ SumOf(a) \in Nat /\ SumOf(b) \in Nat
  BY <1>4, <1>6, <1>8, SumLess
<1>. QED
  BY <1>7, <1>9

\* The router: in the order of the ranks.
LEMMA RankedWhole ==
  ASSUME NEW n \in Nat, Tasks(n), IsFiniteSet(index), NEW docs \in rrf
  PROVE  docs \in Seq(index) /\ ToSet(docs) = AllFound /\ KeepsOrder(docs)
<1>1. AllFound \subseteq index /\ Counted \subseteq 1 .. n
  BY AllFoundStored
<1>2. CASE Cardinality(Counted) = 1
  <2>1. PICK t : Counted = {t}
    <3>1. IsFiniteSet(1 .. n)
      BY FS_Interval
    <3>2. IsFiniteSet(Counted)
      BY <1>1, <3>1, FS_Subset
    <3>. QED
      BY <1>2, <3>2, FS_Singleton
  <2>2. t \in 1 .. n
    BY <1>1, <2>1
  <2>3. docs = tasks[t].docs
    BY <1>2, <2>1 DEF rrf
  <2>4. docs \in Seq(index)
    BY <2>2, <2>3 DEF Tasks, Finding
  <2>5. ToSet(docs) = AllFound
    BY <2>1, <2>3 DEF AllFound, FoundIn
  <2>6. ASSUME NEW j \in DOMAIN docs, NEW k \in DOMAIN docs, Before(j, k, docs)
        PROVE  j < k
    <3>1. docs[j] \in FoundIn(t) /\ docs[k] \in FoundIn(t) /\ j \in 1 .. Len(docs) /\ k \in 1 .. Len(docs)
      BY <2>3, <2>4, <2>6 DEF FoundIn, ToSet
    <3>2. Place(t, docs[j]) < Place(t, docs[k])
      BY <2>1, <2>6, <3>1 DEF Before
    <3>3. Place(t, docs[j]) = j /\ Place(t, docs[k]) = k
      BY <2>2, <2>3, <3>1, PlaceIs
    <3>. QED
      BY <3>2, <3>3
  <2>. QED
    BY <2>4, <2>5, <2>6 DEF KeepsOrder
<1>3. CASE Cardinality(Counted) # 1
  <2>1. docs \in SetToSeqs(AllFound) /\ \A j, k \in DOMAIN docs : j < k => Rank(docs[j]) >= Rank(docs[k])
    BY <1>3 DEF rrf
  <2>2. IsFiniteSet(AllFound)
    BY <1>1, FS_Subset
  <2>3. docs \in Seq(AllFound) /\ ToSet(docs) = AllFound
    BY <2>1, <2>2, OrderingWhole
  <2>4. ASSUME NEW j \in DOMAIN docs, NEW k \in DOMAIN docs, Before(j, k, docs)
        PROVE  j < k
    <3>1. docs[j] \in AllFound /\ docs[k] \in AllFound
      BY <2>3, <2>4 DEF ToSet
    <3>2. Rank(docs[k]) < Rank(docs[j]) /\ Rank(docs[k]) \in Nat /\ Rank(docs[j]) \in Nat
      <4>1. PICK d, e : d = docs[j] /\ e = docs[k]
        OBVIOUS
      <4>2. \A i \in Counted : e \in FoundIn(i) => d \in FoundIn(i) /\ Place(i, d) < Place(i, e)
        BY <2>4, <4>1 DEF Before
      <4>. QED
        BY <3>1, <4>1, <4>2, RankedHigher
    <3>3. ~(k < j) /\ k # j
      BY <2>1, <3>2
    <3>4. j \in Nat /\ k \in Nat
      BY <2>3
    <3>. QED
      BY <3>3, <3>4
  <2>5. docs \in Seq(index)
    <3>1. Len(docs) \in Nat /\ docs \in [1 .. Len(docs) -> AllFound]
      BY <2>3
    <3>. QED
      BY <1>1, <3>1
  <2>. QED
    BY <2>3, <2>4, <2>5 DEF KeepsOrder
<1>. QED
  BY <1>2, <1>3

\* What an answer has.
Answer(docs, ids) ==
  /\ docs \in Seq(index) /\ ToSet(docs) = AllFound /\ KeepsOrder(docs)
  /\ IsInjective(ids) /\ ToSet(ids) = {d.parent : d \in AllFound}

Stores == \E m \in Nat : split \in [1 .. m -> Original] /\ index = StoredOf(split)

FoundInv ==
  /\ Stores
  /\ \E n \in Nat : Tasks(n)
  /\ pc = "start" => tasks = <<>>
  /\ pc = "done" => Answer(fused, parents) /\ \A i \in DOMAIN tasks : tasks[i].how = "found"

FoundKept == Retrieves => FoundInv

\* What is stored stays.
LEMMA SameStores ==
  ASSUME Stores, UNCHANGED <<split, index>>
  PROVE  Stores'
<1>1. PICK m \in Nat : split \in [1 .. m -> Original] /\ index = StoredOf(split)
  BY DEF Stores
<1>2. PICK s : s = split
  OBVIOUS
<1>3. split' = s /\ s \in [1 .. m -> Original] /\ index' = StoredOf(s)
  BY <1>1, <1>2
<1>4. index' = StoredOf(split)'
  BY <1>3 DEF StoredOf, SubID, RunStart
<1>. QED
  BY <1>3, <1>4 DEF Stores

\* While the tasks stay, what is found stays.
LEMMA SameTasks ==
  ASSUME UNCHANGED <<mode, index, tasks>>
  PROVE  /\ \A n : Tasks(n) => Tasks(n)'
         /\ \A docs, ids : Answer(docs, ids) => Answer(docs, ids)'
<1>1. \A i : Counts(i)' <=> Counts(i)
  BY DEF Counts
<1>2. Counted' = Counted
  BY <1>1 DEF Counted
<1>3. \A i : FoundIn(i)' = FoundIn(i)
  BY DEF FoundIn
<1>4. AllFound' = AllFound
  BY <1>2, <1>3 DEF AllFound
<1>5. \A i, d : Place(i, d)' = Place(i, d)
  BY DEF Place
<1>6. \A j, k, docs : Before(j, k, docs)' <=> Before(j, k, docs)
  BY <1>2, <1>3, <1>5 DEF Before
<1>7. \A docs : KeepsOrder(docs) => KeepsOrder(docs)'
  BY <1>6 DEF KeepsOrder
<1>8. \A docs, ids : Answer(docs, ids) => Answer(docs, ids)'
  BY <1>4, <1>7 DEF Answer
<1>9. \A t : Finding(t)' <=> Finding(t)
  BY DEF Finding
<1>10. \A n : Tasks(n) => Tasks(n)'
  BY <1>9 DEF Tasks
<1>. QED
  BY <1>8, <1>10

\* The parents of the documents that were fused, each once.
LEMMA ParentsAsked ==
  ASSUME NEW docs \in Seq(index), ToSet(docs) = AllFound
  PROVE  LET ids == FirstOnly([k \in DOMAIN docs |-> docs[k].parent])
         IN IsInjective(ids) /\ ToSet(ids) = {d.parent : d \in AllFound}
<1>. DEFINE s == [k \in DOMAIN docs |-> docs[k].parent]
            X == {d.parent : d \in AllFound}
<1>1. PICK m \in Nat : m = Len(docs) /\ DOMAIN docs = 1 .. m
  OBVIOUS
<1>2. \A k \in 1 .. m : docs[k] \in AllFound
  BY <1>1 DEF ToSet
<1>3. s \in [1 .. m -> X] /\ \A k \in 1 .. m : s[k] = docs[k].parent
  BY <1>1, <1>2
<1>4. {s[k] : k \in 1 .. m} = X
  BY <1>1, <1>3 DEF ToSet
<1>. HIDE DEF s, X
<1>5. FirstOf(FirstOnly(s), s, m, X)
  BY <1>3, FirstOnlyIs
<1>6. IsInjective(FirstOnly(s)) /\ ToSet(FirstOnly(s)) = X
  BY <1>4, <1>5 DEF FirstOf
<1>. QED
  BY <1>6 DEF s, X

\* The results of all tasks are fused.
LEMMA FuseStep ==
  ASSUME FoundInv, Retrieves, UNCHANGED mode, Fuse
  PROVE  FoundInv'
<1>1. PICK n \in Nat : Tasks(n)
  BY DEF FoundInv
<1>2. PICK docs \in (IF mode = "router" THEN rrf ELSE deduplicateFusion) :
        fused' = docs /\ parents' = FirstOnly([k \in DOMAIN docs |-> docs[k].parent])
  BY DEF Fuse
<1>3. PICK m \in Nat : split \in [1 .. m -> Original] /\ index = StoredOf(split)
  BY DEF FoundInv, Stores
<1>4. IsFiniteSet(index)
  <2>1. DOMAIN split = 1 .. m
    BY <1>3
  <2>. QED
    BY <1>3, <2>1, StoredAll
<1>5. docs \in Seq(index) /\ ToSet(docs) = AllFound /\ KeepsOrder(docs)
  <2>1. CASE mode = "router"
    BY <1>1, <1>2, <1>4, <2>1, RankedWhole
  <2>2. CASE mode # "router"
    BY <1>1, <1>2, <2>2, DeduplicateWhole
  <2>. QED
    BY <2>1, <2>2
<1>6. PICK ids : ids = parents'
  OBVIOUS
<1>7. IsInjective(ids) /\ ToSet(ids) = {d.parent : d \in AllFound}
  BY <1>2, <1>5, <1>6, ParentsAsked
<1>8. Answer(docs, ids)
  BY <1>5, <1>7 DEF Answer
<1>9. UNCHANGED <<mode, split, index, tasks>> /\ pc' = "done"
  BY DEF Fuse
<1>10. Tasks(n)' /\ Answer(docs, ids)'
  BY <1>1, <1>8, <1>9, SameTasks
<1>11. Answer(fused, parents)'
  BY <1>2, <1>6, <1>10 DEF Answer, KeepsOrder, Before
<1>12. \A i \in DOMAIN tasks : tasks[i].how = "found"
  BY <1>1 DEF Fuse, AllEnded, Tasks, Finding
<1>13. Stores'
  BY <1>9, SameStores DEF FoundInv
<1>. QED
  BY <1>9, <1>10, <1>11, <1>12, <1>13 DEF FoundInv

\* The parts are stored.
LEMMA StoreStep ==
  ASSUME FoundInv, NEW s \in SeqOf(Original, MaxParts), StoreSplit(s)
  PROVE  FoundInv'
<1>1. PICK m \in Nat : s \in [1 .. m -> Original]
  BY RetrievalAssumption DEF SeqOf
<1>2. split' = s /\ index' = StoredOf(s)
  BY DEF StoreSplit, StoredOf
<1>3. Stores'
  <2>1. index' = StoredOf(split)'
    BY <1>2 DEF StoredOf, SubID, RunStart
  <2>. QED
    BY <1>1, <1>2, <2>1 DEF Stores
<1>4. pc = "start" /\ pc' = "start" /\ tasks' = <<>>
  BY DEF StoreSplit, FoundInv
<1>5. Tasks(0)'
  BY <1>4 DEF Tasks
<1>. QED
  BY <1>3, <1>4, <1>5 DEF FoundInv

\* The tasks begin, with nothing found yet.
LEMMA BeginStep ==
  ASSUME FoundInv, UNCHANGED <<split, index>>, pc' = "fetch", NEW n \in Nat,
         DOMAIN tasks' = 1 .. n, \A i \in 1 .. n : \E name : tasks'[i] = NewTask(name)
  PROVE  FoundInv'
<1>1. ASSUME NEW i \in 1 .. n
      PROVE  Finding(tasks[i])'
  <2>1. PICK name : tasks'[i] = NewTask(name)
    OBVIOUS
  <2>2. tasks'[i].how = "running" /\ tasks'[i].docs = <<>>
    BY <2>1 DEF NewTask
  <2>3. <<>> \in Seq(index') /\ IsInjective(<<>>) /\ Len(<<>>) <= MaxFound
    BY RetrievalAssumption DEF IsInjective
  <2>. QED
    BY <2>2, <2>3 DEF Finding
<1>2. Tasks(n)'
  BY <1>1 DEF Tasks
<1>3. Stores'
  BY SameStores DEF FoundInv
<1>. QED
  BY <1>2, <1>3 DEF FoundInv

\* A task ends.
LEMMA EndTaskStep ==
  ASSUME FoundInv, NEW i \in DOMAIN tasks, NEW how, NEW err, NEW docs, EndTask(i, how, err, docs),
         how \in {"found", "failed", "panicked"}, how \in {"failed", "panicked"} => err,
         docs \in Seq(index), IsInjective(docs), Len(docs) <= MaxFound
  PROVE  FoundInv'
<1>1. PICK n \in Nat : Tasks(n)
  BY DEF FoundInv
<1>2. UNCHANGED <<pc, split, index>> /\ pc = "fetch"
  BY DEF EndTask
<1>3. PICK t : t = [name |-> tasks[i].name, how |-> how, err |-> err, docs |-> docs]
  OBVIOUS
<1>4. tasks' = [tasks EXCEPT ![i] = t]
  BY <1>3 DEF EndTask
<1>5. DOMAIN tasks' = 1 .. n /\ \A k \in 1 .. n : tasks'[k] = IF k = i THEN t ELSE tasks[k]
  BY <1>1, <1>4 DEF Tasks
<1>6. Finding(t)
  BY <1>3 DEF Finding
<1>7. ASSUME NEW k \in 1 .. n
      PROVE  Finding(tasks[k])'
  BY <1>1, <1>2, <1>5, <1>6 DEF Tasks, Finding
<1>8. Tasks(n)'
  BY <1>5, <1>7 DEF Tasks
<1>9. Stores'
  BY <1>2, SameStores DEF FoundInv
<1>. QED
  BY <1>2, <1>8, <1>9 DEF FoundInv

\* Nothing but the end of a run changes.
LEMMA SameFound ==
  ASSUME FoundInv, UNCHANGED <<mode, retrievalVars>>, pc' \in {pc, "failed"}
  PROVE  FoundInv'
<1>1. UNCHANGED <<mode, split, index, tasks, fused, parents>>
  BY DEF retrievalVars
<1>2. PICK n \in Nat : Tasks(n)
  BY DEF FoundInv
<1>3. Tasks(n)'
  BY <1>1, <1>2, SameTasks
<1>4. pc' = "done" => Answer(fused, parents)'
  <2>. SUFFICES ASSUME pc' = "done"
               PROVE  Answer(fused, parents)'
    OBVIOUS
  <2>1. Answer(fused, parents)
    BY DEF FoundInv
  <2>2. PICK docs, ids : docs = fused /\ ids = parents
    OBVIOUS
  <2>3. Answer(docs, ids)'
    BY <1>1, <2>1, <2>2, SameTasks
  <2>. QED
    BY <1>1, <2>2, <2>3 DEF Answer, KeepsOrder, Before
<1>5. Stores'
  BY <1>1, SameStores DEF FoundInv
<1>6. pc' = "done" => \A i \in DOMAIN tasks' : tasks'[i].how = "found"
  BY <1>1 DEF FoundInv
<1>7. pc' = "start" => tasks' = <<>>
  BY <1>1 DEF FoundInv
<1>. QED
  BY <1>3, <1>4, <1>5, <1>6, <1>7 DEF FoundInv

\* No other kind of agent retrieves.
LEMMA FoundAlone ==
  ASSUME [Next]_vars
  PROVE  /\ mode' = mode
         /\ Retrieves => RetrievalWork \/ UNCHANGED vars
BY DEF Next, Sequence, Parallel, React, Flow, Planning, Offloading, Retrieving, Retrieves,
       InSequence, vars, workflowVars

\* Nothing is stored at first.
LEMMA FoundInitial == Init => FoundKept
<1>. SUFFICES ASSUME Init
             PROVE  FoundInv
  BY DEF FoundKept
<1>1. split = <<>> /\ index = {} /\ tasks = <<>> /\ pc = "start"
  BY DEF Init, RetrievalInit, WorkflowInit
<1>2. split \in [1 .. 0 -> Original] /\ index = StoredOf(split)
  BY <1>1 DEF StoredOf
<1>3. Tasks(0)
  BY <1>1 DEF Tasks
<1>. QED
  BY <1>1, <1>2, <1>3 DEF FoundInv, Stores

\* What is known of the documents is kept.
LEMMA FoundStep == FoundKept /\ [Next]_vars => FoundKept'
<1>. SUFFICES ASSUME FoundKept, [Next]_vars, Retrieves'
             PROVE  FoundInv'
  BY DEF FoundKept
<1>1. FoundInv /\ Retrieves /\ mode' = mode /\ (RetrievalWork \/ UNCHANGED vars)
  BY FoundAlone DEF FoundKept, Retrieves
<1>2. CASE UNCHANGED vars
  BY <1>1, <1>2, SameFound DEF vars, workflowVars
<1>3. CASE \E s \in SeqOf(Original, MaxParts) \ {<<>>} : StoreSplit(s)
  BY <1>1, <1>3, StoreStep
<1>4. CASE StoreFailed \/ RewriteOrRouteFails \/ TasksFailed
  BY <1>1, <1>4, SameFound DEF StoreFailed, RewriteOrRouteFails, TasksFailed
<1>5. CASE Fuse
  BY <1>1, <1>5, FuseStep
<1>6. ASSUME NEW q \in 0 .. MaxQueriesNum + 1, Rewrite(q)
      PROVE  FoundInv'
  <2>1. PICK n \in Nat : n = IF q > MaxQueriesNum THEN MaxQueriesNum ELSE q
    BY RetrievalAssumption
  <2>2. tasks' = [i \in 1 .. n |-> NewTask("orig")]
    BY <1>6, <2>1 DEF Rewrite
  <2>3. UNCHANGED <<split, index>> /\ pc' = "fetch"
    BY <1>6 DEF Rewrite
  <2>. QED
    BY <1>1, <2>2, <2>3, BeginStep
<1>7. ASSUME NEW names \in SeqOf(Named, MaxChosen), RouteTo(names)
      PROVE  FoundInv'
  <2>1. PICK n \in Nat : names \in [1 .. n -> Named]
    BY RetrievalAssumption DEF SeqOf
  <2>2. CASE names # <<>> /\ ToSet(names) \subseteq Source
    <3>1. tasks' = [i \in 1 .. n |-> NewTask(names[i])]
      BY <1>7, <2>1, <2>2 DEF RouteTo
    <3>2. UNCHANGED <<split, index>> /\ pc' = "fetch"
      BY <1>7, <2>2 DEF RouteTo
    <3>. QED
      BY <1>1, <3>1, <3>2, BeginStep
  <2>3. CASE ~(names # <<>> /\ ToSet(names) \subseteq Source)
    BY <1>1, <1>7, <2>3, SameFound DEF RouteTo, retrievalVars
  <2>. QED
    BY <2>2, <2>3
<1>8. ASSUME NEW i \in DOMAIN tasks, TaskFails(i) \/ TaskPanics(i)
      PROVE  FoundInv'
  <2>1. <<>> \in Seq(index) /\ IsInjective(<<>>) /\ Len(<<>>) <= MaxFound
    BY RetrievalAssumption DEF IsInjective
  <2>2. CASE TaskFails(i)
    BY <1>1, <2>1, <2>2, EndTaskStep DEF TaskFails
  <2>3. CASE TaskPanics(i)
    BY <1>1, <2>1, <2>3, EndTaskStep DEF TaskPanics
  <2>. QED
    BY <1>8, <2>2, <2>3
<1>9. ASSUME NEW i \in DOMAIN tasks, NEW docs \in Results, Finds(i, docs)
      PROVE  FoundInv'
  <2>1. docs \in SeqOf(index, MaxFound) /\ IsInjective(docs)
    BY DEF Results
  <2>2. PICK n \in Nat : docs \in [1 .. n -> index] /\ n <= MaxFound
    BY <2>1, RetrievalAssumption DEF SeqOf
  <2>3. docs \in Seq(index) /\ Len(docs) = n
    BY <2>2
  <2>. QED
    BY <1>1, <1>9, <2>1, <2>2, <2>3, EndTaskStep DEF Finds
<1>10. CASE RetrievalWork
  BY <1>3, <1>4, <1>5, <1>6, <1>7, <1>8, <1>9, <1>10 DEF RetrievalWork
<1>. QED
  BY <1>1, <1>2, <1>10

\* In whatever order the retrievers end and however many they are, an answer
\* has every original of which a part was found, once, and needs all of them
\* to have ended well; what all that found it put before another document is
\* before it; and no part is lost in the store if the splitter keeps parts
\* together (ConcurrentRetrieveWithCallback of retriever/utils, rrf of router.go,
\* the fusion of multi_query.go, and parent.go of indexer and retriever).
THEOREM FoundCorrect == Spec => []FoundIsAnswered
<1>1. FoundKept => FoundIsAnswered
  <2>. SUFFICES ASSUME FoundInv
               PROVE  /\ Together(split) => Cardinality(index) = Len(split)
                      /\ pc = "done" =>
                           /\ \A i \in DOMAIN tasks : tasks[i].how = "found"
                           /\ Answer(fused, parents)
    BY DEF FoundKept, FoundIsAnswered, Answer, KeepsOrder, Before
  <2>1. PICK m \in Nat : split \in [1 .. m -> Original] /\ index = StoredOf(split)
    BY DEF FoundInv, Stores
  <2>2. DOMAIN split = 1 .. m /\ Len(split) = m
    BY <2>1
  <2>. QED
    BY <2>1, <2>2, StoredAll DEF FoundInv
<1>. QED
  BY <1>1, FoundInitial, FoundStep, PTL DEF Spec
=============================================================================
