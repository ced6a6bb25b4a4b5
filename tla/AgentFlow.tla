----------------------------- MODULE AgentFlow -----------------------------
(***************************************************************************)
(* A tree of agents that hand the conversation over to each other          *)
(* (flowAgent of src/adk/flow.go), some of them with a transfer appended   *)
(* to whatever they say (src/adk/deterministic_transfer.go, the way the    *)
(* supervisor of src/adk/prebuilt/supervisor sets its team up), under a    *)
(* Runner that saves a checkpoint at an interrupt and resumes from it      *)
(* (src/adk/runner.go, interrupt.go).                                      *)
(*                                                                         *)
(* What an agent says is external: one of Turns, or less if it fails.      *)
(* The events of an agent that was handed over to go up through all those  *)
(* before it, in order: the queues between are one here.                   *)
(***************************************************************************)
EXTENDS Workflow

CONSTANTS
  Root,        \* the agent of the Runner
  ParentOf,    \* of each agent; the root is its own
  ToAgents,    \* ToAgentNames of each agent that is wrapped, else empty
  Turns,       \* bound: what an agent may say, a set of sequences of Say(...)
  MaxPath,     \* bound: how often a conversation is handed over, plus one
  MaxUp,       \* bound: events on their way to the Runner
  MaxFlowRuns  \* bound: the first run and its resumptions

FlowAgents == DOMAIN ParentOf

ASSUME FlowAssumption ==
  /\ Root \in FlowAgents /\ ParentOf[Root] = Root
  /\ \A a \in FlowAgents : ParentOf[a] \in FlowAgents
  /\ DOMAIN ToAgents = FlowAgents
  /\ \A a \in FlowAgents : ToAgents[a] \in Seq(ToSet(ToAgents[a]))
  /\ MaxPath \in Nat \ {0} /\ MaxUp \in Nat \ {0} /\ MaxFlowRuns \in Nat

\* Events: "text" and "calls" are messages of the assistant, the second with
\* a call to transfer; "tool" is a result; a "transfer" is a result too, and
\* names the agent to go to; a "goto" does so without a message; "exit" is a
\* result, "interrupt" none.
Say(kind, dest) == [kind |-> kind, dest |-> dest]

\* The messages of a transfer that is made up, GenTransferMessages.
TransferMessages(dest) == <<Say("calls", Root), Say("transfer", dest)>>

\* A team with a supervisor: what each of the others says ends with a transfer.
Supervised(boss, others, free) ==
  [a \in {boss} \cup others \cup free |-> IF a \in others THEN <<boss>> ELSE <<>>]

VARIABLES
  skip,     \* the option to leave transfer messages out of the input
  path,     \* RunPath, and the address, of the agent at work
  input,    \* what it was given
  toSay,     \* what it has still to say
  appended, \* the transfers of its wrapper have been added
  last,     \* lastAction
  sessionEvents, \* Session.Events
  up,       \* events on their way to the Runner
  inHand,   \* the interrupt that handleIter is about to pass on
  signal,   \* interruptSignal is not nil
  store,    \* the checkpoint, if any
  got,      \* history: what the user got in this run
  before,   \* history: what he got before the checkpoint it was resumed from
  count     \* history: events so far

agentVars == <<path, input, toSay, appended, last, sessionEvents>>
runnerVars == <<inHand, signal, store, got>>
flowVars == <<skip, agentVars, up, runnerVars, before, count>>

FlowInit ==
  /\ skip \in {s \in BOOLEAN : mode = "flow" \/ ~s}
  /\ path = <<>> /\ input = <<>> /\ toSay = <<>> /\ appended = FALSE /\ last = "none"
  /\ sessionEvents = <<>>
  /\ up = <<>>
  /\ inHand = <<>> /\ signal = FALSE /\ store = <<>> /\ got = <<>>
  /\ before = {}
  /\ count = 0

Me == Last(path)

-----------------------------------------------------------------------------
(* What an agent is given. *)

User == [kind |-> "user", dest |-> Root, path |-> <<>>, n |-> 0, role |-> "user", run |-> 0]

HasMessage(e) == e.kind \notin {"goto", "error"}

\* Mutant: the message that called for the transfer stays.
HistoryKeepsCalls(entries, event) ==
  IF ~HasMessage(event) \/ (skip /\ event.kind = "transfer") THEN entries ELSE Append(entries, event)

\* With the option a transfer is left out, and with it, if it has the role of
\* a tool, the entry before it, which is taken to be the message that called
\* for it.
History(entries, event) ==
  IF ~HasMessage(event) THEN entries
  ELSE IF skip /\ event.kind = "transfer"
  THEN (IF event.role = "tool" /\ entries # <<>> THEN Front(entries) ELSE entries)
  ELSE Append(entries, event)

\* The entries after so many events of the session.
historyEntries[k \in 0 .. Len(sessionEvents)] ==
  IF k = 0 THEN <<User>> ELSE History(historyEntries[k - 1], sessionEvents[k])

genAgentInput == historyEntries[Len(sessionEvents)]

\* flowAgent.Run, of the agent at the end of the path.
RunAgent(newPath) ==
  /\ path' = newPath
  /\ input' = genAgentInput
  /\ toSay' \in Turns
  /\ appended' = FALSE
  /\ last' = "none"

-----------------------------------------------------------------------------
(* flowAgent.run. *)

\* Runner.Run
StartFlow ==
  /\ pc = "start" /\ path = <<>>
  /\ pc' = "run"
  /\ RunAgent(<<Root>>)
  /\ UNCHANGED <<runs, skip, sessionEvents, up, runnerVars, before, count>>

\* Role of the MessageVariant.
RoleOf(kind) == IF kind \in {"tool", "transfer", "exit"} THEN "tool" ELSE "assistant"

\* "run" is history: the run it was said in.
Event(say) ==
  [kind |-> say.kind, dest |-> say.dest, path |-> path, n |-> count + 1,
   role |-> RoleOf(say.kind), run |-> runs]

\* Mutant: what a tool returns is not for the session.
RecordedSpoken(e) == IF e.kind \in {"interrupt", "tool"} THEN <<>> ELSE <<e>>

\* An interrupt is not for the session.
Recorded(e) == IF e.kind = "interrupt" THEN <<>> ELSE <<e>>

\* Every event is recorded before it is sent.
Pass(say) ==
  /\ count' = count + 1
  /\ sessionEvents' = sessionEvents \o Recorded(Event(say))
  /\ up' = Append(up, Event(say))
  /\ last' = IF say.kind \in {"transfer", "goto"} THEN "transfer"
             ELSE IF say.kind \in {"exit", "interrupt"} THEN say.kind ELSE "none"

NextEvent ==
  /\ pc = "run" /\ toSay # <<>> /\ Len(up) < MaxUp
  /\ Pass(Head(toSay))
  /\ toSay' = Tail(toSay)
  /\ UNCHANGED <<pc, runs, skip, path, input, appended, runnerVars, before>>

\* The agent fails; the error is an event, and the last one of its own.
AgentFails ==
  /\ pc = "run" /\ toSay # <<>> /\ ~appended /\ Len(up) < MaxUp
  /\ Pass(Say("error", Root))
  /\ toSay' = <<>>
  /\ UNCHANGED <<pc, runs, skip, path, input, appended, runnerVars, before>>

\* appendTransferAction, unless the last thing was an interrupt.
AppendTransfers ==
  /\ pc = "run" /\ toSay = <<>> /\ ~appended
  /\ ToAgents[Me] # <<>> /\ last # "interrupt"
  /\ appended' = TRUE
  /\ toSay' = FlattenSeq([k \in DOMAIN ToAgents[Me] |-> TransferMessages(ToAgents[Me][k])])
  /\ UNCHANGED <<pc, runs, skip, path, input, last, sessionEvents, up, runnerVars, before, count>>

\* The agent, with its wrapper, has nothing more to say.
AgentIsDone == pc = "run" /\ toSay = <<>> /\ (appended \/ ToAgents[Me] = <<>> \/ last = "interrupt")

\* getAgent: a sub-agent or the parent, by name.
Reach(a) == {b \in FlowAgents \ {a} : ParentOf[b] = a \/ ParentOf[a] = b}

Destination == Last(sessionEvents).dest

TransferTo ==
  /\ AgentIsDone
  /\ last = "transfer" /\ Destination \in Reach(Me)
  /\ Len(path) < MaxPath
  /\ RunAgent(Append(path, Destination))
  /\ UNCHANGED <<pc, runs, skip, sessionEvents, up, runnerVars, before, count>>

\* The error that says so goes to the user only.
TransferFails ==
  /\ AgentIsDone
  /\ last = "transfer" /\ Destination \notin Reach(Me)
  /\ pc' = "closing"
  /\ count' = count + 1
  /\ up' = Append(up, Event(Say("error", Root)))
  /\ UNCHANGED <<runs, skip, agentVars, runnerVars, before>>

\* An exit, an interrupt, or nothing to do.
EndFlow ==
  /\ AgentIsDone
  /\ last # "transfer"
  /\ pc' = "closing"
  /\ UNCHANGED <<runs, flowVars>>

-----------------------------------------------------------------------------
(* handleIter of the Runner. *)

Arrives(kinds) ==
  /\ pc \in {"run", "closing"}
  /\ inHand = <<>> /\ up # <<>> /\ Head(up).kind \in kinds
  /\ up' = Tail(up)

PassOnEvent ==
  /\ Arrives({"text", "calls", "tool", "transfer", "goto", "exit", "error"})
  /\ got' = Append(got, Head(up))
  /\ UNCHANGED <<pc, runs, skip, agentVars, inHand, signal, store, before, count>>

\* GobEncode of a MessageVariant writes the message, and neither Role nor ToolName.
WithoutRole(e) == [e EXCEPT !.role = ""]

Save(e) ==
  <<[path |-> e.path, session |-> [k \in DOMAIN sessionEvents |-> WithoutRole(sessionEvents[k])],
     told |-> before \cup ToSet(got)]>>

\* saveCheckPoint, which may fail, before the interrupt is passed on.
ReceiveInterrupt ==
  /\ Arrives({"interrupt"}) /\ ~signal
  /\ signal' = TRUE
  /\ inHand' = <<Head(up)>>
  /\ \/ store' = Save(Head(up)) /\ UNCHANGED got
     \/ got' = Append(got, [Head(up) EXCEPT !.kind = "unsaved"]) /\ UNCHANGED store
  /\ UNCHANGED <<pc, runs, skip, agentVars, before, count>>

PassOnInterrupt ==
  /\ pc \in {"run", "closing"} /\ inHand # <<>>
  /\ got' = got \o inHand
  /\ inHand' = <<>>
  /\ UNCHANGED <<pc, runs, skip, agentVars, up, signal, store, before, count>>

\* Interrupts are to be one, or the Runner panics.
SecondInterrupt ==
  /\ Arrives({"interrupt"}) /\ signal
  /\ pc' = "failed"
  /\ got' = Append(got, [Head(up) EXCEPT !.kind = "error"])
  /\ UNCHANGED <<runs, skip, agentVars, inHand, signal, store, before, count>>

EndRun ==
  /\ pc = "closing"
  /\ inHand = <<>> /\ up = <<>>
  /\ pc' = IF signal THEN "interrupted" ELSE "done"
  /\ UNCHANGED <<runs, flowVars>>

-----------------------------------------------------------------------------
Interrupts == {e \in ToSet(got) : e.kind = "interrupt"}

loadCheckPoint == store[1]

\* flowAgent.Resume, from the root along the addresses of the interrupt.
Leads(saved) ==
  \A i \in 1 .. Len(saved.path) - 1 : saved.path[i + 1] \in Reach(saved.path[i])

\* The user may be so quick that the run is not over.
ResumeFlow ==
  /\ Interrupts # {} /\ store # <<>>
  /\ runs < MaxFlowRuns
  /\ runs' = runs + 1
  /\ LET saved == loadCheckPoint IN
       /\ path' = saved.path
       /\ sessionEvents' = saved.session
       /\ before' = saved.told
       /\ IF Leads(saved)
          THEN pc' = "run" /\ toSay' \in Turns
          ELSE pc' = "failed" /\ toSay' = <<>>
  /\ appended' = FALSE
  /\ last' = "none"
  /\ up' = <<>> /\ inHand' = <<>> /\ signal' = FALSE /\ got' = <<>>
  /\ UNCHANGED <<skip, input, store, count>>

\* Nothing limits how often agents hand over.
HandedOverAgain == mode = "flow" /\ Len(path) = MaxPath

FlowWork ==
  \/ StartFlow \/ NextEvent \/ AgentFails \/ AppendTransfers
  \/ TransferTo \/ TransferFails \/ EndFlow
  \/ PassOnEvent \/ ReceiveInterrupt \/ PassOnInterrupt \/ SecondInterrupt \/ EndRun

-----------------------------------------------------------------------------
(* From the moment the user has an interrupt, unless he was told that it   *)
(* was not saved, the store has a checkpoint that leads to the agent that  *)
(* interrupted, and with a session that has all the user was told      *)
(* before, in this run and in those that led to it (runner.go:213 promises that    *)
(* "they can resume from this checkpoint").                                *)
CheckpointServes ==
  (\A e \in ToSet(got) : e.kind # "unsaved") =>
    \A interrupt \in Interrupts :
      /\ store # <<>>
      /\ store[1].path = interrupt.path
      /\ {WithoutRole(e) : e \in before \cup {x \in ToSet(got) : x.n < interrupt.n}}
           \subseteq ToSet(store[1].session)

(* An agent that is handed a conversation over is given every message of   *)
(* it, those from before an interrupt as well: with the option to skip     *)
(* transfers all but these and whatever came directly before one of them   *)
(* since the last resumption.  What called for a transfer before it stays, *)
(* because the checkpoint drops the role by which genAgentInput looks for  *)
(* it (flow.go:224).                                                       *)
InputWhole ==
  [][path' # path /\ input' # input =>
       \A k \in DOMAIN sessionEvents :
         LET e == sessionEvents[k]
             pair == skip /\ (\/ e.kind = "transfer"
                              \/ /\ k < Len(sessionEvents)
                                 /\ sessionEvents[k + 1].kind = "transfer"
                                 /\ sessionEvents[k + 1].run = runs)
         IN HasMessage(e) => (Contains(input', e) <=> ~pair)
  ]_<<workflowVars, flowVars>>

=============================================================================
