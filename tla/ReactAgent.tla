----------------------------- MODULE ReactAgent -----------------------------
(***************************************************************************)
(* The two agents that ask a model and run the tools it calls for, until   *)
(* it calls for none: ChatModelAgent (src/adk/react.go, chatmodel.go) and  *)
(* the ReAct agent of src/flow/agent/react/react.go.  Both are graphs of a *)
(* model, a ToolsNode and a local state that checkpoints save; the first   *)
(* also makes events of what the callbacks of its nodes tell it.           *)
(*                                                                         *)
(* Model and tools are external.  A call is its place in the message: its  *)
(* identifier is taken to be unique.                                       *)
(***************************************************************************)
EXTENDS Workflow

CONSTANTS
  Tool,           \* the tools of the agent
  ActionTool,     \* of them: ExitTool and transferToAgent, where configured
  MaxTurns,       \* maxIterations of ChatModelAgent
  MaxSteps,       \* MaxStep of the ReAct agent
  MaxCalls        \* bound: tool calls of one message

ASSUME ReactAssumption ==
  /\ ActionTool \subseteq Tool
  /\ MaxTurns \in Nat \ {0} /\ MaxSteps \in Nat \ {0} /\ MaxCalls \in Nat

Adk == mode = "adk_react"
Reacts == Adk \/ mode = "flow_react"

VARIABLES
  listed,   \* tools that return directly
  streamed, \* tools whose results are streams
  left,     \* RemainingIterations, or the super steps the graph has left
  direct,   \* ReturnDirectlyToolCallID, 0 if there is none
  actions,  \* ToolGenActions: the call each tool's action is from
  calls,    \* ToolCalls of the last message of the model
  given,    \* the tools node has an input, and is not run again
  stage,    \* how far each of the calls is
  held,     \* returnDirectlyToolEvent of the run's cbHandler
  answer,   \* the call whose result is the answer, 0 for the model's own
  sent,     \* history: the events of the calls sent so far
  acted,    \* history: calls that set an action
  cut,      \* history: calls with a result when the message was interrupted
  asked     \* history: model calls over all runs

stateVars == <<left, direct, actions, calls, given>>
callVars == <<stage, held, answer, sent, acted, cut>>
reactVars == <<listed, streamed, stateVars, callVars, asked>>

Message == UNION {[1 .. n -> Tool] : n \in 0 .. MaxCalls}

\* buildRunFunc: the tools that send actions always return directly.
Listings == {s \in SUBSET Tool : ActionTool \subseteq s}

ReactInit ==
  /\ listed \in {s \in Listings : Reacts \/ s = ActionTool}
  /\ streamed \in {s \in SUBSET (Tool \ ActionTool) : Adk \/ s = {}}
  /\ left = IF Adk THEN MaxTurns ELSE MaxSteps
  /\ direct = 0
  /\ actions = [t \in Tool |-> 0]
  /\ calls = <<>>
  /\ given = FALSE
  /\ stage = <<>>
  /\ held = <<>>
  /\ answer = 0
  /\ sent = <<>>
  /\ acted = {}
  /\ cut = {}
  /\ asked = 0

Unlimited == left # 0

\* The graph has no super step left.
OutOfSteps ==
  /\ ~Adk
  /\ pc \in {"start", "enter", "convert"} /\ ~Unlimited
  /\ pc' = "failed"
  /\ UNCHANGED <<runs, reactVars>>

\* ErrExceedMaxIterations, of modelPreHandle.
OutOfTurns ==
  /\ Adk
  /\ pc = "start" /\ ~Unlimited
  /\ pc' = "failed"
  /\ UNCHANGED <<runs, reactVars>>

\* Mutant: the state that an agent is resumed with has all its turns again.
StateOnResumeAnew == IF Adk THEN MaxTurns ELSE MaxSteps

\* The limit of turns is in the state, the count of super steps is not.
StateOnResume == IF Adk THEN left ELSE MaxSteps

\* modelPreHandle, the model's message, and the branch that looks at it.
CallModel(message) ==
  /\ pc = "start" /\ Unlimited
  /\ left' = left - 1
  /\ asked' = asked + 1
  /\ calls' = message
  /\ given' = TRUE
  /\ stage' = [c \in DOMAIN message |-> "todo"]
  /\ pc' = IF message = <<>> THEN "done" ELSE "enter"
  /\ sent' = <<>>
  /\ acted' = {}
  /\ cut' = {}
  /\ UNCHANGED <<runs, listed, streamed, direct, actions, held, answer>>

\* firstChunkStreamToolCallChecker: calls after a text are not seen.
CallModelTextFirst(message) ==
  /\ ~Adk
  /\ pc = "start" /\ Unlimited
  /\ left' = left - 1
  /\ asked' = asked + 1
  /\ calls' = <<>>
  /\ message # <<>>
  /\ pc' = "done"
  /\ UNCHANGED <<runs, listed, streamed, direct, actions, given, callVars>>

Listed(message) == {c \in DOMAIN message : message[c] \in listed}

\* getReturnDirectlyToolCallID of the ReAct agent: the first one that is
\* listed.  The message of a node that is run again was looked at before.
FirstListed ==
  IF ~given THEN direct
  ELSE IF Listed(calls) = {} THEN 0
  ELSE CHOOSE c \in Listed(calls) : \A d \in Listed(calls) : c <= d

\* toolPreHandle of ChatModelAgent: the last one that is listed.
LastListed ==
  IF Listed(calls) = {} THEN direct
  ELSE CHOOSE c \in Listed(calls) : \A d \in Listed(calls) : c >= d

\* The pre-handler of the tools node, which runs what has no result yet.
EnterTools ==
  /\ pc = "enter" /\ (Adk \/ Unlimited)
  /\ pc' = "tools"
  /\ direct' = IF Adk THEN LastListed ELSE FirstListed
  /\ left' = IF Adk THEN left ELSE left - 1
  /\ stage' = [c \in DOMAIN calls |-> IF stage[c] = "done" THEN "done" ELSE "run"]
  /\ UNCHANGED <<runs, listed, streamed, actions, calls, given, held, answer, sent, acted,
                 cut, asked>>

Running(c) == pc = "tools" /\ stage[c] \in {"run", "acted"}
MayAct(c) == pc = "tools" /\ stage[c] = "run"

\* SendToolGenAction by a tool that runs; it does so once, if at all.
SendToolGenAction(c) ==
  /\ Adk
  /\ MayAct(c)
  /\ actions' = [actions EXCEPT ![calls[c]] = c]
  /\ acted' = acted \union {c}
  /\ stage' = [stage EXCEPT ![c] = "acted"]
  /\ UNCHANGED <<pc, runs, listed, streamed, left, direct, calls, given, held, answer, sent,
                 cut, asked>>

\* The helper of the ReAct agent: the last to call it is the one that counts.
SetReturnDirectly(c) ==
  /\ ~Adk
  /\ MayAct(c)
  /\ direct' = c
  /\ acted' = acted \union {c}
  /\ stage' = [stage EXCEPT ![c] = "acted"]
  /\ UNCHANGED <<pc, runs, listed, streamed, left, actions, calls, given, held, answer, sent,
                 cut, asked>>

\* Mutant: the event of the tool to return directly is sent as it ends.
TellNow(event) == sent' = Append(sent, event) /\ held' = held

\* The event of the tool to return directly waits for the end of the node.
Tell(event) ==
  IF direct = event.call
  THEN held' = <<event>> /\ sent' = sent
  ELSE sent' = Append(sent, event) /\ held' = held

ToolDone(c) ==
  /\ Running(c)
  /\ calls[c] \in ActionTool => c \in acted
  /\ stage' = [stage EXCEPT ![c] = "done"]
  /\ UNCHANGED <<pc, runs, listed, streamed, left, direct, calls, given, answer, acted, cut,
                 asked>>

\* onToolEnd, with popToolGenAction.
ToolEnds(c) ==
  /\ Adk /\ calls[c] \notin streamed
  /\ ToolDone(c)
  /\ Tell([call |-> c, action |-> actions[calls[c]]])
  /\ actions' = [actions EXCEPT ![calls[c]] = 0]

\* onToolEndWithStreamOutput: its event has no action.
ToolStreams(c) ==
  /\ Adk /\ calls[c] \in streamed
  /\ ToolDone(c)
  /\ Tell([call |-> c, action |-> 0])
  /\ UNCHANGED actions

\* The ReAct agent has no events.
ToolReturns(c) ==
  /\ ~Adk
  /\ ToolDone(c)
  /\ UNCHANGED <<held, sent, actions>>

ToolGivesUp(c) ==
  /\ Running(c)
  /\ \E how \in {"interrupt", "error"} : stage' = [stage EXCEPT ![c] = how]
  /\ UNCHANGED <<pc, runs, listed, streamed, stateVars, held, answer, sent, acted, cut, asked>>

Settled == pc = "tools" /\ \A c \in DOMAIN calls : stage[c] \notin {"run", "acted"}
Outcomes == {stage[c] : c \in DOMAIN calls}

\* onGraphError: the error of a tool, or the interrupt with the checkpoint.
ToolsNodeError ==
  /\ Settled
  /\ Outcomes # {"done"}
  /\ pc' = IF "error" \in Outcomes THEN "failed" ELSE "interrupted"
  /\ cut' = cut \union {c \in DOMAIN calls : stage[c] = "done"}
  /\ UNCHANGED <<runs, listed, streamed, stateVars, stage, held, answer, sent, acted, asked>>

\* checkReturnDirect, the branch behind the node.
AfterTools == IF direct # 0 THEN "convert" ELSE "start"

\* sendReturnDirectlyToolEvent, as the node ends.
ToolsNodeEnd ==
  /\ Settled
  /\ Outcomes = {"done"}
  /\ sent' = sent \o held
  /\ pc' = AfterTools
  /\ UNCHANGED <<runs, listed, streamed, stateVars, stage, held, answer, acted, cut, asked>>

\* The lambda on the way to END picks the message of the call.
Picked ==
  /\ answer' = direct
  /\ pc' = "done"
  /\ UNCHANGED <<runs, listed, streamed, direct, actions, calls, given, stage, held, sent,
                 acted, cut, asked>>

Convert == Adk /\ pc = "convert" /\ Picked /\ UNCHANGED left

directReturn == ~Adk /\ pc = "convert" /\ Unlimited /\ Picked /\ left' = left - 1

\* Resume, with a handler of its own and the state of the checkpoint.
ResumeReact ==
  /\ pc = "interrupted" /\ runs < MaxRuns
  /\ runs' = runs + 1
  /\ pc' = "enter"
  /\ given' = FALSE
  /\ held' = <<>>
  /\ left' = StateOnResume
  /\ UNCHANGED <<listed, streamed, direct, actions, calls, stage, answer, sent, acted, cut,
                 asked>>

ReactWork ==
  \/ OutOfSteps \/ OutOfTurns
  \/ \E m \in Message : CallModel(m) \/ CallModelTextFirst(m)
  \/ EnterTools \/ ToolsNodeError \/ ToolsNodeEnd \/ Convert \/ directReturn
  \/ \E c \in DOMAIN calls :
       \/ SendToolGenAction(c) \/ SetReturnDirectly(c)
       \/ ToolEnds(c) \/ ToolStreams(c) \/ ToolReturns(c) \/ ToolGivesUp(c)

-----------------------------------------------------------------------------
OnlyCallOf(c) == \A d \in DOMAIN calls : calls[d] = calls[c] => d = c
EventsOf(c) == {k \in DOMAIN sent : sent[k].call = c}

\* What an interrupt of the message loses: the handler held the event.
LostToInterrupt(c) == c = direct /\ c \in cut

(* Through all interrupts of a message each of its calls has one event,    *)
(* the one to return directly last, and the event has the action the call  *)
(* set, if the tool does not stream and the message calls it once; but a   *)
(* call to return directly that had ended before an interrupt has none.    *)
ActionsKept ==
  Adk /\ calls # <<>> /\ pc \in {"start", "convert", "done"} =>
    /\ \A c \in DOMAIN calls :
         IF LostToInterrupt(c) THEN EventsOf(c) = {} ELSE \E k \in DOMAIN sent : EventsOf(c) = {k}
    /\ \A e \in ToSet(sent) :
         OnlyCallOf(e.call) /\ calls[e.call] \notin streamed =>
           e.action = IF e.call \in acted THEN e.call ELSE 0
    /\ direct # 0 /\ ~LostToInterrupt(direct) => Last(sent).call = direct

(* A message that calls a tool to return directly is never shown to the    *)
(* model: its result, or that of a call with SetReturnDirectly, is the     *)
(* answer, whatever interrupts there were; and the turns of a              *)
(* ChatModelAgent are limited over all resumptions together.               *)
DirectReturns ==
  /\ pc = "start" => direct = 0 /\ Listed(calls) = {} /\ (Adk \/ acted = {})
  /\ pc = "done" /\ answer # 0 =>
       /\ answer \in Listed(calls) \union acted
       /\ stage[answer] = "done"
  /\ Adk => asked <= MaxTurns

=============================================================================
