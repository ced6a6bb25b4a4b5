----------------------------- MODULE ToolsNode -----------------------------
(***************************************************************************)
(* ToolsNode (src/compose/tool_node.go): the node that runs the tool calls *)
(* of a message, at once or in sequence, and that an interrupt of some of  *)
(* them brings back with the results of the others.                        *)
(*                                                                         *)
(* A call is its place in the message: "CallID is the unique identifier    *)
(* for this tool call" (line 77), and results are kept by it.  A result is *)
(* which invocation of the call it comes from.  The client calls the graph *)
(* with one checkpoint id until it has the answers, so that an attempt     *)
(* after a failure starts from the last interrupt again.                   *)
(***************************************************************************)
EXTENDS Naturals, FiniteSets

CONSTANTS
  Calls,       \* how many calls the message has
  Streaming,   \* Stream and not Invoke
  MaxAttempts  \* bound: calls of the node

ASSUME ToolsAssumption ==
  /\ Calls \in Nat \ {0}
  /\ Streaming \in BOOLEAN
  /\ MaxAttempts \in Nat

Call == 1 .. Calls

VARIABLES
  sequential, \* executeSequentially, the same for good
  pc,         \* the node: "idle", "run", or how its attempt ended
  saved,      \* ExecutedTools of the state in the checkpoint
  task,       \* toolCallTask of the attempt
  result,     \* the invocation task.output or task.sOutput comes from
  broken,     \* calls whose stream ends with an error
  abandoned,  \* history: invocations that outlive the attempt they are of
  torn,       \* history: a panic left invocations running
  started,    \* history: invocations of each call
  completed,  \* history: the invocations that returned a result
  failures,   \* history: attempts that failed
  attempts

vars == <<sequential, pc, saved, task, result, broken, abandoned, torn, started, completed,
          failures, attempts>>

tasks == <<task, result, broken>>
history == <<abandoned, torn, started, completed, failures>>

Ended == {"answered", "interrupted", "failed"}

NoResult == [c \in {} |-> 0]

Init ==
  /\ sequential \in BOOLEAN
  /\ pc = "idle"
  /\ saved = NoResult
  /\ task = [c \in Call |-> "todo"]
  /\ result = [c \in Call |-> 0]
  /\ broken = {}
  /\ abandoned = [c \in Call |-> 0]
  /\ torn = FALSE
  /\ started = [c \in Call |-> 0]
  /\ completed = {}
  /\ failures = 0
  /\ attempts = 0

\* Mutant: the results of the interrupted attempt are not looked up.
genToolCallTasksAll(c) == IF sequential THEN "todo" ELSE "running"

\* genToolCallTasks, and the goroutines of parallelRunToolCall: what has a
\* result is executed, the others run or are in the queue.
genToolCallTasks(c) ==
  IF c \in DOMAIN saved THEN "executed"
  ELSE IF sequential THEN "todo" ELSE "running"

Start ==
  /\ pc \in {"idle", "interrupted", "failed"}
  /\ attempts < MaxAttempts
  /\ attempts' = attempts + 1
  /\ pc' = "run"
  /\ task' = [c \in Call |-> genToolCallTasks(c)]
  /\ result' = [c \in Call |-> IF c \in DOMAIN saved THEN saved[c] ELSE 0]
  /\ broken' = {}
  /\ abandoned' = [c \in Call |-> abandoned[c] + IF task[c] = "running" THEN 1 ELSE 0]
  /\ started' = [c \in Call |-> started[c] + IF task'[c] = "running" THEN 1 ELSE 0]
  /\ UNCHANGED <<sequential, saved, torn, completed, failures>>

\* Not even the tasks can be made: a tool is not known and there is no handler
\* for it, or the arguments handler fails.
CannotStart ==
  /\ pc \in {"idle", "interrupted", "failed"}
  /\ attempts < MaxAttempts
  /\ Call \ DOMAIN saved # {}
  /\ attempts' = attempts + 1
  /\ pc' = "failed"
  /\ failures' = failures + 1
  /\ UNCHANGED <<sequential, saved, tasks, abandoned, torn, started, completed>>

\* sequentialRunToolCall: the next one, whatever became of those before it.
Begin(c) ==
  /\ pc = "run"
  /\ task[c] = "todo"
  /\ \A d \in 1 .. (c - 1) : task[d] \notin {"todo", "running"}
  /\ task' = [task EXCEPT ![c] = "running"]
  /\ started' = [started EXCEPT ![c] = @ + 1]
  /\ UNCHANGED <<sequential, pc, saved, result, broken, abandoned, torn, completed,
                 failures, attempts>>

\* The caller itself runs every call of a sequence, and the first of the others.
Inline(c) == sequential \/ c = 1

\* runToolCallTaskByInvoke, runToolCallTaskByStream: the tool returns.
Succeed(c) ==
  /\ task[c] = "running"
  /\ task' = [task EXCEPT ![c] = "executed"]
  /\ result' = [result EXCEPT ![c] = started[c]]
  /\ completed' = completed \union {<<c, started[c]>>}
  /\ \/ UNCHANGED broken
     \/ Streaming /\ broken' = broken \union {c}
  /\ UNCHANGED <<sequential, pc, saved, abandoned, torn, started, failures, attempts>>

GiveUp(c) ==
  /\ task[c] = "running"
  /\ \E outcome \in {"interrupt", "error"} : task' = [task EXCEPT ![c] = outcome]
  /\ UNCHANGED <<sequential, pc, saved, result, broken, history, attempts>>

\* The tool panics.  A goroutine recovers and has an error; nothing in this node
\* recovers for the caller, so it leaves without wg.Wait.
Panic(c) ==
  /\ task[c] = "running"
  /\ task' = [task EXCEPT ![c] = "error"]
  /\ IF Inline(c) /\ pc = "run"
     THEN /\ pc' = "failed"
          /\ failures' = failures + 1
          /\ torn' = (torn \/ \E d \in Call \ {c} : task[d] = "running")
     ELSE UNCHANGED <<pc, failures, torn>>
  /\ UNCHANGED <<sequential, saved, result, broken, abandoned, started, completed, attempts>>

Those(outcome) == {c \in Call : task[c] = outcome}

\* Mutant: only what ran in this attempt is saved.
ExecutedNow ==
  [c \in Those("executed") \ DOMAIN saved |-> result[c]]

\* rerunState.ExecutedTools
Executed == [c \in Those("executed") |-> result[c]]

\* The results are looked at when every call has one.
AllReturned == pc = "run" /\ \A c \in Call : task[c] \notin {"todo", "running"}

\* Any error that is no interrupt fails the node, and so does a stream that
\* cannot be read to its end when the results are to be saved.
CollectError ==
  /\ AllReturned
  /\ \/ Those("error") # {}
     \/ Those("interrupt") # {} /\ broken # {}
  /\ pc' = "failed"
  /\ failures' = failures + 1
  /\ UNCHANGED <<sequential, saved, tasks, abandoned, torn, started, completed, attempts>>

\* Mutant: what comes after the first interrupt is not saved.
CollectInterruptPrefix ==
  /\ AllReturned
  /\ Those("error") = {} /\ Those("interrupt") # {} /\ broken = {}
  /\ pc' = "interrupted"
  /\ saved' = [c \in {d \in Those("executed") :
                 \A e \in 1 .. d : task[e] # "interrupt"} |-> result[c]]
  /\ UNCHANGED <<sequential, tasks, history, attempts>>

\* CompositeInterrupt with the state to go on from.
CollectInterrupt ==
  /\ AllReturned
  /\ Those("error") = {} /\ Those("interrupt") # {} /\ broken = {}
  /\ pc' = "interrupted"
  /\ saved' = Executed
  /\ UNCHANGED <<sequential, tasks, history, attempts>>

\* One message per call, in the order of the calls.
CollectAnswers ==
  /\ AllReturned
  /\ Those("error") = {} /\ Those("interrupt") = {}
  /\ pc' = "answered"
  /\ UNCHANGED <<sequential, saved, tasks, history, attempts>>

Collect == CollectError \/ CollectInterrupt \/ CollectAnswers

Work == Collect \/ \E c \in Call : Begin(c) \/ Succeed(c) \/ GiveUp(c) \/ Panic(c)

Next == Start \/ CannotStart \/ Work

Spec == Init /\ [][Next]_vars

-----------------------------------------------------------------------------

(* A tool whose result an interrupt saved is never run again, and the      *)
(* result stays, whatever fails or interrupts after that (TestToolRerun    *)
(* sees one resumption).                                                   *)
SavedKept ==
  [][\A c \in DOMAIN saved : /\ started'[c] = started[c]
                             /\ c \in DOMAIN saved' /\ saved'[c] = saved[c]]_vars

(* If no attempt failed, an answered message ran every tool to its end     *)
(* exactly once over all resumptions, and each answer is of its own call.  *)
EachRanOnce ==
  pc = "answered" /\ failures = 0 =>
    \A c \in Call : \A k \in 1 .. MaxAttempts :
      <<c, k>> \in completed <=> k = result[c]

(* The node is never answered without the result of every call, and at an  *)
(* interrupt what has no result is to be run again.                        *)
EveryCallSettled ==
  /\ pc = "answered" => Those("executed") = Call
  /\ pc = "interrupted" => DOMAIN saved = Call \ Those("interrupt")

(* No tool of an attempt is still running when the node is called again,   *)
(* unless the call that the caller runs itself panicked.                   *)
OnlyAPanicAbandons == (\E c \in Call : abandoned[c] > 0) => torn

(* Each run of a tool counts: it is the one whose result is the answer, or *)
(* the attempt failed, and none goes on behind the back of the node.       *)
EachRunCounts == EachRanOnce /\ OnlyAPanicAbandons

=============================================================================
