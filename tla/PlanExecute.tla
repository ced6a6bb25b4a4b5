---------------------------- MODULE PlanExecute ----------------------------
(***************************************************************************)
(* The plan-execute-replan agent (src/adk/prebuilt/planexecute): a planner *)
(* and then, round after round, an executor of the first step of the plan  *)
(* and a replanner, a sequence with a loop in it (SequenceAgent) under a   *)
(* Runner.  The three share the values of the session.                     *)
(*                                                                         *)
(* Models and tools are external.  A plan is the how-manieth it is, and    *)
(* stands for its first step; a result is the plan it was executed for.    *)
(***************************************************************************)
EXTENDS Workflow

CONSTANT MaxPlanRounds  \* MaxIterations of the loop

ASSUME PlanAssumption == MaxPlanRounds \in Nat \ {0}

Absent == 0

VARIABLES
  round,   \* rounds of the loop that are over
  whose,   \* whose turn it is
  values,  \* the values under the session keys
  planStore,    \* the checkpoint, if any
  made,    \* history: plans so far
  unsure   \* history: plans an executor or a replanner failed with

planVars == <<round, whose, values, planStore, made, unsure>>

\* PlanSessionKey, ExecutedStepSessionKey and ExecutedStepsSessionKey
PlanInit ==
  /\ round = 0
  /\ whose = "planner"
  /\ values = [plan |-> Absent, result |-> Absent, steps |-> <<>>]
  /\ planStore = <<>>
  /\ made = 0
  /\ unsure = [executor |-> {}, replanner |-> {}]

NewPlan == made' = made + 1 /\ values' = [values EXCEPT !.plan = made + 1]

Turn(who) == pc = "start" /\ round < MaxPlanRounds /\ whose = who

Plan ==
  /\ Turn("planner")
  /\ NewPlan
  /\ whose' = "executor"
  /\ UNCHANGED <<pc, runs, round, planStore, unsure>>

\* The model fails or calls no tool, or its plan cannot be read.  The sequence
\* ends with the error.
PlanFails ==
  /\ Turn("planner")
  /\ pc' = "failed"
  /\ UNCHANGED <<runs, planVars>>

\* Mutant: a result that is there already is planStore.
ExecuteKeeps ==
  /\ Turn("executor")
  /\ values' = [values EXCEPT !.result = IF @ = Absent THEN values.plan ELSE @]
  /\ whose' = "replanner"
  /\ UNCHANGED <<pc, runs, round, planStore, made, unsure>>

\* The output of the executor's ChatModelAgent goes to its OutputKey.
Execute ==
  /\ Turn("executor")
  /\ values' = [values EXCEPT !.result = values.plan]
  /\ whose' = "replanner"
  /\ UNCHANGED <<pc, runs, round, planStore, made, unsure>>

\* A loop goes on after an error, with the values as they are.
ExecuteFails ==
  /\ Turn("executor")
  /\ whose' = "replanner"
  /\ unsure' = [unsure EXCEPT !.executor = @ \cup {values.plan}]
  /\ UNCHANGED <<pc, runs, round, values, planStore, made>>

\* The checkpoint has the values of the session.  The type of the executed
\* steps is not registered, so that there is none once there are any.
Checkpoint ==
  IF values.steps = <<>> THEN <<[round |-> round, values |-> values]>> ELSE planStore

ExecuteInterrupts ==
  /\ Turn("executor")
  /\ pc' = "interrupted"
  /\ planStore' = Checkpoint
  /\ UNCHANGED <<runs, round, whose, values, made, unsure>>

\* genInput of the replanner: the step of the plan with the last result.
Executed == Append(values.steps, [step |-> values.plan, result |-> values.result])

\* It panics if there is no result yet.
NothingExecuted ==
  /\ Turn("replanner")
  /\ values.result = Absent
  /\ whose' = "executor"
  /\ round' = round + 1
  /\ UNCHANGED <<pc, runs, values, planStore, made, unsure>>

Replan ==
  /\ Turn("replanner")
  /\ values.result # Absent
  /\ made' = made + 1
  /\ values' = [values EXCEPT !.steps = Executed, !.plan = made + 1]
  /\ whose' = "executor"
  /\ round' = round + 1
  /\ UNCHANGED <<pc, runs, planStore, unsure>>

\* BreakLoop
Respond ==
  /\ Turn("replanner")
  /\ values.result # Absent
  /\ values' = [values EXCEPT !.steps = Executed]
  /\ pc' = "done"
  /\ UNCHANGED <<runs, round, whose, planStore, made, unsure>>

\* After genInput; the plan stays, and its first step is executed again.
ReplanFails ==
  /\ Turn("replanner")
  /\ values.result # Absent
  /\ values' = [values EXCEPT !.steps = Executed]
  /\ unsure' = [unsure EXCEPT !.replanner = @ \cup {values.plan}]
  /\ whose' = "executor"
  /\ round' = round + 1
  /\ UNCHANGED <<pc, runs, planStore, made>>

\* The loop is over without a response.
OutOfRounds ==
  /\ pc = "start" /\ round = MaxPlanRounds
  /\ pc' = "done"
  /\ UNCHANGED <<runs, planVars>>

\* The executor goes on from its own checkpoint, in the session of that time.
ResumePlan ==
  /\ planStore # <<>>
  /\ NextRun
  /\ round' = planStore[1].round
  /\ values' = planStore[1].values
  /\ whose' = "executor"
  /\ UNCHANGED <<planStore, made, unsure>>

PlanWork ==
  \/ Plan \/ PlanFails
  \/ Execute \/ ExecuteFails \/ ExecuteInterrupts
  \/ NothingExecuted \/ Replan \/ Respond \/ ReplanFails \/ OutOfRounds

-----------------------------------------------------------------------------
Steps == values.steps

(* A step is recorded with the result of its own execution, and recorded   *)
(* again only if the replanner failed after it, through failures and       *)
(* resumptions from whatever checkpoint; except that after an executor     *)
(* failed its step has the result of the one before.                       *)
StepsOwnResult ==
  \A k \in DOMAIN Steps :
    /\ Steps[k].result # Steps[k].step =>
         /\ Steps[k].step \in unsure.executor
         /\ k > 1 /\ Steps[k].result = Steps[k - 1].result
    /\ \A j \in 1 .. (k - 1) :
         Steps[j].step = Steps[k].step => Steps[k].step \in unsure.replanner

=============================================================================
