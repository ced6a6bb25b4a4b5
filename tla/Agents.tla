------------------------------- MODULE Agents -------------------------------
(***************************************************************************)
(* One agent of the kit, of any kind: the workflows of src/adk/workflow.go *)
(* (whose Run and Resume pick the kind by the mode of the agent), the      *)
(* agents that loop between a model and its tools, a tree of agents under  *)
(* a Runner, the plan-execute-replan agent, an agent with the middlewares  *)
(* for results of tools, and a retriever of retrievers that agents use.    *)
(***************************************************************************)
EXTENDS SequenceAgent, ParallelAgent, ReactAgent, AgentFlow, PlanExecute, ToolFiles, Retrieval

vars == <<workflowVars, sequenceVars, parallelVars, reactVars, flowVars, planVars,
          fileVars, retrievalVars>>

Init == WorkflowInit /\ SequenceInit /\ ParallelInit /\ ReactInit /\ FlowInit /\ PlanInit
        /\ FilesInit /\ RetrievalInit

Sequence(A) ==
  /\ mode \in {"sequential", "loop"}
  /\ A
  /\ UNCHANGED <<mode, parallelVars, reactVars, flowVars, planVars, fileVars, retrievalVars>>

Parallel(A) ==
  /\ mode = "parallel"
  /\ A
  /\ UNCHANGED <<mode, sequenceVars, reactVars, flowVars, planVars, fileVars, retrievalVars>>

React(A) ==
  /\ mode \in {"adk_react", "flow_react"}
  /\ A
  /\ UNCHANGED <<mode, sequenceVars, parallelVars, flowVars, planVars, fileVars, retrievalVars>>

Flow(A) ==
  /\ mode = "flow"
  /\ A
  /\ UNCHANGED <<mode, sequenceVars, parallelVars, reactVars, planVars, fileVars, retrievalVars>>

Planning(A) ==
  /\ mode = "plan"
  /\ A
  /\ UNCHANGED <<mode, sequenceVars, parallelVars, reactVars, flowVars, fileVars, retrievalVars>>

Offloading(A) ==
  /\ mode = "files"
  /\ A
  /\ UNCHANGED <<mode, sequenceVars, parallelVars, reactVars, flowVars, planVars, retrievalVars>>

Retrieving(A) ==
  /\ Retrieves
  /\ A
  /\ UNCHANGED <<mode, sequenceVars, parallelVars, reactVars, flowVars, planVars, fileVars>>

Next ==
  \/ Sequence(SequenceWork) \/ Sequence(ResumeSequence)
  \/ Parallel(ParallelWork) \/ Parallel(ResumeParallel)
  \/ \E a \in Agent : Parallel(LaneWork(a))
  \/ React(ReactWork) \/ React(ResumeReact)
  \/ Flow(FlowWork) \/ Flow(ResumeFlow)
  \/ Planning(PlanWork) \/ Planning(ResumePlan)
  \/ Offloading(FilesWork)
  \/ Retrieving(RetrievalWork)

\* Sub-agents, models and tools end, and so do iterators; every goroutine goes on.
Fairness ==
  /\ WF_vars(Sequence(SequenceWork))
  /\ WF_vars(Parallel(ParallelWork))
  /\ \A a \in Agent : WF_vars(Parallel(LaneWork(a)))
  /\ WF_vars(React(ReactWork))
  /\ WF_vars(Flow(FlowWork))
  /\ WF_vars(Planning(PlanWork))
  /\ WF_vars(Offloading(FilesWork))
  /\ WF_vars(Retrieving(RetrievalWork))

Spec == Init /\ [][Next]_vars /\ Fairness

-----------------------------------------------------------------------------
\* Every run of an agent ends: of a workflow with a bounded number of rounds,
\* although a sub-agent may fail, interrupt or send nothing (workflow.go:158-262,
\* 296-408, 410-534); of an agent whose model always calls tools, because its
\* turns are limited; of a Runner, although its checkpoint may not be saved,
\* unless its agents keep handing over to each other.
RunsEnd == []<>(pc \in Over \/ HandedOverAgain)

=============================================================================
