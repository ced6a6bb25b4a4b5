------------------------------ MODULE Workflow ------------------------------
(***************************************************************************)
(* What the agents of src/adk have in common: the goroutine that Run or    *)
(* Resume starts, and the client that resumes an interrupt with the state  *)
(* it saved.  The agent keeps one mode for good.                           *)
(***************************************************************************)
EXTENDS Naturals, Sequences, SequencesExt

CONSTANTS
  Modes,   \* the kinds of agent there may be
  MaxRuns  \* bound: the first run and its resumptions

ASSUME WorkflowAssumption == MaxRuns \in Nat

VARIABLES
  mode,  \* the kind of agent
  pc,    \* "start", at work ("read" or "run"), or how the run ended
  runs   \* runs so far

workflowVars == <<mode, pc, runs>>

WorkflowInit ==
  /\ mode \in Modes
  /\ pc = "start"
  /\ runs = 1

\* Resume, with the state of the interrupt.
NextRun ==
  /\ pc = "interrupted"
  /\ runs < MaxRuns
  /\ pc' = "start"
  /\ runs' = runs + 1

Over == {"done", "failed", "interrupted"}

\* The sum of a sequence of numbers.
SumOf(ns) == LET sum[k \in 0 .. Len(ns)] == IF k = 0 THEN 0 ELSE sum[k - 1] + ns[k]
             IN sum[Len(ns)]

=============================================================================
