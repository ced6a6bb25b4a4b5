-------------------------- MODULE ToolsNodeProofs --------------------------
(* What holds of ToolsNode for every number of calls, both modes and any   *)
(* number of attempts: results that were saved stay, and are not computed  *)
(* again.                                                                  *)
EXTENDS ToolsNode, TLAPS

Tasks == {"todo", "running", "executed", "interrupt", "error"}

Settled(c) == task[c] \notin {"todo", "running"}

(* Why it holds: while the node runs, a saved call is executed, with the   *)
(* saved result; when it has answered or interrupted, no call is open.     *)
IInv ==
  /\ pc \in {"idle", "run"} \union Ended
  /\ task \in [Call -> Tasks]
  /\ DOMAIN saved \subseteq Call
  /\ \A c \in DOMAIN saved : saved[c] \in Nat
  /\ result \in [Call -> Nat]
  /\ started \in [Call -> Nat]
  /\ pc = "run" => \A c \in DOMAIN saved : task[c] = "executed" /\ result[c] = saved[c]
  /\ pc = "answered" => \A c \in Call : task[c] = "executed"
  /\ pc = "interrupted" => /\ \A c \in Call : Settled(c)
                           /\ DOMAIN saved = Call \ Those("interrupt")

\* A node that has not been called satisfies the invariant.
LEMMA InitInv == Init => IInv
  BY DEF Init, IInv, Tasks, NoResult, Ended, Call

\* What no step does to what is saved.
Keeps ==
  /\ \A c \in DOMAIN saved : started'[c] = started[c]
  /\ \A c \in DOMAIN saved : c \in DOMAIN saved' /\ saved'[c] = saved[c]

(* Every step keeps the invariant, adds to what is saved and takes nothing *)
(* from it, and starts no call that is saved.                              *)
LEMMA NextInv ==
  ASSUME IInv, [Next]_vars
  PROVE  IInv' /\ Keeps
<1> USE DEF IInv, Keeps, Tasks, Settled, Ended
<1>1. CASE Start
  <2>1. \A c \in Call : task'[c] = genToolCallTasks(c) BY <1>1 DEF Start
  <2>2. \A c \in Call : genToolCallTasks(c) \in Tasks BY DEF genToolCallTasks
  <2>3. task' \in [Call -> Tasks] BY <1>1, <2>2 DEF Start
  <2>4. \A c \in DOMAIN saved : task'[c] = "executed"
    BY <2>1 DEF genToolCallTasks
  <2>5. started' \in [Call -> Nat] BY <1>1 DEF Start
  <2>6. \A c \in DOMAIN saved : started'[c] = started[c]
    <3>1. started' = [c \in Call |-> started[c] + IF task'[c] = "running" THEN 1 ELSE 0]
      BY <1>1 DEF Start
    <3> QED BY <2>4, <3>1
  <2>7. /\ result' = [c \in Call |-> IF c \in DOMAIN saved THEN saved[c] ELSE 0]
        /\ saved' = saved /\ pc' = "run"
    BY <1>1 DEF Start
  <2>8. \A c \in DOMAIN saved : result'[c] = saved[c] BY <2>7
  <2>9. result' \in [Call -> Nat] BY <2>7
  <2> QED BY <2>3, <2>4, <2>5, <2>6, <2>7, <2>8, <2>9
<1>2. CASE CannotStart
  BY <1>2 DEF CannotStart, tasks
<1>3. ASSUME NEW c \in Call, Begin(c) PROVE IInv' /\ Keeps
  <2>1. /\ pc = "run" /\ pc' = pc /\ task[c] = "todo" /\ c \notin DOMAIN saved
        /\ task' = [task EXCEPT ![c] = "running"]
        /\ started' = [started EXCEPT ![c] = @ + 1]
        /\ result' = result /\ saved' = saved
    BY <1>3 DEF Begin
  <2> QED BY <2>1
<1>4. ASSUME NEW c \in Call, Succeed(c) PROVE IInv' /\ Keeps
  <2>1. /\ pc' = pc /\ task[c] = "running"
        /\ task' = [task EXCEPT ![c] = "executed"]
        /\ result' = [result EXCEPT ![c] = started[c]]
        /\ started' = started /\ saved' = saved
    BY <1>4 DEF Succeed
  <2>2. pc = "run" => c \notin DOMAIN saved BY <2>1
  <2> QED BY <2>1, <2>2
<1>5. ASSUME NEW c \in Call, GiveUp(c) PROVE IInv' /\ Keeps
  <2>1. /\ pc' = pc /\ task[c] = "running"
        /\ \E outcome \in {"interrupt", "error"} : task' = [task EXCEPT ![c] = outcome]
        /\ started' = started /\ saved' = saved /\ result' = result
    BY <1>5 DEF GiveUp, history
  <2>2. pc = "run" => c \notin DOMAIN saved BY <2>1
  <2>3. pc \notin {"answered", "interrupted"} BY <2>1
  <2> QED BY <2>1, <2>2, <2>3
<1>6. ASSUME NEW c \in Call, Panic(c) PROVE IInv' /\ Keeps
  <2>1. /\ pc' \in {pc, "failed"} /\ task[c] = "running"
        /\ task' = [task EXCEPT ![c] = "error"]
        /\ started' = started /\ saved' = saved /\ result' = result
    BY <1>6 DEF Panic
  <2>2. pc = "run" => c \notin DOMAIN saved BY <2>1
  <2>3. pc \notin {"answered", "interrupted"} BY <2>1
  <2> QED BY <2>1, <2>2, <2>3
<1>7. CASE CollectError
  BY <1>7 DEF CollectError, AllReturned, tasks
<1>8. CASE CollectInterrupt
  <2>1. /\ pc = "run" /\ pc' = "interrupted" /\ Those("error") = {}
        /\ \A c \in Call : Settled(c)
        /\ saved' = [c \in Those("executed") |-> result[c]]
        /\ task' = task /\ result' = result /\ started' = started
    BY <1>8 DEF CollectInterrupt, AllReturned, Executed, tasks, history
  <2>2. DOMAIN saved' = Those("executed") BY <2>1
  <2>3. Those("executed") = Call \ Those("interrupt")
    BY <2>1 DEF Those
  <2>4. Those("interrupt")' = Those("interrupt") BY <2>1 DEF Those
  <2>5. DOMAIN saved \subseteq Those("executed") BY <2>1 DEF Those
  <2>6. Keeps BY <2>1, <2>5
  <2> QED BY <2>1, <2>2, <2>3, <2>4, <2>6 DEF Those
<1>9. CASE CollectAnswers
  <2>1. /\ pc' = "answered" /\ \A c \in Call : Settled(c)
        /\ Those("error") = {} /\ Those("interrupt") = {}
        /\ UNCHANGED <<saved, task, result, started>>
    BY <1>9 DEF CollectAnswers, AllReturned, tasks, history
  <2>2. \A c \in Call : task[c] = "executed" BY <2>1 DEF Those
  <2> QED BY <2>1, <2>2
<1>10. CASE UNCHANGED vars
  BY <1>10 DEF vars, Those
<1> QED
  BY <1>1, <1>2, <1>3, <1>4, <1>5, <1>6, <1>7, <1>8, <1>9, <1>10
  DEF Next, Work, Collect

\* The invariant holds in every state of every sequence of attempts.
LEMMA Invariant == Spec => []IInv
<1>1. IInv /\ [Next]_vars => IInv' BY NextInv
<1> QED BY InitInv, <1>1, PTL DEF Spec

(* A tool whose result an interrupt saved is never run again, and the      *)
(* result stays, whatever the attempts after it do.                        *)
THEOREM SavedCorrect == Spec => SavedKept
<1>1. IInv /\ [Next]_vars
        => [\A c \in DOMAIN saved : /\ started'[c] = started[c]
                                    /\ c \in DOMAIN saved' /\ saved'[c] = saved[c]]_vars
  BY NextInv DEF Keeps
<1> QED BY Invariant, <1>1, PTL DEF Spec, SavedKept

(* The node answers with every result, and an interrupt keeps every result *)
(* but those of the calls that are to be run again.                        *)
THEOREM SettledCorrect == Spec => []EveryCallSettled
<1>1. IInv => EveryCallSettled BY DEF IInv, EveryCallSettled, Those
<1> QED BY Invariant, <1>1, PTL

-----------------------------------------------------------------------------
(* Why each run counts.  While nothing has failed, a call that is executed *)
(* has completed once, with its result, and any other has not; and while   *)
(* no panic has torn an attempt, tools run only while the node does.       *)
Recorded ==
  /\ failures \in Nat
  /\ pc = "failed" => failures # 0
  /\ pc = "idle" => DOMAIN saved = {} /\ \A c \in Call : task[c] = "todo"
  /\ pc = "interrupted" =>
       /\ \A c \in Call : task[c] \in {"executed", "interrupt"}
       /\ \A c \in DOMAIN saved : task[c] = "executed" /\ saved[c] = result[c]
  /\ failures = 0 => \A c \in Call, k \in Nat :
       <<c, k>> \in completed <=> task[c] = "executed" /\ k = result[c]

Attended ==
  /\ abandoned \in [Call -> Nat]
  /\ ~torn => /\ \A c \in Call : abandoned[c] = 0
              /\ pc # "run" => \A c \in Call : task[c] # "running"

\* Nothing has run, and nothing runs, before the first attempt.
LEMMA InitRuns == Init => Recorded /\ Attended
  BY DEF Init, Recorded, Attended, NoResult

\* No step completes a call twice while nothing has failed.
LEMMA NextRecorded ==
  ASSUME IInv, Recorded, [Next]_vars
  PROVE  Recorded'
<1> USE DEF Recorded, IInv, Tasks
<1>1. CASE Start
  <2>1. /\ pc \in {"idle", "interrupted", "failed"} /\ pc' = "run"
        /\ task' = [c \in Call |-> genToolCallTasks(c)]
        /\ result' = [c \in Call |-> IF c \in DOMAIN saved THEN saved[c] ELSE 0]
        /\ UNCHANGED <<saved, completed, failures>>
    BY <1>1 DEF Start
  <2>2. \A c \in Call : /\ task'[c] = "executed" <=> c \in DOMAIN saved
                        /\ c \in DOMAIN saved => result'[c] = saved[c]
    BY <2>1 DEF genToolCallTasks
  <2>3. CASE failures = 0
    <3>1. \A c \in Call : c \in DOMAIN saved <=> task[c] = "executed"
      BY <2>1, <2>3 DEF Those, Ended
    <3>2. \A c \in DOMAIN saved : saved[c] = result[c]
      BY <2>1, <2>3
    <3> QED BY <2>1, <2>2, <2>3, <3>1, <3>2
  <2> QED BY <2>1, <2>3
<1>2. CASE CannotStart
  BY <1>2 DEF CannotStart, tasks
<1>3. ASSUME NEW c \in Call, Begin(c) PROVE Recorded'
  BY <1>3 DEF Begin
<1>4. ASSUME NEW c \in Call, Succeed(c) PROVE Recorded'
  <2>1. /\ task[c] = "running" /\ pc' = pc
        /\ task' = [task EXCEPT ![c] = "executed"]
        /\ result' = [result EXCEPT ![c] = started[c]]
        /\ completed' = completed \union {<<c, started[c]>>}
        /\ UNCHANGED <<saved, failures>>
    BY <1>4 DEF Succeed
  <2>2. /\ task'[c] = "executed" /\ result'[c] = started[c]
        /\ \A d \in Call : d # c => task'[d] = task[d] /\ result'[d] = result[d]
    BY <2>1
  <2>3. failures = 0 => \A d \in Call, k \in Nat :
          <<d, k>> \in completed' <=> task'[d] = "executed" /\ k = result'[d]
    BY <2>1, <2>2
  <2>4. pc \notin {"idle", "interrupted"}
    BY <2>1
  <2> QED BY <2>1, <2>3, <2>4
<1>5. ASSUME NEW c \in Call, GiveUp(c) PROVE Recorded'
  <2>1. /\ task[c] = "running" /\ pc' = pc
        /\ \E o \in {"interrupt", "error"} : task' = [task EXCEPT ![c] = o]
        /\ UNCHANGED <<saved, result, completed, failures>>
    BY <1>5 DEF GiveUp, history
  <2>2. pc \notin {"idle", "interrupted"}
    BY <2>1
  <2> QED BY <2>1, <2>2
<1>6. ASSUME NEW c \in Call, Panic(c) PROVE Recorded'
  <2>1. /\ task[c] = "running" /\ task' = [task EXCEPT ![c] = "error"]
        /\ \/ pc' = pc /\ failures' = failures
           \/ pc' = "failed" /\ failures' = failures + 1
        /\ UNCHANGED <<saved, result, completed>>
    BY <1>6 DEF Panic
  <2>2. pc \notin {"idle", "interrupted"}
    BY <2>1
  <2> QED BY <2>1, <2>2
<1>7. CASE CollectError
  BY <1>7 DEF CollectError, tasks
<1>8. CASE CollectInterrupt
  <2>1. /\ pc' = "interrupted" /\ \A c \in Call : Settled(c)
        /\ Those("error") = {}
        /\ saved' = [c \in Those("executed") |-> result[c]]
        /\ UNCHANGED <<task, result, completed, failures>>
    BY <1>8 DEF CollectInterrupt, AllReturned, Executed, tasks, history, Settled
  <2>2. \A c \in Call : task[c] \in {"executed", "interrupt"}
    BY <2>1 DEF Those, Settled
  <2> QED BY <2>1, <2>2 DEF Those
<1>9. CASE CollectAnswers
  BY <1>9 DEF CollectAnswers, tasks, history
<1>10. CASE UNCHANGED vars
  BY <1>10 DEF vars
<1> QED
  BY <1>1, <1>2, <1>3, <1>4, <1>5, <1>6, <1>7, <1>8, <1>9, <1>10
  DEF Next, Work, Collect

\* No step leaves a tool behind, unless the panic of the caller's own call does.
LEMMA NextAttended ==
  ASSUME IInv, Recorded, Attended, [Next]_vars
  PROVE  Attended'
<1> USE DEF Attended, IInv, Tasks
<1>1. CASE Start
  <2>1. /\ pc # "run" /\ pc' = "run" /\ torn' = torn
        /\ abandoned' = [c \in Call |-> abandoned[c] + IF task[c] = "running" THEN 1 ELSE 0]
    BY <1>1 DEF Start
  <2> QED BY <2>1
<1>2. CASE CannotStart
  BY <1>2 DEF CannotStart, tasks
<1>3. ASSUME NEW c \in Call, Begin(c) \/ Succeed(c) \/ GiveUp(c) PROVE Attended'
  BY <1>3 DEF Begin, Succeed, GiveUp, history
<1>4. ASSUME NEW c \in Call, Panic(c) PROVE Attended'
  <2>1. /\ task' = [task EXCEPT ![c] = "error"] /\ abandoned' = abandoned
        /\ \/ pc' = pc /\ torn' = torn
           \/ torn' = (torn \/ \E d \in Call \ {c} : task[d] = "running")
    BY <1>4 DEF Panic
  <2> QED BY <2>1
<1>5. CASE Collect
  <2>1. /\ \A c \in Call : task[c] # "running"
        /\ UNCHANGED <<task, abandoned, torn>>
    BY <1>5 DEF Collect, CollectError, CollectInterrupt, CollectAnswers, AllReturned,
                tasks, history
  <2> QED BY <2>1
<1>6. CASE UNCHANGED vars
  BY <1>6 DEF vars
<1> QED
  BY <1>1, <1>2, <1>3, <1>4, <1>5, <1>6 DEF Next, Work

(* Each run of a tool counts, for any number of calls and attempts: while  *)
(* nothing fails each tool completes once over all resumptions, and no tool*)
(* goes on behind the back of the node unless its caller's call panicked.  *)
THEOREM RunsCorrect == Spec => []EachRunCounts
<1>1. IInv /\ Recorded /\ Attended => EachRunCounts
  <2> SUFFICES ASSUME IInv, Recorded, Attended PROVE EachRunCounts
    OBVIOUS
  <2>1. \A k \in 1 .. MaxAttempts : k \in Nat
    OBVIOUS
  <2>2. EachRanOnce
    BY <2>1 DEF EachRanOnce, IInv, Recorded
  <2>3. OnlyAPanicAbandons
    BY DEF OnlyAPanicAbandons, Attended
  <2> QED BY <2>2, <2>3 DEF EachRunCounts
<1>2. IInv /\ Recorded /\ Attended /\ [Next]_vars => Recorded' /\ Attended'
  BY NextRecorded, NextAttended
<1> QED BY Invariant, InitRuns, <1>1, <1>2, PTL DEF Spec

=============================================================================
