--------------------------- MODULE GraphRunProofs ---------------------------
(***************************************************************************)
(* Proofs about GraphChannels and GraphRun for every graph and every       *)
(* setting of the constants.                                               *)
(***************************************************************************)
EXTENDS GraphRunInv, TLAPS

USE GraphAssumption, RunAssumption

(***************************************************************************)
(* The channel operators return channels.                                  *)
(***************************************************************************)

\* reportValues returns channels.
LEMMA ReportValuesType ==
  ASSUME NEW c \in Channels, NEW W
  PROVE  ReportValues(c, W) \in Channels
  BY DEF ReportValues, Channels, DataEdges

\* reportDependencies returns channels.
LEMMA ReportDependenciesType ==
  ASSUME NEW c \in Channels, NEW D
  PROVE  ReportDependencies(c, D) \in Channels
  BY DEF ReportDependencies, Channels, ControlEdges

\* reportSkip returns channels.
LEMMA ReportSkipType ==
  ASSUME NEW c \in Channels, NEW K
  PROVE  ReportSkip(c, K) \in Channels
  BY DEF ReportSkip, Channels, ControlEdges, DataEdges

\* The update of the channels by completed tasks returns channels.
LEMMA UpdateChannelsType ==
  ASSUME NEW c \in Channels, NEW T, NEW p
  PROVE  UpdateChannels(c, T, p) \in Channels
  <1>1. ReportBranch(c, Unselected(T, p)) \in Channels
    BY ReportSkipType DEF ReportBranch
  <1>2. QED
    BY <1>1, ReportValuesType, ReportDependenciesType DEF UpdateChannels

\* Emptying the ready channels returns channels.
LEMMA TakeReadyType ==
  ASSUME NEW c \in Channels
  PROVE  TakeReady(c) \in Channels
  BY DEF TakeReady, Channels, Without

\* The ready channels are channels of the graph, and those other than END
\* belong to nodes.
LEMMA ReadyChannelsType ==
  ASSUME NEW c
  PROVE  /\ ReadyChannels(c) \subseteq Dst
         /\ ReadyChannels(c) \ {END} \subseteq Node
  BY DEF ReadyChannels, Dst

\* The branches of a task select successors.
LEMMA SelectionsType ==
  ASSUME NEW t \in Src, NEW sel \in Selections(t)
  PROVE  sel \in SUBSET Dst
  <1>1. BranchEnds(t) \subseteq Dst
    BY DEF BranchEnds, Branch
  <1>2. PICK g \in [Branches[t] -> SUBSET BranchEnds(t)] :
           sel = UNION {g[b] : b \in Branches[t]}
    BY DEF Selections
  <1>3. QED
    BY <1>1, <1>2

\* Recording a resolution keeps the history well typed.
LEMMA RecordType ==
  ASSUME NEW h \in History, NEW c \in Channels, NEW T, NEW R \in SUBSET Node,
         pick \in [Src -> SUBSET Dst]
  PROVE  Record(h, c, T, R) \in History
  <1>1. [n \in Node |-> IF n \in T /\ h.times[n] < 2
                        THEN h.times[n] + 1 ELSE h.times[n]] \in [Node -> 0 .. 2]
    BY DEF History
  <1>2. [n \in Node |-> IF n \in R THEN Preds(c.vals, n) ELSE h.fed[n]]
          \in [Node -> SUBSET Src]
    BY DEF History, Preds
  <1>3. [s \in Src |-> IF s \in T THEN pick[s] ELSE h.chosen[s]] \in [Src -> SUBSET Dst]
    BY DEF History
  <1>4. h.taken \union R \in SUBSET Node /\ (h.owed \ T) \union R \in SUBSET Node
    BY DEF History
  <1>5. QED
    BY <1>1, <1>2, <1>3, <1>4 DEF Record, History

(***************************************************************************)
(* The type invariant.                                                     *)
(***************************************************************************)

\* calculateNextTasks keeps channels, inputs and history well typed.
LEMMA CalculateType ==
  ASSUME TypeOK, NEW T, NEW chs \in Channels, NEW ready \in SUBSET Dst,
         Calculate(T, chs, ready)
  PROVE  /\ chan' \in Channels
         /\ input' \in [Node -> SUBSET Src]
         /\ hist' \in History
  <1>1. chan' \in Channels
    BY TakeReadyType DEF Calculate
  <1>2. input' \in [Node -> SUBSET Src]
    BY DEF Calculate, TypeOK, Preds
  <1>3. ready \ {END} \in SUBSET Node
    BY DEF Dst
  <1>4. hist' \in History
    BY <1>3, RecordType DEF Calculate, TypeOK
  <1>5. QED
    BY <1>1, <1>2, <1>4

\* Stop sets pc and result to values of their types.
LEMMA StopType ==
  ASSUME NEW r \in Result, Stop(r)
  PROVE  pc' \in PC /\ result' \in Result
  BY DEF Stop, PC

\* handleInterrupt and its variant for rerun nodes write a checkpoint.
LEMMA CheckpointType ==
  ASSUME NEW c \in Channels, NEW t \in SUBSET Node, NEW i \in [Node -> SUBSET Src],
         NEW r \in SUBSET Node, NEW b \in SUBSET Node, NEW a \in SUBSET Node,
         NEW h \in History
  PROVE  Checkpoint(c, t, i, r, b, a, h) \in Checkpoints
  BY DEF Checkpoint, Checkpoints

\* The rerun interrupt keeps the variables it changes well typed.
LEMMA RerunType ==
  ASSUME TypeOK, NEW T \in SUBSET Node, HandleInterruptWithRerun(T)
  PROVE  /\ pc' \in PC /\ result' \in Result
         /\ chan' \in Channels
         /\ input' \in [Node -> SUBSET Src]
         /\ hist' \in History
         /\ saved' = NoCheckpoint \/ saved' \in Checkpoints
  <1> DEFINE others == Succeeded(T) \ timedOut
  <1>1. CASE BranchFails(others)
    BY <1>1 DEF HandleInterruptWithRerun, TypeOK, Stop, PC, Result
  <1>2. CASE ~BranchFails(others)
    <2>1. chan' = Updated(others) /\ UNCHANGED input /\ Stop("interrupt")
      BY <1>2 DEF HandleInterruptWithRerun
    <2>2. Updated(others) \in Channels
      BY UpdateChannelsType DEF Updated, TypeOK
    <2>3. hist' = Record(hist, chan', others, {})
      BY <1>2 DEF HandleInterruptWithRerun
    <2>4. hist' \in History
      BY <2>1, <2>2, <2>3, RecordType DEF TypeOK
    <2>5. /\ Interrupted(T) \union timedOut \in SUBSET Node
          /\ after \union (Succeeded(more) \intersect InterruptAfter) \in SUBSET Node
      BY DEF Interrupted, Succeeded, TypeOK
    <2>6. saved' = Checkpoint(chan', {}, input, Interrupted(T) \union timedOut, before,
                     after \union (Succeeded(more) \intersect InterruptAfter), hist')
      BY <1>2 DEF HandleInterruptWithRerun
    <2>7. saved' \in Checkpoints
      BY <2>1, <2>2, <2>4, <2>5, <2>6, CheckpointType DEF TypeOK
    <2>8. QED
      BY <2>1, <2>2, <2>4, <2>7 DEF TypeOK, Stop, PC, Result
  <1>3. QED
    BY <1>1, <1>2

\* The tasks a step completes and the successors of the hits are nodes.
LEMMA HitsType ==
  ASSUME TypeOK
  PROVE  AfterHits \in SUBSET Node
  BY DEF AfterHits, Succeeded, TypeOK

\* The initial states are well typed.
THEOREM InitType == Init => TypeOK
  <1> SUFFICES ASSUME Init PROVE TypeOK
    OBVIOUS
  <1>1. InitChannels \in Channels
    BY DEF InitChannels, Channels
  <1>2. NoHistory \in History
    BY DEF NoHistory, History
  <1>3. pick \in [Src -> SUBSET Dst]
    <2>1. PICK sel \in Selections(START) :
            pick = [s \in Src |-> IF s = START THEN sel ELSE {}]
      BY DEF Init
    <2>2. sel \in SUBSET Dst
      BY SelectionsType DEF Src
    <2>3. QED
      BY <2>1, <2>2
  <1>4. QED
    BY <1>1, <1>2, <1>3 DEF Init, TypeOK, PC, Result, Waiting, Outcome

\* Every step keeps the types.
THEOREM NextType == TypeOK /\ [Next]_vars => TypeOK'
  <1> SUFFICES ASSUME TypeOK, [Next]_vars PROVE TypeOK'
    OBVIOUS
  <1> USE DEF loopVars, taskVars, cancelVars, roundVars, callVars
  <1>1. CASE Start
    <2> DEFINE chs == Updated({START})
               ready == ReadyChannels(chs)
    <2>1. chs \in Channels /\ ready \in SUBSET Dst /\ ready \ {END} \in SUBSET Node
      BY UpdateChannelsType, ReadyChannelsType DEF Updated, TypeOK
    <2>2. Calculate({START}, chs, ready) /\ next' = ready \ {END} /\ runs' = 1
      BY <1>1 DEF Start
    <2>3. chan' \in Channels /\ input' \in [Node -> SUBSET Src] /\ hist' \in History
      <3> HIDE DEF chs, ready
      <3>1. QED
        BY <2>1, <2>2, CalculateType
    <2>4. pc' \in PC /\ result' \in Result /\ (saved' = NoCheckpoint \/ saved' \in Checkpoints)
      <3>1. CASE END \in ready
        BY <1>1, <3>1, StopType DEF Start, Stop, PC, Result, TypeOK
      <3>2. CASE END \notin ready /\ ready = {}
        BY <1>1, <3>2 DEF Start, Stop, PC, Result, TypeOK
      <3>3. CASE END \notin ready /\ ready # {} /\ ready \intersect InterruptBefore # {}
        <4>1. HandleInterrupt(ready, ready \intersect InterruptBefore, {})
          BY <1>1, <3>3 DEF Start
        <4>2. ready \in SUBSET Node
          BY <2>1, <3>3
        <4> HIDE DEF chs, ready
        <4>3. saved' \in Checkpoints
          BY <4>1, <4>2, <2>3, CheckpointType DEF HandleInterrupt
        <4>4. QED
          BY <4>1, <4>3 DEF HandleInterrupt, Stop, PC, Result
      <3>4. CASE END \notin ready /\ ready # {} /\ ready \intersect InterruptBefore = {}
        BY <1>1, <3>4 DEF Start, PC, TypeOK
      <3>5. QED
        BY <3>1, <3>2, <3>3, <3>4
    <2>5. UNCHANGED <<step, taskVars, cancelVars, roundVars, faults>>
      BY <1>1 DEF Start
    <2>6. next' \in SUBSET Node
      BY <2>1, <2>2
    <2> HIDE DEF chs, ready
    <2>7. QED
      BY <2>2, <2>3, <2>4, <2>5, <2>6 DEF TypeOK
  <1>2. CASE LoopAborts \/ Aborted \/ ExceedMaxSteps \/ NoTaskLeft \/ ResolveError
    BY <1>2 DEF TypeOK, LoopAborts, Aborted, ExceedMaxSteps, NoTaskLeft, ResolveError,
                Stop, PC, Result, Waiting
  <1>3. CASE Submit
    BY <1>3 DEF TypeOK, Submit, PC, Waiting, Outcome
  <1>4. CASE ResolveInterrupted
    BY <1>4, HitsType DEF TypeOK, ResolveInterrupted, PC, Waiting
  <1>5. CASE ResolveCompleted
    <2> DEFINE chs == Updated(got)
               ready == ReadyChannels(chs)
               hits == ready \intersect InterruptBefore
    <2>1. chs \in Channels /\ ready \in SUBSET Dst /\ ready \ {END} \in SUBSET Node
      BY UpdateChannelsType, ReadyChannelsType DEF Updated, TypeOK
    <2>2. /\ Calculate(got, chs, ready) /\ next' = ready \ {END}
          /\ before' = hits /\ after' = AfterHits
      BY <1>5 DEF ResolveCompleted
    <2>3. chan' \in Channels /\ input' \in [Node -> SUBSET Src] /\ hist' \in History
      <3> HIDE DEF chs, ready
      <3>1. QED
        BY <2>1, <2>2, CalculateType
    <2>4. pc' \in PC /\ result' \in Result /\ step' \in Nat
      <3>1. CASE END \in ready
        BY <1>5, <3>1 DEF ResolveCompleted, Stop, PC, Result, TypeOK
      <3>2. CASE END \notin ready /\ hits \union AfterHits # {}
        BY <1>5, <3>2 DEF ResolveCompleted, PC, Waiting, TypeOK
      <3>3. CASE END \notin ready /\ hits \union AfterHits = {}
        BY <1>5, <3>3 DEF ResolveCompleted, PC, TypeOK
      <3>4. QED
        BY <3>1, <3>2, <3>3
    <2>5. UNCHANGED <<taskVars, cancelVars, got, more, timedOut, saved, runs, faults>>
      BY <1>5 DEF ResolveCompleted
    <2>6. next' \in SUBSET Node /\ before' \in SUBSET Node /\ after' \in SUBSET Node
      BY <2>1, <2>2, HitsType
    <2> HIDE DEF chs, ready, hits
    <2>7. QED
      BY <2>3, <2>4, <2>5, <2>6 DEF TypeOK
  <1>6. CASE SaveRerun
    <2>1. UNCHANGED <<step, next, taskVars, cancelVars, roundVars, runs, faults>>
      BY <1>6 DEF SaveRerun
    <2>2. CASE \E n \in more : out[n] = "err"
      BY <1>6, <2>1, <2>2 DEF SaveRerun, Stop, TypeOK, PC, Result
    <2>3. CASE ~ \E n \in more : out[n] = "err"
      <3>1. HandleInterruptWithRerun(got \union more)
        BY <1>6, <2>3 DEF SaveRerun
      <3>2. got \union more \in SUBSET Node
        BY DEF TypeOK
      <3>3. QED
        BY <2>1, <3>1, <3>2, RerunType DEF TypeOK
    <2>4. QED
      BY <2>2, <2>3
  <1>7. CASE SaveHit
    <2> DEFINE chs == Updated(more)
               ready == ReadyChannels(chs)
    <2>1. UNCHANGED <<step, taskVars, cancelVars, roundVars, runs, faults>>
      BY <1>7 DEF SaveHit
    <2>2. CASE \E n \in more : out[n] = "err"
      BY <1>7, <2>1, <2>2 DEF SaveHit, Stop, TypeOK, PC, Result
    <2>3. CASE (\A n \in more : out[n] # "err") /\ Interrupted(more) \union timedOut # {}
      <3>1. HandleInterruptWithRerun(got \union more) /\ UNCHANGED next
        BY <1>7, <2>3 DEF SaveHit
      <3>2. got \union more \in SUBSET Node
        BY DEF TypeOK
      <3>3. QED
        BY <2>1, <3>1, <3>2, RerunType DEF TypeOK
    <2>4. CASE (\A n \in more : out[n] # "err") /\ Interrupted(more) \union timedOut = {}
               /\ BranchFails(more)
      BY <1>7, <2>1, <2>4 DEF SaveHit, Stop, TypeOK, PC, Result
    <2>5. CASE (\A n \in more : out[n] # "err") /\ Interrupted(more) \union timedOut = {}
               /\ ~BranchFails(more)
      <3>1. chs \in Channels /\ ready \in SUBSET Dst /\ ready \ {END} \in SUBSET Node
        BY UpdateChannelsType, ReadyChannelsType DEF Updated, TypeOK
      <3>2. Calculate(more, chs, ready) /\ next' = next \union (ready \ {END})
        BY <1>7, <2>5 DEF SaveHit
      <3>3. chan' \in Channels /\ input' \in [Node -> SUBSET Src] /\ hist' \in History
        <4> HIDE DEF chs, ready
        <4>1. QED
          BY <3>1, <3>2, CalculateType
      <3>4. next' \in SUBSET Node
        BY <3>1, <3>2 DEF TypeOK
      <3>5. pc' \in PC /\ result' \in Result /\ (saved' = NoCheckpoint \/ saved' \in Checkpoints)
        <4>1. CASE END \in ready
          BY <1>7, <2>5, <4>1 DEF SaveHit, Stop, PC, Result, TypeOK
        <4>2. CASE END \notin ready
          <5> DEFINE b == before \union (ready \intersect InterruptBefore)
                     a == after \union (more \intersect InterruptAfter)
          <5>1. HandleInterrupt(next', b, a)
            BY <1>7, <2>5, <4>2 DEF SaveHit
          <5>2. b \in SUBSET Node /\ a \in SUBSET Node
            BY DEF TypeOK
          <5> HIDE DEF a, b, chs, ready
          <5>3. saved' \in Checkpoints
            BY <5>1, <5>2, <3>3, <3>4, CheckpointType DEF HandleInterrupt
          <5>4. QED
            BY <5>1, <5>3 DEF HandleInterrupt, Stop, PC, Result
        <4>3. QED
          BY <4>1, <4>2
      <3> HIDE DEF chs, ready
      <3>6. QED
        BY <2>1, <3>3, <3>4, <3>5 DEF TypeOK
    <2>6. QED
      BY <2>2, <2>3, <2>4, <2>5
  <1>8. CASE Resume
    <2>1. saved \in Checkpoints
      BY <1>8 DEF Resume, TypeOK, NoCheckpoint
    <2>2. /\ saved.chan \in Channels /\ saved.inputs \in SUBSET Node
          /\ saved.rerun \in SUBSET Node /\ saved.input \in [Node -> SUBSET Src]
          /\ saved.hist \in History
      BY <2>1 DEF Checkpoints
    <2>3. saved.hist.chosen \in [Src -> SUBSET Dst]
      BY <2>2 DEF History
    <2>4. input' \in [Node -> SUBSET Src] /\ out' \in [Node -> Outcome]
      BY <1>8, <2>2 DEF Resume, Outcome
    <2>5. next' \subseteq Node /\ running' \subseteq Node /\ runs' \in Nat /\ step' \in Nat
      BY <1>8, <2>2 DEF Resume, TypeOK
    <2>6. /\ chan' \in Channels /\ pick' \in [Src -> SUBSET Dst] /\ hist' \in History
          /\ saved' \in Checkpoints /\ faults' \in Nat
      BY <1>8, <2>1, <2>2, <2>3 DEF Resume, TypeOK
    <2>7. /\ pc' \in PC /\ result' \in Result
          /\ canceled' = FALSE /\ deadline' = FALSE /\ ctxDone' = FALSE /\ cancelCh' = "open"
          /\ got' = {} /\ more' = {} /\ timedOut' = {} /\ before' = {} /\ after' = {}
      BY <1>8 DEF Resume, PC, Result
    <2>8. QED
      BY <2>4, <2>5, <2>6, <2>7 DEF TypeOK
  <1>9. CASE SeeCancel
    BY <1>9 DEF TypeOK, SeeCancel
  <1>10. CASE Expire
    BY <1>10 DEF TypeOK, Expire, Drained, PC, Waiting
  <1>11. ASSUME NEW n \in Node, Receive(n) PROVE TypeOK'
    BY <1>11 DEF TypeOK, Receive, Drained, PC, Waiting
  <1>12. ASSUME NEW n \in Node, Finish(n) PROVE TypeOK'
    <2>1. UNCHANGED <<loopVars, running, cancelVars, roundVars, saved, runs, hist>>
      BY <1>12 DEF Finish
    <2>2. out' \in [Node -> Outcome]
      BY <1>12 DEF Finish, TypeOK, Outcome
    <2>3. faults' \in Nat
      BY <1>12 DEF Finish, TypeOK
    <2>4. pick' \in [Src -> SUBSET Dst]
      <3>1. CASE UNCHANGED pick
        BY <3>1 DEF TypeOK
      <3>2. CASE \E sel \in Selections(n) : pick' = [pick EXCEPT ![n] = sel]
        BY <3>2, SelectionsType DEF TypeOK, Src
      <3>3. QED
        BY <1>12, <3>1, <3>2 DEF Finish
    <2>5. QED
      BY <2>1, <2>2, <2>3, <2>4 DEF TypeOK
  <1>13. CASE CallInterrupt
    BY <1>13 DEF TypeOK, CallInterrupt
  <1>14. CASE CancelContext
    BY <1>14 DEF TypeOK, CancelContext
  <1>15. CASE UNCHANGED vars
    BY <1>15 DEF TypeOK, vars
  <1>16. QED
    BY <1>1, <1>2, <1>3, <1>4, <1>5, <1>6, <1>7, <1>8, <1>9, <1>10, <1>11, <1>12,
       <1>13, <1>14, <1>15 DEF Next, Loop, Stopped

\* Every behaviour of every graph keeps the variables of run, the stored
\* checkpoint and the channels within their types.
THEOREM TypeCorrect == Spec => []TypeOK
  BY InitType, NextType, PTL DEF Spec

(***************************************************************************)
(* Nodes to interrupt before and after.                                    *)
(***************************************************************************)

\* A resolution counts only the nodes it resolves.
LEMMA RecordTimes ==
  ASSUME NEW h, NEW c, NEW T, NEW R, NEW n \in Node, n \notin T
  PROVE  Record(h, c, T, R).times[n] = h.times[n]
  BY DEF Record

\* HitsAccounted holds initially.
THEOREM InitHits == Init => HitsAccounted
  BY DEF Init, HitsAccounted, BeforeHonoured, NoCheckpoint, NoHistory

\* Every step preserves HitsAccounted.
THEOREM NextHits == TypeOK /\ HitsAccounted /\ [Next]_vars => HitsAccounted'
  <1> SUFFICES ASSUME TypeOK, HitsAccounted, [Next]_vars PROVE HitsAccounted'
    OBVIOUS
  <1> USE DEF loopVars, taskVars, cancelVars, roundVars, callVars
  <1>1. CASE Start
    <2> DEFINE chs == Updated({START})
               ready == ReadyChannels(chs)
    <2>1. /\ pc = "idle" /\ running' = {} /\ UNCHANGED <<before>>
          /\ Calculate({START}, chs, ready) /\ next' = ready \ {END}
      BY <1>1 DEF Start, HitsAccounted
    <2>2. \A n \in Node : hist'.times[n] = hist.times[n]
      BY <2>1, RecordTimes, GraphAssumption DEF Calculate, Dst
    <2> HIDE DEF chs, ready
    <2>3. CASE pc' = "loop"
      <3>1. ready \intersect InterruptBefore = {} /\ UNCHANGED saved
        BY <1>1, <2>3 DEF Start, Stop, HandleInterrupt, chs, ready
      <3>2. QED
        BY <2>1, <2>2, <2>3, <3>1 DEF HitsAccounted, BeforeHonoured
    <2>4. CASE pc' # "loop"
      <3>1. pc' = "stopped"
        BY <1>1, <2>4 DEF Start, Stop, HandleInterrupt
      <3>2. \/ UNCHANGED saved
            \/ HandleInterrupt(ready, ready \intersect InterruptBefore, {})
        BY <1>1, <2>4 DEF Start, chs, ready
      <3>3. \/ UNCHANGED saved
            \/ /\ saved'.inputs = ready
               /\ saved'.before = ready \intersect InterruptBefore
        BY <3>2 DEF HandleInterrupt, Checkpoint
      <3>4. QED
        BY <2>1, <3>1, <3>3 DEF HitsAccounted, BeforeHonoured
    <2>5. QED
      BY <2>3, <2>4
  <1>2. CASE LoopAborts \/ Aborted \/ ExceedMaxSteps \/ NoTaskLeft \/ ResolveError
    BY <1>2 DEF HitsAccounted, BeforeHonoured, LoopAborts, Aborted, ExceedMaxSteps,
                NoTaskLeft, ResolveError, Stop
  <1>3. CASE Submit
    BY <1>3 DEF HitsAccounted, BeforeHonoured, Submit
  <1>4. CASE ResolveInterrupted
    <2>1. pc' \in {"saveRerun", "drainRerun"} /\ (pc' = "saveRerun" => running = {})
      BY <1>4 DEF ResolveInterrupted
    <2>2. UNCHANGED <<running, next, saved, before, hist>>
      BY <1>4 DEF ResolveInterrupted
    <2>3. QED
      BY <2>1, <2>2 DEF HitsAccounted, BeforeHonoured
  <1>5. CASE ResolveCompleted
    <2> DEFINE chs == Updated(got)
               ready == ReadyChannels(chs)
               hits == ready \intersect InterruptBefore
    <2>1. /\ pc = "resolve" /\ UNCHANGED <<running, saved>>
          /\ Calculate(got, chs, ready) /\ next' = ready \ {END}
          /\ before' = hits /\ got = Succeeded(got)
      BY <1>5 DEF ResolveCompleted
    <2>2. CASE pc' = "loop"
      <3>1. hits \union AfterHits = {}
        BY <1>5, <2>2 DEF ResolveCompleted, Stop
      <3>2. got \intersect InterruptAfter = {}
        BY <2>1, <3>1 DEF AfterHits
      <3>3. \A n \in InterruptAfter : hist'.times[n] = hist.times[n]
        BY <2>1, <3>2, RecordTimes, RunAssumption DEF Calculate
      <3> HIDE DEF chs, ready
      <3>4. QED
        BY <2>1, <2>2, <3>1, <3>3 DEF HitsAccounted, BeforeHonoured
    <2>3. CASE pc' # "loop"
      <3>1. pc' \in {"stopped", "saveHit", "drainHit"} /\ (pc' = "saveHit" => running = {})
        BY <1>5, <2>3 DEF ResolveCompleted, Stop
      <3> HIDE DEF chs, ready
      <3>2. QED
        BY <2>1, <3>1 DEF HitsAccounted, BeforeHonoured
    <2>4. QED
      BY <2>2, <2>3
  <1>6. CASE SaveRerun
    <2>1. pc' = "stopped" /\ running' = {} /\ running = {}
      BY <1>6 DEF SaveRerun, HandleInterruptWithRerun, Stop, HitsAccounted
    <2>2. UNCHANGED saved \/ saved'.inputs = {}
      BY <1>6 DEF SaveRerun, HandleInterruptWithRerun, Checkpoint
    <2>3. QED
      BY <2>1, <2>2 DEF HitsAccounted, BeforeHonoured
  <1>7. CASE SaveHit
    <2> DEFINE ready == ReadyChannels(Updated(more))
    <2>1. pc' = "stopped" /\ running' = {} /\ running = {}
      BY <1>7 DEF SaveHit, HandleInterruptWithRerun, HandleInterrupt, Stop, HitsAccounted
    <2>2. \/ UNCHANGED saved
          \/ saved'.inputs = {}
          \/ /\ saved'.inputs = next \union (ready \ {END})
             /\ saved'.before = before \union (ready \intersect InterruptBefore)
      BY <1>7 DEF SaveHit, HandleInterruptWithRerun, HandleInterrupt, Checkpoint
    <2>3. next \intersect InterruptBefore \subseteq before
      BY <1>7 DEF SaveHit, HitsAccounted
    <2> HIDE DEF ready
    <2>4. QED
      BY <2>1, <2>2, <2>3 DEF HitsAccounted, BeforeHonoured
  <1>8. CASE Resume
    BY <1>8 DEF Resume, HitsAccounted, BeforeHonoured
  <1>9. CASE SeeCancel
    BY <1>9 DEF HitsAccounted, BeforeHonoured, SeeCancel
  <1>10. CASE Expire
    BY <1>10 DEF HitsAccounted, BeforeHonoured, Expire, Drained, Waiting
  <1>11. ASSUME NEW n \in Node, Receive(n) PROVE HitsAccounted'
    <2>1. /\ pc \in Waiting /\ running' = running \ {n}
          /\ UNCHANGED <<next, saved, before, hist>>
          /\ \/ pc' = pc
             \/ pc' = Drained(pc) /\ (running' = {} \/ pc = "wait")
      BY <1>11 DEF Receive
    <2>2. QED
      BY <2>1 DEF HitsAccounted, BeforeHonoured, Drained, Waiting
  <1>12. ASSUME NEW n \in Node, Finish(n) PROVE HitsAccounted'
    BY <1>12 DEF HitsAccounted, BeforeHonoured, Finish
  <1>13. CASE CallInterrupt \/ CancelContext \/ UNCHANGED vars
    BY <1>13 DEF HitsAccounted, BeforeHonoured, CallInterrupt, CancelContext, vars
  <1>14. QED
    BY <1>1, <1>2, <1>3, <1>4, <1>5, <1>6, <1>7, <1>8, <1>9, <1>10, <1>11, <1>12,
       <1>13 DEF Next, Loop, Stopped

\* A node to interrupt before only runs in a call that resumed an interrupt
\* before it, and after a node to interrupt after no task is started by the
\* same call, in every graph and whatever interrupts, fails or times out.
THEOREM HitsCorrect == Spec => []HitsHonoured
  <1>1. HitsAccounted => HitsHonoured
    BY DEF HitsAccounted, HitsHonoured, AfterHonoured
  <1>2. QED
    BY <1>1, InitHits, NextHits, TypeCorrect, PTL DEF Spec

(***************************************************************************)
(* No task is lost.                                                        *)
(***************************************************************************)

\* The initial states account for all tasks: there are none.
THEOREM InitTasks == Init => TasksAccounted
  BY DEF Init, TasksAccounted, Where, NoTaskLost, NoCheckpoint, NoHistory

\* What handleInterruptWithSubGraphAndRerunNodes saves is what is owed, when
\* the tasks it is given and those given up are.
LEMMA RerunSavesOwed ==
  ASSUME TypeOK, NEW T \in SUBSET Node, HandleInterruptWithRerun(T),
         hist.owed = T \union timedOut, timedOut \intersect T = {},
         \A n \in T : out[n] \notin {"none", "err"}
  PROVE  \/ UNCHANGED saved /\ Stop("error")
         \/ /\ Stop("interrupt")
            /\ saved'.inputs = {} /\ saved'.hist = hist'
            /\ hist'.owed = saved'.rerun
  <1> DEFINE others == Succeeded(T) \ timedOut
  <1>1. CASE BranchFails(others)
    BY <1>1 DEF HandleInterruptWithRerun
  <1>2. CASE ~BranchFails(others)
    <2>1. /\ Stop("interrupt") /\ saved'.inputs = {} /\ saved'.hist = hist'
          /\ saved'.rerun = Interrupted(T) \union timedOut
          /\ hist'.owed = hist.owed \ others
      BY <1>2 DEF HandleInterruptWithRerun, Checkpoint, Record
    <2>2. \A n \in T : out[n] \in {"ok", "badBranch", "interrupt"}
      BY DEF TypeOK, Outcome
    <2>3. hist.owed \ others = Interrupted(T) \union timedOut
      BY <2>2 DEF Succeeded, Interrupted
    <2>4. QED
      BY <2>1, <2>3
  <1>3. QED
    BY <1>1, <1>2

\* Every step accounts for all tasks when the two kinds of interrupts do not
\* mix.
THEOREM NextTasks ==
  ASSUME Unmixed
  PROVE  TypeOK /\ HitsAccounted /\ TasksAccounted /\ [Next]_vars => TasksAccounted'
  <1> SUFFICES ASSUME TypeOK, HitsAccounted, TasksAccounted, [Next]_vars
               PROVE  TasksAccounted'
    OBVIOUS
  <1> USE DEF loopVars, taskVars, cancelVars, roundVars, callVars
  <1>1. CASE Start
    <2> DEFINE chs == Updated({START})
               ready == ReadyChannels(chs)
    <2>1. /\ pc = "idle" /\ hist.owed = {} /\ running' = {} /\ ~saved.present
          /\ Calculate({START}, chs, ready) /\ next' = ready \ {END}
      BY <1>1 DEF Start, TasksAccounted, HitsAccounted
    <2>2. hist'.owed = ready \ {END}
      BY <2>1 DEF Calculate, Record
    <2>3. CASE pc' = "loop"
      <3>1. UNCHANGED <<result, saved>>
        BY <1>1, <2>3 DEF Start, Stop, HandleInterrupt
      <3>2. result' = "none"
        BY <3>1, <2>1 DEF TasksAccounted
      <3> HIDE DEF chs, ready
      <3>3. QED
        BY <2>1, <2>2, <2>3, <3>1, <3>2 DEF TasksAccounted, Where, NoTaskLost
    <2>4. CASE pc' # "loop"
      <3>1. pc' = "stopped"
        BY <1>1, <2>4 DEF Start, Stop, HandleInterrupt
      <3>2. \/ UNCHANGED saved /\ result' # "interrupt"
            \/ /\ HandleInterrupt(ready, ready \intersect InterruptBefore, {})
               /\ END \notin ready
        BY <1>1, <2>4 DEF Start, Stop
      <3>3. \/ UNCHANGED saved /\ result' # "interrupt"
            \/ /\ saved'.inputs = ready /\ END \notin ready
               /\ saved'.rerun = {} /\ saved'.hist = hist'
        BY <3>2 DEF HandleInterrupt, Checkpoint
      <3> HIDE DEF chs, ready
      <3>4. QED
        BY <2>1, <2>2, <3>1, <3>3 DEF TasksAccounted, Where, NoTaskLost
    <2>5. QED
      BY <2>3, <2>4
  <1>2. CASE LoopAborts
    BY <1>2 DEF LoopAborts, TasksAccounted, Where, NoTaskLost
  <1>3. CASE Aborted \/ ExceedMaxSteps \/ NoTaskLeft \/ ResolveError
    BY <1>3 DEF Aborted, ExceedMaxSteps, NoTaskLeft, ResolveError, Stop,
                TasksAccounted, Where, NoTaskLost
  <1>4. CASE Submit
    BY <1>4 DEF Submit, TasksAccounted, Where, NoTaskLost
  <1>5. CASE ResolveInterrupted
    BY <1>5 DEF ResolveInterrupted, TasksAccounted, Where, NoTaskLost
  <1>6. CASE ResolveCompleted
    <2> DEFINE chs == Updated(got)
               ready == ReadyChannels(chs)
               hits == ready \intersect InterruptBefore
    <2>1. /\ pc = "resolve" /\ timedOut = {}
          /\ UNCHANGED <<running, more, timedOut, saved>>
          /\ Calculate(got, chs, ready) /\ next' = ready \ {END}
      BY <1>6 DEF ResolveCompleted
    <2>2. hist'.owed = ((running \union got) \ got) \union (ready \ {END})
      BY <2>1 DEF Calculate, Record, TasksAccounted, Where
    <2>3. running \intersect got = {} /\ more = {} /\ result = "none"
      BY <2>1 DEF TasksAccounted
    <2>4. hist'.owed = next' \union running'
      BY <2>1, <2>2, <2>3
    <2>5. CASE END \in ready
      <3>1. Stop("end")
        BY <1>6, <2>5 DEF ResolveCompleted
      <3>2. QED
        BY <2>1, <3>1 DEF Stop, TasksAccounted, Where, NoTaskLost
    <2>6. CASE END \notin ready /\ hits \union AfterHits # {}
      <3>1. NeedAll \/ canceled
        BY <2>6 DEF Unmixed, AfterHits
      <3>2. running = {}
        BY <2>1, <3>1 DEF TasksAccounted
      <3>3. pc' = "saveHit" /\ UNCHANGED result
        BY <1>6, <2>6, <3>2 DEF ResolveCompleted
      <3> HIDE DEF chs, ready, hits
      <3>4. QED
        BY <2>1, <2>3, <2>4, <3>2, <3>3 DEF TasksAccounted, Where, NoTaskLost
    <2>7. CASE END \notin ready /\ hits \union AfterHits = {}
      <3>1. pc' = "loop" /\ UNCHANGED result
        BY <1>6, <2>7 DEF ResolveCompleted
      <3> HIDE DEF chs, ready, hits
      <3>2. QED
        BY <2>1, <2>3, <2>4, <3>1 DEF TasksAccounted, Where, NoTaskLost
    <2>8. QED
      BY <2>5, <2>6, <2>7
  <1>7. CASE SaveRerun
    <2>1. /\ pc = "saveRerun" /\ running = {} /\ UNCHANGED <<running>>
          /\ hist.owed = (got \union more) \union timedOut
          /\ timedOut \intersect (got \union more) = {}
          /\ \A n \in got \union more : out[n] # "none"
          /\ \A n \in got : out[n] # "err"
      BY <1>7 DEF SaveRerun, TasksAccounted, Where
    <2>2. CASE \E n \in more : out[n] = "err"
      BY <1>7, <2>1, <2>2 DEF SaveRerun, Stop, TasksAccounted, Where, NoTaskLost
    <2>3. CASE ~ \E n \in more : out[n] = "err"
      <3>1. HandleInterruptWithRerun(got \union more)
        BY <1>7, <2>3 DEF SaveRerun
      <3>2. got \union more \in SUBSET Node
        BY DEF TypeOK
      <3>3. \A n \in got \union more : out[n] \notin {"none", "err"}
        BY <2>1, <2>3
      <3>4. \/ UNCHANGED saved /\ Stop("error")
            \/ /\ Stop("interrupt")
               /\ saved'.inputs = {} /\ saved'.hist = hist'
               /\ hist'.owed = saved'.rerun
        BY <2>1, <3>1, <3>2, <3>3, RerunSavesOwed
      <3>5. QED
        BY <2>1, <3>4 DEF Stop, TasksAccounted, Where, NoTaskLost
    <2>4. QED
      BY <2>2, <2>3
  <1>8. CASE SaveHit
    <2> DEFINE chs == Updated(more)
               ready == ReadyChannels(chs)
    <2>1. /\ pc = "saveHit" /\ running = {} /\ UNCHANGED <<running>>
          /\ more = {} /\ timedOut = {} /\ hist.owed = next
      BY <1>8 DEF SaveHit, TasksAccounted, HitsAccounted, Where
    <2>2. /\ ~ \E n \in more : out[n] = "err"
          /\ Interrupted(more) \union timedOut = {}
          /\ ~BranchFails(more)
      BY <2>1 DEF Interrupted, BranchFails
    <2>3. /\ Calculate(more, chs, ready)
          /\ next' = next \union (ready \ {END})
      BY <1>8, <2>2 DEF SaveHit
    <2>4. hist'.owed = next'
      BY <2>1, <2>3 DEF Calculate, Record
    <2>5. \/ Stop("end") /\ UNCHANGED saved
          \/ HandleInterrupt(next',
               before \union (ready \intersect InterruptBefore),
               after \union (more \intersect InterruptAfter))
      BY <1>8, <2>2 DEF SaveHit
    <2>6. \/ Stop("end") /\ UNCHANGED saved
          \/ /\ Stop("interrupt") /\ saved'.inputs = next'
             /\ saved'.rerun = {} /\ saved'.hist = hist'
      BY <2>5 DEF HandleInterrupt, Checkpoint
    <2> HIDE DEF chs, ready
    <2>7. QED
      BY <2>1, <2>4, <2>6 DEF Stop, TasksAccounted, Where, NoTaskLost
  <1>9. CASE Resume
    BY <1>9 DEF Resume, TasksAccounted, Where, NoTaskLost
  <1>10. CASE SeeCancel
    BY <1>10 DEF SeeCancel, TasksAccounted, Where, NoTaskLost, Waiting
  <1>11. CASE Expire
    BY <1>11 DEF Expire, Drained, TasksAccounted, Where, NoTaskLost, Waiting
  <1>12. ASSUME NEW n \in Node, Receive(n) PROVE TasksAccounted'
    <2>1. /\ pc \in {"wait", "drainRerun", "drainCtx"}
          /\ n \in running /\ out[n] # "none" /\ running' = running \ {n}
          /\ UNCHANGED <<result, next, out, canceled, timedOut, saved, hist>>
      BY <1>12 DEF Receive, TasksAccounted, Waiting
    <2>2. CASE pc = "wait"
      <3>1. got' = got \union {n} /\ UNCHANGED more
        BY <1>12, <2>2 DEF Receive
      <3>2. /\ pc' \in {"wait", "resolve"}
            /\ pc' = "resolve" => running' = {} \/ (~NeedAll /\ ~canceled)
        BY <1>12, <2>2 DEF Receive, Drained
      <3>3. /\ hist'.owed = running' \union got' \union timedOut'
            /\ running' \intersect (got' \union more' \union timedOut') = {}
            /\ timedOut' \intersect (got' \union more') = {}
            /\ more' = {}
            /\ \A m \in got' \union more' : out'[m] # "none"
        BY <2>1, <2>2, <3>1 DEF TasksAccounted, Where
      <3>4. pc' = "resolve" /\ (NeedAll \/ canceled') => running' = {}
        BY <2>1, <3>2
      <3>5. QED
        BY <2>1, <2>2, <3>2, <3>3, <3>4 DEF TasksAccounted, Where, NoTaskLost
    <2>3. CASE pc = "drainRerun"
      <3>1. more' = more \union {n} /\ UNCHANGED got
        BY <1>12, <2>3 DEF Receive
      <3>2. /\ pc' \in {"drainRerun", "saveRerun"}
            /\ pc' = "saveRerun" => running' = {}
        BY <1>12, <2>3 DEF Receive, Drained
      <3>3. /\ hist'.owed = running' \union got' \union more' \union timedOut'
            /\ running' \intersect (got' \union more' \union timedOut') = {}
            /\ timedOut' \intersect (got' \union more') = {}
            /\ \A m \in got' \union more' : out'[m] # "none"
        BY <2>1, <2>3, <3>1 DEF TasksAccounted, Where
      <3>4. \A m \in got' : out'[m] # "err"
        BY <2>1, <2>3, <3>1 DEF TasksAccounted
      <3>5. QED
        BY <2>1, <2>3, <3>2, <3>3, <3>4 DEF TasksAccounted, Where, NoTaskLost
    <2>4. CASE pc = "drainCtx"
      <3>1. pc' \in {"drainCtx", "aborted"}
        BY <1>12, <2>4 DEF Receive, Drained
      <3>2. QED
        BY <2>1, <2>4, <3>1 DEF TasksAccounted, Where, NoTaskLost
    <2>5. QED
      BY <2>1, <2>2, <2>3, <2>4
  <1>13. ASSUME NEW n \in Node, Finish(n) PROVE TasksAccounted'
    <2>1. /\ n \in running /\ out[n] = "none"
          /\ UNCHANGED <<loopVars, running, cancelVars, roundVars, saved, hist>>
          /\ \E o \in Outcome \ {"none"} : out' = [out EXCEPT ![n] = o]
      BY <1>13 DEF Finish, Outcome
    <2>2. \A m \in Node : m # n => out'[m] = out[m]
      BY <2>1 DEF TypeOK
    <2>3. pc \in {"wait", "resolve", "drainRerun", "saveRerun"} =>
            n \notin got \union more
      BY <2>1 DEF TasksAccounted
    <2>4. \A m \in got \union more : m \in Node
      BY DEF TypeOK
    <2>5. QED
      BY <2>1, <2>2, <2>3, <2>4 DEF TasksAccounted, Where, NoTaskLost
  <1>14. CASE CallInterrupt
    BY <1>14 DEF CallInterrupt, TasksAccounted, Where, NoTaskLost
  <1>15. CASE CancelContext
    BY <1>15 DEF CancelContext, TasksAccounted, Where, NoTaskLost
  <1>16. CASE UNCHANGED vars
    BY <1>16 DEF vars, TasksAccounted, Where, NoTaskLost
  <1>17. QED
    BY <1>1, <1>2, <1>3, <1>4, <1>5, <1>6, <1>7, <1>8, <1>9, <1>10, <1>11, <1>12,
       <1>13, <1>14, <1>15, <1>16 DEF Next, Loop, Stopped

\* The inductive invariant: at every point of the loop every task is in one
\* place and every hit is known, in every graph that does not mix the two
\* kinds of interrupts, whatever fails, times out or is resumed.
THEOREM InvariantCorrect ==
  ASSUME Unmixed
  PROVE  Spec => []IInv
  <1>1. Init => IInv
    BY InitType, InitHits, InitTasks DEF IInv
  <1>2. IInv /\ [Next]_vars => IInv'
    BY NextType, NextHits, NextTasks DEF IInv
  <1>3. QED
    BY <1>1, <1>2, PTL DEF Spec

\* An interrupt loses no task and saves none twice, in these graphs.  (The run
\* fork_eager_mixed shows that the condition is needed.)
THEOREM TasksCorrect ==
  ASSUME Unmixed
  PROVE  Spec => []NoTaskLost
  <1>1. IInv => NoTaskLost
    BY DEF IInv, TasksAccounted
  <1>2. QED
    BY <1>1, InvariantCorrect, PTL
(***************************************************************************)
(* The run loop of a pregel graph implements super steps.                  *)
(***************************************************************************)

\* What completed tasks write in the AnyPredecessor mode is added to what is
\* in the channels (reportValues).
LEMMA PregelUpdate ==
  ASSUME ~Dag, NEW c \in Channels, NEW T, NEW p
  PROVE  UpdateChannels(c, T, p).vals = c.vals \union (Writes(T, p) \intersect DataEdges)
  <1> DEFINE W == Writes(T, p)
             D == Completions(T, p)
  <1> HIDE DEF W, D
  <1>1. ReportValues(c, W).vals = c.vals \union (W \intersect DataEdges)
    BY DEF ReportValues, Channels
  <1>2. ReportValues(c, W) \in Channels
    BY ReportValuesType
  <1>3. ReportDependencies(ReportValues(c, W), D).vals = ReportValues(c, W).vals
    BY <1>2 DEF ReportDependencies, Channels
  <1> QED
    BY <1>1, <1>3 DEF UpdateChannels, ReportBranch, W, D

\* Every channel that holds a value is ready, and get empties it.
LEMMA PregelTake ==
  ASSUME ~Dag, NEW c \in Channels
  PROVE  /\ TakeReady(c).vals = {}
         /\ ReadyChannels(c) = {d \in Dst : Preds(c.vals, d) # {}}
         /\ c.vals = {} => ReadyChannels(c) = {}
  <1>1. ReadyChannels(c) = {d \in Dst : Preds(c.vals, d) # {}}
    BY DEF ReadyChannels, Ready
  <1>2. \A e \in c.vals : e[2] \in ReadyChannels(c)
    <2> SUFFICES ASSUME NEW e \in c.vals PROVE e[2] \in ReadyChannels(c)
      OBVIOUS
    <2>1. e \in Src \X Dst
      BY DEF Channels
    <2>2. e[1] \in Src /\ e[2] \in Dst /\ <<e[1], e[2]>> \in c.vals
      BY <2>1
    <2> QED
      BY <1>1, <2>2 DEF Preds
  <1>3. TakeReady(c).vals = Without(c.vals, ReadyChannels(c))
    BY DEF TakeReady, Channels
  <1> QED
    BY <1>1, <1>2, <1>3 DEF Without, Preds

\* The nodes the writes W make up the next super step of, and what they are
\* handed; what completed tasks T add to what is in the channels.
Receivers(W) == {d \in Dst : Preds(W, d) # {}}

Handed(W, fed) == [n \in Node |-> IF n \in Receivers(W) \ {END} THEN Preds(W, n) ELSE fed[n]]

Written(T) == chan.vals \union (Writes(T, pick) \intersect DataEdges)

\* The tasks of the super step that have not delivered.
Left == IF runs = 0 THEN {START} ELSE hist.owed

\* The completed tasks T of a super step: their outputs are as the branches
\* chose, so that T delivers what Superstep lets it deliver.
LEMMA Delivers ==
  ASSUME NEW T \in SUBSET Src, T # {}, T \subseteq Left, \A t \in T : pick[t] \in Selections(t),
         result # "end", runs' # 0, NEW W, W = Written(T),
         \/ /\ Left # T /\ hist'.owed = Left \ T
            /\ chan'.vals = W /\ hist'.fed = hist.fed /\ result' # "end"
         \/ /\ Left = T /\ hist'.owed = Receivers(W) \ {END}
            /\ chan'.vals = {} /\ hist'.fed = Handed(W, hist.fed)
            /\ result' = "end" <=> END \in Receivers(W)
  PROVE  Bsp!Next
  <1> DEFINE choice == [t \in T |-> pick[t]]
  <1>1. Bsp!Writes(T, choice) = Writes(T, pick)
    BY DEF Bsp!Writes, Writes, Bsp!Dst, Dst
  <1>2. choice \in [T -> UNION {Bsp!Selections(t) : t \in T}]
        /\ \A t \in T : choice[t] \in Bsp!Selections(t)
    BY DEF Bsp!Selections, Selections, Bsp!BranchEnds, BranchEnds
  <1>3. Bsp!DataEdges = DataEdges
    BY DEF Bsp!DataEdges, DataEdges, Bsp!DataBranchEnds, DataBranchEnds, Bsp!Src, Src, Bsp!Dst, Dst
  <1>4. Bsp!Deliver(T, choice)
    <2> HIDE DEF choice
    <2>1. /\ \A X : Bsp!Receivers(X) = Receivers(X)
          /\ \A X, d : Bsp!Preds(X, d) = Preds(X, d)
      BY DEF Bsp!Receivers, Receivers, Bsp!Preds, Preds, Bsp!Dst, Dst, Bsp!Src, Src
    <2>2. (IF runs = 0 THEN {START} ELSE hist.owed)' = hist'.owed
      OBVIOUS
    <2>3. W = chan.vals \union (Bsp!Writes(T, choice) \intersect Bsp!DataEdges)
      BY <1>1, <1>3 DEF Written
    <2>4. CASE Left # T
      <3>1. (result = "end")' = (result = "end")
        BY <2>4
      <3> QED
        BY <2>2, <2>3, <2>4, <3>1 DEF Bsp!Deliver, Left
    <2>5. CASE Left = T
      <3>1. Bsp!Receivers(W) = Receivers(W)
        BY <2>1
      <3>2. (result = "end")' = (END \in Bsp!Receivers(W))
        BY <2>5, <3>1
      <3>3. hist'.fed = [n \in Node |-> IF n \in hist'.owed THEN Bsp!Preds(W, n) ELSE hist.fed[n]]
        BY <2>1, <2>5 DEF Handed
      <3>4. hist'.owed = Bsp!Receivers(W) \ {END} /\ chan'.vals = {}
        BY <2>5, <3>1
      <3> QED
        BY <2>2, <2>3, <2>5, <3>2, <3>3, <3>4 DEF Bsp!Deliver, Left
    <2> QED
      BY <2>4, <2>5
  <1> QED
    <2> HIDE DEF choice
    <2> QED
      BY <1>2, <1>4 DEF Bsp!Next, Left

\* calculateNextTasks in the AnyPredecessor mode: what was written is handed
\* out, whole, to the nodes it was written for.
LEMMA PregelCalculate ==
  ASSUME ~Dag, TypeOK, NEW T, NEW W, W = Written(T),
         Calculate(T, Updated(T), ReadyChannels(Updated(T)))
  PROVE  /\ ReadyChannels(Updated(T)) = Receivers(W)
         /\ chan'.vals = {}
         /\ hist'.owed = (hist.owed \ T) \union (Receivers(W) \ {END})
         /\ hist'.fed = Handed(W, hist.fed)
  <1> DEFINE chs == Updated(T)
             R == Receivers(W)
  <1>1. chs \in Channels /\ chs.vals = W
    BY UpdateChannelsType, PregelUpdate DEF TypeOK, Updated, Written
  <1> HIDE DEF chs
  <1>2. ReadyChannels(chs) = R /\ TakeReady(chs).vals = {}
    BY <1>1, PregelTake DEF Receivers
  <1>3. chan' = TakeReady(chs) /\ hist' = Record(hist, chs, T, ReadyChannels(chs) \ {END})
    BY DEF Calculate, chs
  <1> HIDE DEF R
  <1>4. hist'.owed = (hist.owed \ T) \union (R \ {END})
    BY <1>2, <1>3 DEF Record
  <1>5. hist'.fed = [n \in Node |-> IF n \in R \ {END} THEN Preds(chs.vals, n) ELSE hist.fed[n]]
    BY <1>2, <1>3 DEF Record
  <1> QED
    BY <1>1, <1>2, <1>3, <1>4, <1>5 DEF chs, R, Handed

\* At first the branches at the start have chosen.
LEMMA InitPicks == Init => PicksKnown
  <1> SUFFICES ASSUME Init PROVE PicksKnown
    OBVIOUS
  <1>1. pick[START] \in Selections(START)
    BY DEF Init, Src
  <1> QED
    BY <1>1 DEF Init, PicksKnown

\* Every step preserves PicksKnown.
LEMMA NextPicks == IInv /\ PicksKnown /\ [Next]_vars => PicksKnown'
  <1> SUFFICES ASSUME IInv, PicksKnown, [Next]_vars PROVE PicksKnown'
    OBVIOUS
  <1> USE DEF loopVars, taskVars, cancelVars, roundVars, callVars
  <1>0. /\ TypeOK /\ TasksAccounted /\ running \subseteq Node /\ runs \in Nat
    BY DEF IInv, TypeOK, TasksAccounted
  <1>1. CASE Start
    <2>1. /\ pc = "idle" /\ runs' = 1 /\ UNCHANGED <<out, pick>> /\ pc' \in {"stopped", "loop"}
      BY <1>1 DEF Start, Stop, HandleInterrupt
    <2> QED
      BY <2>1 DEF PicksKnown
  <1>2. CASE Submit
    <2>1. /\ pc = "loop" /\ pc' \in {"resolve", "wait"}
          /\ \A n \in Node : out'[n] = "ok" => out[n] = "ok"
          /\ UNCHANGED <<pick, runs>>
      BY <1>2 DEF Submit
    <2> QED
      BY <2>1 DEF PicksKnown
  <1>3. CASE pc # "idle" /\ pc' # "idle" /\ UNCHANGED <<out, pick, runs>>
    BY <1>3 DEF PicksKnown
  <1>4. CASE LoopAborts \/ Aborted \/ ExceedMaxSteps \/ ResolveError \/ NoTaskLeft \/ ResolveInterrupted
    BY <1>3, <1>4 DEF LoopAborts, Aborted, ExceedMaxSteps, ResolveError, NoTaskLeft, ResolveInterrupted, Stop
  <1>5. CASE ResolveCompleted
    BY <1>3, <1>5 DEF ResolveCompleted, Stop
  <1>6. CASE SaveRerun
    BY <1>3, <1>6 DEF SaveRerun, HandleInterruptWithRerun, Stop
  <1>7. CASE SaveHit
    BY <1>3, <1>7 DEF SaveHit, HandleInterruptWithRerun, HandleInterrupt, Stop
  <1>8. CASE Resume
    BY <1>0, <1>8 DEF Resume, PicksKnown
  <1>9. CASE SeeCancel \/ Expire
    BY <1>3, <1>9 DEF SeeCancel, Expire, Waiting, Drained
  <1>10. ASSUME NEW n \in Node, Receive(n) PROVE PicksKnown'
    BY <1>3, <1>10 DEF Receive, Waiting, Drained
  <1>11. ASSUME NEW n \in Node, Finish(n) PROVE PicksKnown'
    <2>1. /\ pc # "stopped" /\ n \in running /\ out[n] = "none" /\ UNCHANGED <<pc, runs>>
      BY <1>11 DEF Finish
    <2>2. \A m \in Node : m # n => out'[m] = out[m] /\ pick'[m] = pick[m]
      <3>1. UNCHANGED pick \/ \E sel \in Selections(n) : pick' = [pick EXCEPT ![n] = sel]
        BY <1>11 DEF Finish
      <3>2. \E o \in Outcome : out' = [out EXCEPT ![n] = o]
        BY <1>11 DEF Finish, Outcome
      <3> QED
        BY <1>0, <3>1, <3>2 DEF TypeOK, Src
    <2>3. out'[n] = "ok" => pick'[n] \in Selections(n)
      <3>1. CASE out' = [out EXCEPT ![n] = "ok"] /\ \E sel \in Selections(n) : pick' = [pick EXCEPT ![n] = sel]
        BY <1>0, <3>1 DEF TypeOK, Src
      <3>2. CASE out' \in {[out EXCEPT ![n] = "err"], [out EXCEPT ![n] = "badBranch"],
                           [out EXCEPT ![n] = "interrupt"]}
        BY <1>0, <3>2 DEF TypeOK
      <3> QED
        BY <1>11, <3>1, <3>2 DEF Finish
    <2>4. pc # "idle"
      BY <1>0, <2>1 DEF TasksAccounted
    <2> QED
      BY <2>1, <2>2, <2>3, <2>4 DEF PicksKnown
  <1>12. CASE CallInterrupt \/ CancelContext \/ UNCHANGED vars
    BY <1>12 DEF CallInterrupt, CancelContext, vars, PicksKnown
  <1> QED
    BY <1>1, <1>2, <1>4, <1>5, <1>6, <1>7, <1>8, <1>9, <1>10, <1>11, <1>12 DEF Next, Loop, Stopped

\* At first no super step has begun.
THEOREM InitSteps == Init => StepsAccounted
  BY InitPicks DEF Init, StepsAccounted, RerunsKnown

\* Every step preserves StepsAccounted.
THEOREM NextSteps ==
  ASSUME ~Dag, NeedAll
  PROVE  IInv /\ StepsAccounted /\ [Next]_vars => StepsAccounted'
  <1> SUFFICES ASSUME IInv, StepsAccounted, [Next]_vars PROVE StepsAccounted'
    OBVIOUS
  <1> USE DEF loopVars, taskVars, cancelVars, roundVars, callVars, RerunsKnown
  <1>0. /\ TypeOK /\ TasksAccounted /\ PicksKnown'
        /\ pc # "stopped" => result = "none"
        /\ pc = "resolve" => running = {}
        /\ running \subseteq Node
    BY NextPicks DEF IInv, TypeOK, TasksAccounted, StepsAccounted
  <1>1. CASE Start
    <2>1. /\ pc = "idle" /\ pc' \in {"stopped", "loop"}
          /\ result' = "interrupt" => saved' = Checkpoint(chan', ReadyChannels(Updated({START})),
               input', {}, ReadyChannels(Updated({START})) \intersect InterruptBefore, {}, hist')
      BY <1>0, <1>1 DEF Start, Stop, HandleInterrupt
    <2> QED
      BY <1>0, <2>1 DEF StepsAccounted, Checkpoint
  <1>2. CASE LoopAborts \/ Aborted \/ ExceedMaxSteps
    BY <1>0, <1>2 DEF LoopAborts, Aborted, ExceedMaxSteps, Stop, StepsAccounted
  <1>3. CASE Submit
    <2>1. /\ pc = "loop" /\ pc' \in {"resolve", "wait"} /\ result = "none" /\ result' = result
      BY <1>0, <1>3 DEF Submit
    <2> QED
      BY <1>0, <2>1 DEF StepsAccounted
  <1>4. CASE ResolveError \/ NoTaskLeft
    BY <1>0, <1>4 DEF ResolveError, NoTaskLeft, Stop, StepsAccounted
  <1>5. CASE ResolveInterrupted
    BY <1>0, <1>5 DEF ResolveInterrupted, StepsAccounted, Interrupted
  <1>6. CASE ResolveCompleted
    <2>1. chan'.vals = {}
      <3>1. PICK T, W : T = got /\ W = Written(T)
        OBVIOUS
      <3>2. Calculate(T, Updated(T), ReadyChannels(Updated(T)))
        BY <1>6, <3>1 DEF ResolveCompleted
      <3> QED
        BY <1>0, <3>1, <3>2, PregelCalculate
    <2>2. /\ pc = "resolve" /\ pc' \in {"stopped", "saveHit", "loop"}
          /\ result' # "interrupt"
      BY <1>0, <1>6 DEF ResolveCompleted, Stop
    <2> QED
      BY <1>0, <2>1, <2>2 DEF StepsAccounted
  <1>7. CASE SaveRerun
    <2>1. /\ pc = "saveRerun" /\ pc' = "stopped"
          /\ result' = "interrupt" => saved'.present /\ saved'.chan = chan' /\ saved'.hist = hist'
      BY <1>7 DEF SaveRerun, HandleInterruptWithRerun, Stop, Checkpoint
    <2> QED
      BY <1>0, <2>1 DEF StepsAccounted
  <1>8. CASE SaveHit
    <2>1. /\ pc = "saveHit" /\ pc' = "stopped"
          /\ result' = "interrupt" => saved'.present /\ saved'.chan = chan' /\ saved'.hist = hist'
      BY <1>8 DEF SaveHit, HandleInterruptWithRerun, HandleInterrupt, Stop, Checkpoint
    <2> QED
      BY <1>0, <2>1 DEF StepsAccounted
  <1>9. CASE Resume
    BY <1>0, <1>9 DEF Resume, StepsAccounted
  <1>10. CASE SeeCancel
    BY <1>0, <1>10 DEF SeeCancel, StepsAccounted, Interrupted, Waiting
  <1>11. CASE Expire
    BY <1>0, <1>11 DEF Expire, StepsAccounted, Interrupted, Waiting, Drained, TasksAccounted
  <1>12. ASSUME NEW n \in Node, Receive(n) PROVE StepsAccounted'
    BY <1>0, <1>12 DEF Receive, StepsAccounted, Interrupted, Waiting, Drained, TasksAccounted
  <1>13. ASSUME NEW n \in Node, Finish(n) PROVE StepsAccounted'
    <2>1. /\ pc # "stopped" /\ n \in running /\ out[n] = "none"
          /\ UNCHANGED <<loopVars, running, roundVars, saved, runs, hist>>
      BY <1>13 DEF Finish
    <2>2. \A m \in Node : m # n => out'[m] = out[m]
      <3>1. \E o \in Outcome : out' = [out EXCEPT ![n] = o]
        BY <1>13 DEF Finish, Outcome
      <3> QED
        BY <1>0, <3>1 DEF TypeOK
    <2>3. pc \in {"drainRerun", "saveRerun"} => Interrupted(got)' = Interrupted(got)
      <3>1. pc \in {"drainRerun", "saveRerun"} => n \notin got /\ got \subseteq Node
        BY <1>0, <2>1 DEF TasksAccounted, TypeOK
      <3> QED
        BY <2>1, <2>2, <3>1 DEF Interrupted
    <2> QED
      BY <1>0, <2>1, <2>3 DEF StepsAccounted
  <1>14. CASE CallInterrupt \/ CancelContext
    BY <1>0, <1>14 DEF CallInterrupt, CancelContext, StepsAccounted, Interrupted
  <1>15. CASE UNCHANGED vars
    BY <1>0, <1>15 DEF vars, StepsAccounted, Interrupted
  <1> QED
    BY <1>1, <1>2, <1>3, <1>4, <1>5, <1>6, <1>7, <1>8, <1>9, <1>10, <1>11, <1>12, <1>13, <1>14,
       <1>15 DEF Next, Loop, Stopped

\* What handleInterruptWithSubGraphAndRerunNodes does to the super step: the
\* tasks that have completed deliver, and those that run again do not.
LEMMA RerunDelivers ==
  ASSUME ~Dag, TypeOK, StepsAccounted, NEW T \in SUBSET Node, HandleInterruptWithRerun(T),
         hist.owed = T \union timedOut, Interrupted(T) \union timedOut # {},
         T \intersect timedOut = {}, runs # 0, runs' = runs, result = "none"
  PROVE  Bsp!Next \/ UNCHANGED Bsp!ssVars
  <1> DEFINE others == Succeeded(T) \ timedOut
  <1>1. CASE BranchFails(others)
    BY <1>1 DEF HandleInterruptWithRerun, Stop, Bsp!ssVars
  <1>2. CASE ~BranchFails(others)
    <2>1. /\ result' = "interrupt" /\ chan' = Updated(others)
          /\ hist' = Record(hist, chan', others, {})
      BY <1>2 DEF HandleInterruptWithRerun, Stop
    <2>2. /\ chan'.vals = chan.vals \union (Writes(others, pick) \intersect DataEdges)
      BY <2>1, PregelUpdate DEF Updated, TypeOK
    <2>3. hist'.owed = hist.owed \ others /\ hist'.fed = hist.fed
      BY <2>1 DEF Record, TypeOK, History
    <2>4. CASE others = {}
      <3>1. chan'.vals = chan.vals
        BY <2>2, <2>4 DEF Writes
      <3> QED
        BY <2>1, <2>3, <2>4, <3>1 DEF Bsp!ssVars
    <2>5. CASE others # {}
      <3>1. \A t \in others : pick[t] \in Selections(t)
        BY <1>2 DEF BranchFails, Succeeded, StepsAccounted, PicksKnown
      <3>2. others \in SUBSET Src /\ others \subseteq hist.owed /\ others # hist.owed
        BY DEF Succeeded, Interrupted, Src
      <3>3. PICK T0 : T0 = others
        OBVIOUS
      <3>4. PICK W : W = Written(T0)
        OBVIOUS
      <3>5. Left = hist.owed /\ chan'.vals = Written(others)
        BY <2>2 DEF Left, Written
      <3> HIDE DEF others
      <3> QED
        BY <2>1, <2>3, <2>5, <3>1, <3>2, <3>3, <3>4, <3>5, Delivers
    <2> QED
      BY <2>4, <2>5
  <1> QED
    BY <1>1, <1>2

\* A step of the run loop of a pregel graph is a step of Superstep, or none:
\* completed tasks deliver, and nothing else shows.
LEMMA StepSimulated ==
  ASSUME ~Dag, NeedAll, ~RetryAfterError
  PROVE  IInv /\ StepsAccounted /\ [Next]_vars => [Bsp!Next]_(Bsp!ssVars)
  <1> SUFFICES ASSUME IInv, StepsAccounted, [Next]_vars
               PROVE  Bsp!Next \/ UNCHANGED Bsp!ssVars
    OBVIOUS
  <1> USE DEF loopVars, taskVars, cancelVars, roundVars, callVars
  <1>0. /\ TypeOK /\ TasksAccounted
        /\ pc # "stopped" => result = "none"
        /\ pc = "resolve" => running = {}
        /\ pc = "idle" <=> runs = 0
    BY DEF IInv, TasksAccounted, StepsAccounted, PicksKnown
  <1>1. CASE UNCHANGED <<hist, chan, runs>> /\ (result' = "end" <=> result = "end")
    BY <1>1 DEF Bsp!ssVars
  <1>2. CASE Start
    <2>1. PICK T, W : T = {START} /\ W = Written(T)
      OBVIOUS
    <2>2. /\ pc = "idle" /\ runs = 0 /\ runs' = 1 /\ result = "none"
          /\ Left = T /\ hist.owed = {} /\ T \in SUBSET Src /\ T # {}
          /\ \A t \in T : pick[t] \in Selections(t)
      BY <1>0, <1>2, <2>1 DEF Start, StepsAccounted, PicksKnown, TasksAccounted, Left, Src
    <2>3. Calculate(T, Updated(T), ReadyChannels(Updated(T)))
      BY <1>2, <2>1 DEF Start
    <2>4. /\ chan'.vals = {} /\ hist'.owed = Receivers(W) \ {END}
          /\ hist'.fed = Handed(W, hist.fed) /\ ReadyChannels(Updated(T)) = Receivers(W)
      BY <1>0, <2>1, <2>2, <2>3, PregelCalculate
    <2>5. result' = "end" <=> END \in Receivers(W)
      BY <1>2, <2>1, <2>2, <2>4 DEF Start, Stop, HandleInterrupt
    <2>6. runs' # 0 /\ result # "end"
      BY <2>2
    <2> QED
      BY <2>1, <2>2, <2>4, <2>5, <2>6, Delivers
  <1>3. CASE ResolveCompleted
    <2>1. PICK T, W : T = got /\ W = Written(T)
      OBVIOUS
    <2>2. /\ pc = "resolve" /\ runs # 0 /\ runs' = runs /\ result = "none"
          /\ Left = T /\ hist.owed = T /\ T \in SUBSET Src /\ T # {}
          /\ \A t \in T : pick[t] \in Selections(t)
      <3>1. pc = "resolve" /\ timedOut = {} /\ got # {} /\ runs' = runs /\ got = Succeeded(got)
            /\ ~BranchFails(got)
        BY <1>3 DEF ResolveCompleted
      <3>2. got \subseteq Node /\ hist.owed = got
        BY <1>0, <3>1 DEF TypeOK, TasksAccounted, Where
      <3>3. \A n \in got : out[n] = "ok"
        BY <3>1, <3>2 DEF BranchFails, Succeeded
      <3> QED
        BY <1>0, <2>1, <3>1, <3>2, <3>3 DEF StepsAccounted, PicksKnown, Src, Left
    <2>3. Calculate(T, Updated(T), ReadyChannels(Updated(T)))
      BY <1>3, <2>1 DEF ResolveCompleted
    <2>4. /\ chan'.vals = {} /\ hist'.owed = Receivers(W) \ {END}
          /\ hist'.fed = Handed(W, hist.fed) /\ ReadyChannels(Updated(T)) = Receivers(W)
      BY <1>0, <2>1, <2>2, <2>3, PregelCalculate
    <2>5. result' = "end" <=> END \in Receivers(W)
      BY <1>3, <2>1, <2>2, <2>4 DEF ResolveCompleted, Stop
    <2> QED
      BY <2>1, <2>2, <2>4, <2>5, Delivers
  <1>4. CASE SaveRerun
    <2>1. pc = "saveRerun" /\ runs' = runs /\ runs # 0 /\ result = "none"
      BY <1>0, <1>4 DEF SaveRerun
    <2>2. /\ hist.owed = (got \union more) \union timedOut /\ got \union more \in SUBSET Node
          /\ (got \union more) \intersect timedOut = {}
          /\ Interrupted(got \union more) \union timedOut # {}
      BY <1>0, <2>1 DEF TasksAccounted, Where, StepsAccounted, RerunsKnown, Interrupted, TypeOK
    <2>3. CASE HandleInterruptWithRerun(got \union more)
      <3>1. PICK T : T = got \union more
        OBVIOUS
      <3> QED
        BY <1>0, <2>1, <2>2, <2>3, <3>1, RerunDelivers
    <2>4. CASE Stop("error") /\ UNCHANGED <<chan, input, saved, hist>>
      BY <2>1, <2>4 DEF Stop, Bsp!ssVars
    <2> QED
      BY <1>4, <2>3, <2>4 DEF SaveRerun
  <1>5. CASE SaveHit
    <2>1. /\ pc = "saveHit" /\ runs' = runs /\ result = "none" /\ more = {} /\ timedOut = {}
          /\ chan.vals = {} /\ runs # 0
      BY <1>0, <1>5 DEF SaveHit, TasksAccounted, StepsAccounted
    <2>2. Interrupted(more) \union timedOut = {} /\ ~(\E n \in more : out[n] = "err")
          /\ ~BranchFails(more)
      BY <2>1 DEF Interrupted, BranchFails
    <2>3. PICK T, W : T = {} /\ W = Written(T)
      OBVIOUS
    <2>4. Calculate(T, Updated(T), ReadyChannels(Updated(T)))
      BY <1>5, <2>1, <2>2, <2>3 DEF SaveHit
    <2>5. W = {} /\ Receivers(W) = {}
      BY <2>1, <2>3 DEF Written, Writes, Receivers, Preds
    <2>6. /\ chan'.vals = {} /\ hist'.owed = (hist.owed \ T) \union (Receivers(W) \ {END})
          /\ hist'.fed = Handed(W, hist.fed) /\ ReadyChannels(Updated(T)) = Receivers(W)
      BY <1>0, <2>3, <2>4, PregelCalculate
    <2>7. hist'.owed = hist.owed /\ hist'.fed = hist.fed
      BY <1>0, <2>3, <2>5, <2>6 DEF TypeOK, History, Handed
    <2>8. result' # "end"
      <3>1. END \notin ReadyChannels(Updated(more))
        BY <2>1, <2>3, <2>5, <2>6
      <3> QED
        BY <1>5, <2>2, <3>1 DEF SaveHit, HandleInterrupt, Stop
    <2> QED
      BY <2>1, <2>6, <2>7, <2>8 DEF Bsp!ssVars
  <1>6. CASE Resume
    <2>1. /\ result = "interrupt" /\ result' = "none" /\ chan' = chan /\ hist' = hist
          /\ pc = "stopped" /\ runs' = runs + 1 /\ runs \in Nat /\ runs # 0
      BY <1>0, <1>6 DEF Resume, StepsAccounted, TypeOK
    <2>2. runs' # 0
      BY <2>1
    <2> QED
      BY <2>1, <2>2 DEF Bsp!ssVars
  <1>7. CASE LoopAborts \/ Aborted \/ ExceedMaxSteps \/ Submit \/ ResolveError \/ ResolveInterrupted
             \/ NoTaskLeft
    BY <1>0, <1>1, <1>7 DEF LoopAborts, Aborted, ExceedMaxSteps, Submit, ResolveError,
                            ResolveInterrupted, NoTaskLeft, Stop
  <1>8. CASE SeeCancel \/ Expire \/ CallInterrupt \/ CancelContext \/ UNCHANGED vars
    BY <1>1, <1>8 DEF SeeCancel, Expire, CallInterrupt, CancelContext, vars
  <1>9. ASSUME NEW n \in Node, Receive(n) \/ Finish(n) PROVE UNCHANGED Bsp!ssVars
    BY <1>1, <1>9 DEF Receive, Finish, Bsp!ssVars
  <1> QED
    BY <1>2, <1>3, <1>4, <1>5, <1>6, <1>7, <1>8, <1>9 DEF Next, Loop, Stopped

\* A pregel graph runs in super steps: no task of a step is handed its input
\* before every task of the step before has delivered, and the input is all
\* that was written for it, whatever fails, interrupts, is given up or
\* resumed.  A pregel graph always waits for all tasks (compile).  A client
\* that calls again after a failed call goes back to the checkpoint, which is
\* no super step.
THEOREM SuperstepsCorrect ==
  ASSUME ~Dag, NeedAll, ~RetryAfterError
  PROVE  Spec => ImplementsSupersteps
  <1>1. Init => Bsp!Init
    BY DEF Init, Bsp!Init, InitChannels, NoHistory
  <1>2. Init => IInv /\ StepsAccounted
    BY InitType, InitHits, InitTasks, InitSteps DEF IInv
  <1>3. Unmixed
    BY DEF Unmixed
  <1>4. IInv /\ StepsAccounted /\ [Next]_vars => (IInv /\ StepsAccounted)'
    BY <1>3, NextType, NextHits, NextTasks, NextSteps DEF IInv
  <1>5. IInv /\ StepsAccounted /\ [Next]_vars => [Bsp!Next]_(Bsp!ssVars)
    BY StepSimulated
  <1> QED
    BY <1>1, <1>2, <1>4, <1>5, PTL DEF Spec, ImplementsSupersteps, Bsp!Spec

(***************************************************************************)
(* A run of an AllPredecessor graph that gives up has skipped END.         *)
(***************************************************************************)

\* The least set of channels that answer that they are skipped is closed
\* (reportBranch).
LEMMA ClosureClosed ==
  ASSUME NEW c, NEW F
  PROVE  /\ SkipClosure(c, F) \subseteq Dst
         /\ SkipClosed(c, F, SkipClosure(c, F))
         /\ \A S \in SUBSET Dst : SkipClosed(c, F, S) => SkipClosure(c, F) \subseteq S
  <1> DEFINE C == SkipClosure(c, F)
  <1>1. C \subseteq Dst /\ \A S \in SUBSET Dst : SkipClosed(c, F, S) => C \subseteq S
    BY DEF SkipClosure
  <1>2. ASSUME NEW d \in Dst, Preds(SkipsFrom(F, C), d) # {},
               Preds(ControlEdges, d) \subseteq Preds(c.skip \union SkipsFrom(F, C), d)
        PROVE  d \in C
    <2>1. ASSUME NEW S \in SUBSET Dst, SkipClosed(c, F, S) PROVE d \in S
      <3>1. SkipsFrom(F, C) \subseteq SkipsFrom(F, S)
        BY <1>1, <2>1 DEF SkipsFrom
      <3>2. /\ Preds(SkipsFrom(F, S), d) # {}
            /\ Preds(ControlEdges, d) \subseteq Preds(c.skip \union SkipsFrom(F, S), d)
        BY <1>2, <3>1 DEF Preds
      <3> QED
        BY <2>1, <3>2 DEF SkipClosed
    <2> QED
      BY <2>1 DEF SkipClosure
  <1> HIDE DEF C
  <1>3. SkipClosed(c, F, C)
    BY <1>2 DEF SkipClosed
  <1> QED
    BY <1>1, <1>3 DEF C

\* Who reports a skip to d: a completed task whose branches chose others, or
\* a skipped node that d succeeds.
Reports(T, p, C, s, d) ==
  \/ s \in T /\ d \in BranchEnds(s) \ p[s]
  \/ s \in C /\ <<s, d>> \in SuccessorEdges

\* Who reports to d that it has completed, and who delivers to it.
Completes(T, p, s, d) == s \in T /\ d \in Controls[s] \union p[s]

Writer(T, p, s, d) == s \in T /\ d \in WriteTo[s] \union p[s]

\* The channels u after tasks T were resolved, C being told skipped.
Update(c, u, T, p, C) ==
  /\ u \in Channels
  /\ \A d \in Dst :
       LET told == \E s \in Src : Reports(T, p, C, s, d)
           all  == \A s \in Preds(ControlEdges, d) : <<s, d>> \in c.skip \/ Reports(T, p, C, s, d)
       IN  /\ told /\ all => d \in C
           /\ d \in u.skipped <=> IF told THEN all ELSE d \in c.skipped
  /\ \A s \in Src, d \in Dst :
       LET skips == Reports(T, p, C, s, d) /\ <<s, d>> \in ControlEdges
           met   == Completes(T, p, s, d) /\ <<s, d>> \in ControlEdges /\ d \notin u.skipped
       IN  /\ <<s, d>> \in u.skip <=> (<<s, d>> \in c.skip \/ skips) /\ ~met
           /\ <<s, d>> \in u.ready <=> (<<s, d>> \in c.ready /\ ~skips) \/ met
           /\ <<s, d>> \in u.data <=>
                \/ <<s, d>> \in c.data
                \/ Reports(T, p, C, s, d) /\ <<s, d>> \in DataEdges
                \/ Writer(T, p, s, d) /\ <<s, d>> \in DataEdges /\ d \notin u.skipped
           /\ <<s, d>> \in u.vals <=>
                \/ <<s, d>> \in c.vals
                \/ Writer(T, p, s, d) /\ <<s, d>> \in DataEdges /\ d \notin u.skipped

\* A set of channels that is closed under telling.
ClosedUnder(c, T, p, S) ==
  \A d \in Dst :
    (/\ \E s \in Src : Reports(T, p, S, s, d)
     /\ \A s \in Preds(ControlEdges, d) : <<s, d>> \in c.skip \/ Reports(T, p, S, s, d)) => d \in S

\* The set of reports that the model of the channels makes.
LEMMA ReportsAre ==
  ASSUME NEW T \in SUBSET Src, NEW p, NEW S \in SUBSET Dst, NEW s \in Src, NEW d \in Dst
  PROVE  <<s, d>> \in SkipsFrom(Unselected(T, p), S) <=> Reports(T, p, S, s, d)
  BY DEF SkipsFrom, Unselected, Reports

\* UpdateChannels, pair by pair.
LEMMA UpdatePairs ==
  ASSUME Dag, NEW c \in Channels, NEW T \in SUBSET Src, NEW p
  PROVE  \E C \in SUBSET Dst :
           /\ Update(c, UpdateChannels(c, T, p), T, p, C)
           /\ \A S \in SUBSET Dst : ClosedUnder(c, T, p, S) => C \subseteq S
  <1> DEFINE F == Unselected(T, p)
             C == SkipClosure(c, F)
             K == SkipsFrom(F, C)
             u == UpdateChannels(c, T, p)
             b == ReportBranch(c, F)
             v == ReportValues(b, Writes(T, p))
  <1>1. ASSUME NEW S \in SUBSET Dst
        PROVE  SkipClosed(c, F, S) <=> ClosedUnder(c, T, p, S)
    BY ReportsAre DEF SkipClosed, ClosedUnder, Preds
  <1>2. C \in SUBSET Dst /\ ClosedUnder(c, T, p, C)
        /\ \A S \in SUBSET Dst : ClosedUnder(c, T, p, S) => C \subseteq S
    BY <1>1, ClosureClosed
  <1>3. /\ b.skip = c.skip \union (K \intersect ControlEdges)
        /\ b.ready = c.ready \ (K \intersect ControlEdges)
        /\ b.data = c.data \union (K \intersect DataEdges) /\ b.vals = c.vals
        /\ b.skipped = (c.skipped \ {d \in Dst : Preds(K, d) # {}}) \union
             {d \in Dst : Preds(K, d) # {} /\ Preds(ControlEdges, d) \subseteq Preds(b.skip, d)}
        /\ b \in Channels
    <2>1. CASE F # {}
      <3>1. b = ReportSkip(c, K)
        BY <2>1 DEF ReportBranch
      <3> HIDE DEF K, b
      <3>2. b \in Channels
        BY <3>1, ReportSkipType
      <3> DEFINE k == c.skip \union (K \intersect ControlEdges)
                 t == {d \in Dst : Preds(K, d) # {}}
                 g == {d \in t : Preds(ControlEdges, d) \subseteq Preds(k, d)}
      <3>3. b = [c EXCEPT !.skip = k, !.ready = @ \ (K \intersect ControlEdges),
                          !.data = @ \union (K \intersect DataEdges), !.skipped = (@ \ t) \union g]
        BY <3>1 DEF ReportSkip
      <3> HIDE DEF k, t, g
      <3>4. /\ b.skip = k /\ b.ready = c.ready \ (K \intersect ControlEdges)
            /\ b.data = c.data \union (K \intersect DataEdges) /\ b.vals = c.vals
            /\ b.skipped = (c.skipped \ t) \union g
        BY <3>3 DEF Channels
      <3> QED
        BY <3>2, <3>4 DEF k, t, g
    <2>2. CASE F = {}
      <3>1. ClosedUnder(c, T, p, {})
        <4>1. SkipsFrom(F, {}) = {}
          BY <2>2 DEF SkipsFrom
        <4>2. \A s \in Src, d \in Dst : ~Reports(T, p, {}, s, d)
          BY <4>1, ReportsAre
        <4> QED
          BY <4>2 DEF ClosedUnder
      <3>2. C = {} /\ K = {}
        BY <1>2, <2>2, <3>1 DEF SkipsFrom
      <3>3. b = c
        BY <2>2 DEF ReportBranch
      <3> HIDE DEF K, b
      <3> QED
        BY <3>2, <3>3 DEF Preds, Channels
    <2> QED
      BY <2>1, <2>2
  <1> HIDE DEF b
  <1>4. /\ v.skip = b.skip /\ v.ready = b.ready /\ v.skipped = b.skipped /\ v \in Channels
        /\ v.data = b.data \union {e \in Writes(T, p) \intersect DataEdges : e[2] \notin b.skipped}
        /\ v.vals = b.vals \union {e \in Writes(T, p) \intersect DataEdges : e[2] \notin b.skipped}
    <2> DEFINE W == Writes(T, p)
    <2> HIDE DEF W
    <2>1. v = [b EXCEPT !.vals = @ \union {e \in W \intersect DataEdges : e[2] \notin b.skipped},
                        !.data = @ \union {e \in W \intersect DataEdges : e[2] \notin b.skipped}]
      BY <1>3 DEF ReportValues, W
    <2>2. v \in Channels
      BY <1>3, ReportValuesType
    <2> HIDE DEF v
    <2>3. /\ v.skip = b.skip /\ v.ready = b.ready /\ v.skipped = b.skipped
          /\ v.data = b.data \union {e \in W \intersect DataEdges : e[2] \notin b.skipped}
          /\ v.vals = b.vals \union {e \in W \intersect DataEdges : e[2] \notin b.skipped}
      BY <1>3, <2>1 DEF Channels
    <2> QED
      BY <2>2, <2>3 DEF W
  <1> HIDE DEF v
  <1>5. /\ u.skipped = v.skipped /\ u.data = v.data /\ u.vals = v.vals /\ u \in Channels
        /\ u.skip = v.skip \ {e \in Completions(T, p) \intersect ControlEdges : e[2] \notin v.skipped}
        /\ u.ready = v.ready \union {e \in Completions(T, p) \intersect ControlEdges : e[2] \notin v.skipped}
    <2>1. u = ReportDependencies(v, Completions(T, p))
      BY DEF UpdateChannels, b, v
    <2> DEFINE M == {e \in Completions(T, p) \intersect ControlEdges : e[2] \notin v.skipped}
    <2>2. u = [v EXCEPT !.ready = @ \union M, !.skip = @ \ M]
      BY <2>1 DEF ReportDependencies
    <2>3. u \in Channels
      BY <1>4, <2>1, ReportDependenciesType
    <2> HIDE DEF u, M
    <2>4. /\ u.skipped = v.skipped /\ u.data = v.data /\ u.vals = v.vals
          /\ u.skip = v.skip \ M /\ u.ready = v.ready \union M
      BY <1>4, <2>2 DEF Channels
    <2> QED
      BY <2>3, <2>4 DEF M
  <1>6. \A s \in Src, d \in Dst : <<s, d>> \in K <=> Reports(T, p, C, s, d)
    BY <1>2, ReportsAre
  <1>7. \A s \in Src, d \in Dst :
          /\ <<s, d>> \in Completions(T, p) <=> Completes(T, p, s, d)
          /\ <<s, d>> \in Writes(T, p) <=> Writer(T, p, s, d)
    BY DEF Completions, Completes, Writes, Writer
  <1> HIDE DEF u, C, K
  <1>8. ASSUME NEW d \in Dst
        PROVE  /\ Preds(K, d) # {} <=> \E s \in Src : Reports(T, p, C, s, d)
               /\ Preds(ControlEdges, d) \subseteq Preds(b.skip, d) <=>
                    \A s \in Preds(ControlEdges, d) : <<s, d>> \in c.skip \/ Reports(T, p, C, s, d)
    BY <1>3, <1>6 DEF Preds
  <1>9. Update(c, u, T, p, C)
    <2>1. ASSUME NEW d \in Dst
          PROVE  LET told == \E s \in Src : Reports(T, p, C, s, d)
                     all  == \A s \in Preds(ControlEdges, d) : <<s, d>> \in c.skip \/ Reports(T, p, C, s, d)
                 IN  /\ told /\ all => d \in C
                     /\ d \in u.skipped <=> IF told THEN all ELSE d \in c.skipped
      <3>1. d \in u.skipped <=> IF Preds(K, d) # {} THEN Preds(ControlEdges, d) \subseteq Preds(b.skip, d)
                                ELSE d \in c.skipped
        BY <1>3, <1>4, <1>5
      <3> QED
        BY <1>2, <1>8, <3>1 DEF ClosedUnder
    <2>2. ASSUME NEW s \in Src, NEW d \in Dst
          PROVE  LET skips == Reports(T, p, C, s, d) /\ <<s, d>> \in ControlEdges
                     met   == Completes(T, p, s, d) /\ <<s, d>> \in ControlEdges /\ d \notin u.skipped
                 IN  /\ <<s, d>> \in u.skip <=> (<<s, d>> \in c.skip \/ skips) /\ ~met
                     /\ <<s, d>> \in u.ready <=> (<<s, d>> \in c.ready /\ ~skips) \/ met
                     /\ <<s, d>> \in u.data <=>
                          \/ <<s, d>> \in c.data
                          \/ Reports(T, p, C, s, d) /\ <<s, d>> \in DataEdges
                          \/ Writer(T, p, s, d) /\ <<s, d>> \in DataEdges /\ d \notin u.skipped
                     /\ <<s, d>> \in u.vals <=>
                          \/ <<s, d>> \in c.vals
                          \/ Writer(T, p, s, d) /\ <<s, d>> \in DataEdges /\ d \notin u.skipped
      <3>1. /\ <<s, d>> \in b.skip <=> <<s, d>> \in c.skip \/ (Reports(T, p, C, s, d) /\ <<s, d>> \in ControlEdges)
            /\ <<s, d>> \in b.ready <=> <<s, d>> \in c.ready /\ ~(Reports(T, p, C, s, d) /\ <<s, d>> \in ControlEdges)
            /\ <<s, d>> \in b.data <=> <<s, d>> \in c.data \/ (Reports(T, p, C, s, d) /\ <<s, d>> \in DataEdges)
            /\ <<s, d>> \in b.vals <=> <<s, d>> \in c.vals
        BY <1>3, <1>6
      <3>2. /\ <<s, d>> \in v.data <=>
                 <<s, d>> \in b.data \/ (Writer(T, p, s, d) /\ <<s, d>> \in DataEdges /\ d \notin b.skipped)
            /\ <<s, d>> \in v.vals <=>
                 <<s, d>> \in b.vals \/ (Writer(T, p, s, d) /\ <<s, d>> \in DataEdges /\ d \notin b.skipped)
        BY <1>4, <1>7
      <3>3. /\ <<s, d>> \in u.skip <=>
                 <<s, d>> \in v.skip /\ ~(Completes(T, p, s, d) /\ <<s, d>> \in ControlEdges /\ d \notin v.skipped)
            /\ <<s, d>> \in u.ready <=>
                 <<s, d>> \in v.ready \/ (Completes(T, p, s, d) /\ <<s, d>> \in ControlEdges /\ d \notin v.skipped)
        BY <1>5, <1>7
      <3>4. /\ v.skip = b.skip /\ v.ready = b.ready /\ v.skipped = b.skipped
            /\ u.skipped = v.skipped /\ u.data = v.data /\ u.vals = v.vals
        BY <1>4, <1>5
      <3> QED
        BY <3>1, <3>2, <3>3, <3>4
    <2> QED
      BY <1>5, <2>1, <2>2 DEF Update
  <1> QED
    BY <1>2, <1>9 DEF u

\* Only a predecessor reports.
LEMMA ReportersLead ==
  ASSUME NEW T \in SUBSET Src, NEW p, NEW C \in SUBSET Dst, NEW s \in Src, NEW d \in Dst,
         Reports(T, p, C, s, d)
  PROVE  /\ s \in T \/ s \in C
         /\ <<s, d>> \in ControlEdges \/ <<s, d>> \in DataEdges
  <1>1. s \in T /\ d \in BranchEnds(s) => <<s, d>> \in ControlEdges
    BY DEF ControlEdges
  <1>2. <<s, d>> \in SuccessorEdges => <<s, d>> \in ControlEdges \/ <<s, d>> \in DataEdges
    BY DEF SuccessorEdges, ControlEdges, DataEdges
  <1> QED
    BY <1>1, <1>2 DEF Reports

\* A skipped node reports to everything it leads to, and a task that has
\* completed reports, completes or delivers to everything that it leads to.
LEMMA LeadersReport ==
  ASSUME NEW T \in SUBSET Src, NEW p, NEW C \in SUBSET Dst, NEW s \in Src, NEW d \in Dst
  PROVE  /\ s \in C /\ (<<s, d>> \in ControlEdges \/ <<s, d>> \in DataEdges) => Reports(T, p, C, s, d)
         /\ s \in T /\ <<s, d>> \in ControlEdges => Reports(T, p, C, s, d) \/ Completes(T, p, s, d)
         /\ s \in T /\ <<s, d>> \in DataEdges => Reports(T, p, C, s, d) \/ Writer(T, p, s, d)
  <1>1. s \in C => s \in Node
    BY DEF Src, Dst
  <1>2. DataBranchEnds(s) \subseteq BranchEnds(s)
    BY DEF DataBranchEnds, BranchEnds
  <1>3. /\ <<s, d>> \in ControlEdges => d \in Controls[s] \union BranchEnds(s)
        /\ <<s, d>> \in DataEdges => d \in WriteTo[s] \union BranchEnds(s)
    BY <1>2 DEF ControlEdges, DataEdges
  <1>4. s \in C /\ d \in WriteTo[s] \union Controls[s] \union BranchEnds(s) => <<s, d>> \in SuccessorEdges
    BY <1>1 DEF SuccessorEdges
  <1> QED
    BY <1>3, <1>4 DEF Reports, Completes, Writer

\* The channels in C are skipped now, and none of them has handed out a task.
Added(c, u, taken, C) == C \intersect taken = {} /\ u.skipped = c.skipped \union C

\* When tasks are resolved every channel is told of what has been settled.
LEMMA UpdateSettles ==
  ASSUME NEW c \in Channels, NEW taken \in SUBSET Node, NEW D \in SUBSET Src,
         ChannelsSettled(c, taken, D), NEW T \in SUBSET (taken \union {START}), T \intersect D = {},
         NEW p, NEW u, NEW C \in SUBSET Dst, Update(c, u, T, p, C),
         \A S \in SUBSET Dst : ClosedUnder(c, T, p, S) => C \subseteq S
  PROVE  ChannelsSettled(u, taken, D \union T) /\ Added(c, u, taken, C)
  <1> DEFINE told(d) == \E s \in Src : Reports(T, p, C, s, d)
             all(d)  == \A s \in Preds(ControlEdges, d) : <<s, d>> \in c.skip \/ Reports(T, p, C, s, d)
  <1>0. /\ T \in SUBSET Src /\ START \notin Dst /\ D \ {START} \subseteq taken
        /\ taken \intersect c.skipped = {} /\ c.skipped \subseteq Dst /\ u.skipped \subseteq Dst
        /\ \A s \in T : s \notin D \union c.skipped
    BY DEF Src, Dst, ChannelsSettled, Update, Channels
  <1>a. \A d \in Dst : /\ told(d) /\ all(d) => d \in C
                       /\ d \in u.skipped <=> IF told(d) THEN all(d) ELSE d \in c.skipped
    BY DEF Update
  <1>b. \A d \in Dst, s \in Src : Reports(T, p, C, s, d) =>
          /\ s \in T \/ s \in C
          /\ <<s, d>> \in ControlEdges \/ <<s, d>> \in DataEdges
    BY <1>0, ReportersLead
  <1>c. \A s \in C : s \notin D \/ s \in taken
    BY <1>0
  <1>d. \A d \in Dst, s \in Src : /\ s \in Preds(ControlEdges, d) <=> <<s, d>> \in ControlEdges
                                  /\ s \in Preds(DataEdges, d) <=> <<s, d>> \in DataEdges
    BY DEF Preds
  <1>1. C \intersect taken = {}
    <2> DEFINE X == C \ taken
    <2>1. ASSUME NEW d \in Dst, NEW r \in Src, Reports(T, p, X, r, d),
                 \A s \in Preds(ControlEdges, d) : <<s, d>> \in c.skip \/ Reports(T, p, X, s, d)
          PROVE  d \in X
      <3>1. \A s \in Src : Reports(T, p, X, s, d) => Reports(T, p, C, s, d)
        BY DEF Reports
      <3>2. d \in C
        <4>1. \A s \in Preds(ControlEdges, d) : s \in Src
          BY DEF Preds
        <4> QED
          BY <1>a, <2>1, <3>1, <4>1
      <3>3. \A s \in Src : Reports(T, p, X, s, d) =>
              /\ s \in T \/ s \in X
              /\ <<s, d>> \in ControlEdges \/ <<s, d>> \in DataEdges
        BY <1>0, ReportersLead
      <3>4. \A s \in X : s \notin D
        BY <1>0
      <3>5. ASSUME d \in taken PROVE FALSE
        <4>1. Spent(c, D, d)
          BY <3>5 DEF ChannelsSettled
        <4>2. ASSUME NEW z \in Preds(ControlEdges, d) \intersect D, <<z, d>> \notin c.skip PROVE FALSE
          <5>1. z \in Src /\ Reports(T, p, X, z, d)
            BY <2>1, <4>2 DEF Preds
          <5> QED
            BY <1>0, <3>3, <3>4, <4>2, <5>1
        <4>3. ASSUME Preds(ControlEdges, d) = {}, Leads(d) \subseteq D \union c.skipped,
                     Preds(DataEdges, d) \intersect c.skipped = {}
              PROVE  FALSE
          <5>1. r \in Leads(d) /\ r \notin c.skipped
            BY <1>d, <2>1, <3>3, <4>3 DEF Leads
          <5> QED
            BY <1>0, <2>1, <3>3, <3>4, <4>3, <5>1
        <4> QED
          BY <4>1, <4>2, <4>3 DEF Spent
      <3> QED
        BY <3>2, <3>5
    <2>2. ClosedUnder(c, T, p, X)
      BY <2>1 DEF ClosedUnder
    <2> QED
      BY <2>2
  <1>2. u.skipped = c.skipped \union C
    <2>1. ASSUME NEW d \in C PROVE told(d) /\ all(d)
      <3> DEFINE X == {e \in C : told(e) /\ all(e)}
      <3>1. \A s \in Src, e \in Dst : Reports(T, p, X, s, e) => Reports(T, p, C, s, e)
        BY DEF Reports
      <3>2. ASSUME NEW e \in Dst, \E s \in Src : Reports(T, p, X, s, e),
                   \A s \in Preds(ControlEdges, e) : <<s, e>> \in c.skip \/ Reports(T, p, X, s, e)
            PROVE  e \in X
        <4>1. \A s \in Preds(ControlEdges, e) : s \in Src
          BY DEF Preds
        <4>2. told(e) /\ all(e)
          BY <3>1, <3>2, <4>1
        <4> HIDE DEF told, all
        <4> QED
          BY <1>a, <4>2
      <3>3. ClosedUnder(c, T, p, X)
        <4> HIDE DEF X
        <4> QED
          BY <3>2 DEF ClosedUnder
      <3>4. C \subseteq X
        BY <3>3
      <3> HIDE DEF told, all
      <3> QED
        BY <3>4
    <2>2. ASSUME NEW d \in c.skipped PROVE all(d)
      <3>1. Informed(c, D, d)
        BY <1>0, <2>2 DEF ChannelsSettled
      <3> QED
        BY <3>1 DEF Informed, Preds
    <2> HIDE DEF told, all
    <2> QED
      BY <1>0, <1>a, <2>1, <2>2
  <1>3. taken \intersect u.skipped = {}
    BY <1>0, <1>1, <1>2
  <1>4. \A s \in Src, d \in Dst : <<s, d>> \in u.ready => s \in D \union T
    BY DEF Update, Completes, ChannelsSettled
  <1>5. ASSUME NEW d \in Dst \ taken PROVE Informed(u, D \union T, d)
    <2>1. Informed(c, D, d)
      BY <1>5 DEF ChannelsSettled
    <2>2. d \in u.skipped => all(d)
      <3>1. d \in c.skipped => all(d)
        BY <2>1 DEF Informed, Preds
      <3> QED
        BY <1>5, <1>a, <3>1
    <2>3. ASSUME NEW s \in Preds(ControlEdges, d)
          PROVE  <<s, d>> \in u.ready \union u.skip <=> s \in (D \union T) \union u.skipped
      <3>1. s \in Src /\ <<s, d>> \in ControlEdges
        BY <1>5, <2>3 DEF Preds
      <3>2. <<s, d>> \in u.ready \union u.skip <=>
              \/ <<s, d>> \in c.ready \union c.skip
              \/ Reports(T, p, C, s, d)
              \/ Completes(T, p, s, d) /\ d \notin u.skipped
        BY <1>5, <3>1 DEF Update
      <3>3. <<s, d>> \in c.ready \union c.skip <=> s \in D \union c.skipped
        BY <2>1, <2>3 DEF Informed
      <3>4. Completes(T, p, s, d) => s \in T
        BY DEF Completes
      <3>5. d \in u.skipped => <<s, d>> \in c.skip \/ Reports(T, p, C, s, d)
        BY <2>2, <2>3
      <3>6. /\ s \in C => Reports(T, p, C, s, d)
            /\ s \in T => Reports(T, p, C, s, d) \/ Completes(T, p, s, d)
        BY <1>0, <1>5, <3>1, LeadersReport
      <3> QED
        BY <1>2, <1>5, <1>b, <3>1, <3>2, <3>3, <3>4, <3>5, <3>6
    <2>4. ASSUME NEW s \in Preds(DataEdges, d)
          PROVE  /\ <<s, d>> \in u.data => s \in (D \union T) \union u.skipped
                 /\ s \in (D \union T) \union u.skipped => d \in u.skipped \/ <<s, d>> \in u.data
      <3>1. s \in Src /\ <<s, d>> \in DataEdges
        BY <1>5, <2>4 DEF Preds
      <3>2. <<s, d>> \in u.data <=>
              \/ <<s, d>> \in c.data
              \/ Reports(T, p, C, s, d)
              \/ Writer(T, p, s, d) /\ d \notin u.skipped
        BY <1>5, <3>1 DEF Update
      <3>3. /\ <<s, d>> \in c.data => s \in D \union c.skipped
            /\ s \in D \union c.skipped => d \in c.skipped \/ <<s, d>> \in c.data
        BY <2>1, <2>4 DEF Informed
      <3>4. Writer(T, p, s, d) => s \in T
        BY DEF Writer
      <3>5. /\ s \in C => Reports(T, p, C, s, d)
            /\ s \in T => Reports(T, p, C, s, d) \/ Writer(T, p, s, d)
        BY <1>0, <1>5, <3>1, LeadersReport
      <3> QED
        BY <1>2, <1>5, <1>b, <3>1, <3>2, <3>3, <3>4, <3>5
    <2>5. \A s \in Preds(ControlEdges, d) :
            /\ d \in u.skipped => <<s, d>> \in u.skip
            /\ <<s, d>> \in u.skip => <<s, d>> \in c.skip \/ Reports(T, p, C, s, d)
      <3>1. \A s \in Preds(ControlEdges, d) : s \in Src /\ <<s, d>> \in ControlEdges
        BY DEF Preds
      <3> QED
        BY <1>5, <2>2, <3>1 DEF Update
    <2>6. Preds(ControlEdges, d) # {} /\ Preds(ControlEdges, d) \subseteq Preds(u.skip, d) => d \in u.skipped
      <3> SUFFICES ASSUME Preds(ControlEdges, d) # {}, Preds(ControlEdges, d) \subseteq Preds(u.skip, d)
                   PROVE  d \in u.skipped
        OBVIOUS
      <3>1. all(d)
        BY <2>5 DEF Preds
      <3>2. ~told(d) => Preds(ControlEdges, d) \subseteq Preds(c.skip, d)
        BY <3>1 DEF Preds
      <3>3. ~told(d) => d \in c.skipped
        BY <2>1, <3>2 DEF Informed
      <3> HIDE DEF told, all
      <3> QED
        BY <1>5, <1>a, <3>1, <3>3
    <2>7. Preds(ControlEdges, d) = {} /\ Preds(DataEdges, d) \intersect u.skipped # {} => d \in u.skipped
      <3> SUFFICES ASSUME Preds(ControlEdges, d) = {}, NEW s \in Preds(DataEdges, d) \intersect u.skipped
                   PROVE  d \in u.skipped
        OBVIOUS
      <3>1. s \in Src /\ <<s, d>> \in DataEdges
        BY DEF Preds
      <3>2. s \in C => told(d)
        BY <1>0, <1>5, <3>1, LeadersReport
      <3>3. s \in c.skipped => d \in c.skipped
        BY <2>1 DEF Informed
      <3>4. all(d)
        OBVIOUS
      <3> HIDE DEF told, all
      <3> QED
        BY <1>2, <1>5, <1>a, <3>2, <3>3, <3>4
    <2> QED
      BY <2>3, <2>4, <2>5, <2>6, <2>7 DEF Informed, Preds
  <1>6. ASSUME NEW d \in taken PROVE Spent(u, D \union T, d)
    <2>1. Spent(c, D, d) /\ d \in Dst
      BY <1>6 DEF ChannelsSettled, Dst
    <2>2. Leads(d) \subseteq (D \union T) \union u.skipped
      BY <1>2, <2>1 DEF Spent
    <2>3. ASSUME NEW z \in Preds(ControlEdges, d) \intersect D, <<z, d>> \notin c.ready \union c.skip
          PROVE  z \in D \union T /\ <<z, d>> \notin u.ready \union u.skip
      <3>1. z \in Src /\ z \notin T /\ z \notin C
        BY <1>0, <1>1, <2>3 DEF Preds
      <3>2. ~Reports(T, p, C, z, d) /\ ~Completes(T, p, z, d)
        BY <1>b, <2>1, <3>1 DEF Completes
      <3> QED
        BY <2>1, <2>3, <3>1, <3>2 DEF Update
    <2>4. ASSUME Preds(ControlEdges, d) = {}, Leads(d) # {},
                 Preds(DataEdges, d) \intersect c.skipped = {}, Preds(c.data, d) = {}
          PROVE  Preds(DataEdges, d) \intersect u.skipped = {} /\ Preds(u.data, d) = {}
      <3>1. ASSUME NEW s \in Preds(DataEdges, d) PROVE s \in Src /\ s \notin T /\ s \notin C /\ s \notin u.skipped
        <4>1. s \in Src /\ s \in D
          BY <2>1, <2>4, <3>1 DEF Spent, Leads, Preds
        <4> QED
          BY <1>0, <1>1, <1>2, <2>4, <3>1, <4>1
      <3>2. ASSUME NEW s \in Src, <<s, d>> \in u.data PROVE FALSE
        <4>1. <<s, d>> \notin c.data
          BY <2>4 DEF Preds
        <4>2. (Reports(T, p, C, s, d) \/ Writer(T, p, s, d)) /\ <<s, d>> \in DataEdges
          BY <2>1, <3>2, <4>1 DEF Update
        <4>3. s \in Preds(DataEdges, d) /\ (s \in T \/ s \in C)
          BY <1>b, <2>1, <4>2 DEF Preds, Writer
        <4> QED
          BY <3>1, <4>3
      <3> QED
        BY <3>1, <3>2 DEF Preds
    <2> QED
      BY <2>1, <2>2, <2>3, <2>4 DEF Spent
  <1>7. ChannelsSettled(u, taken, D \union T)
    BY <1>0, <1>3, <1>4, <1>5, <1>6 DEF ChannelsSettled
  <1> QED
    BY <1>1, <1>2, <1>7 DEF Added

\* Handing out the values of the ready channels: none of them has handed out
\* a task before, they never will again, and no other is ready.
LEMMA TakeSettles ==
  ASSUME Dag, NEW u \in Channels, NEW taken \in SUBSET Node, NEW D \in SUBSET Src,
         ChannelsSettled(u, taken, D)
  PROVE  /\ ReadyChannels(u) \intersect taken = {}
         /\ ReadyChannels(TakeReady(u)) = {}
         /\ END \notin ReadyChannels(u) =>
              ChannelsSettled(TakeReady(u), taken \union ReadyChannels(u), D)
  <1> DEFINE R == ReadyChannels(u)
             v == TakeReady(u)
  <1>1. /\ v.skipped = u.skipped /\ v.ready = Without(u.ready, R) /\ v.skip = Without(u.skip, R)
        /\ v.data = Without(u.data, R)
    BY DEF TakeReady, Channels
  <1>2. \A d \in R : /\ d \in Dst /\ d \notin u.skipped /\ Leads(d) # {}
                     /\ \A s \in Preds(ControlEdges, d) : <<s, d>> \in u.ready \union u.skip
                     /\ \A s \in Preds(DataEdges, d) : <<s, d>> \in u.data
    BY DEF ReadyChannels, Ready, Leads, Preds
  <1>3. \A d \in Dst : d \notin R <=> ~Ready(u, d)
    BY DEF ReadyChannels
  <1> HIDE DEF R, v
  <1>4. \A s \in Src, d \in Dst :
          /\ d \in R => <<s, d>> \notin v.ready /\ <<s, d>> \notin v.skip /\ <<s, d>> \notin v.data
          /\ d \notin R => /\ <<s, d>> \in v.ready <=> <<s, d>> \in u.ready
                           /\ <<s, d>> \in v.skip <=> <<s, d>> \in u.skip
                           /\ <<s, d>> \in v.data <=> <<s, d>> \in u.data
    BY <1>1 DEF Without
  <1>5. ASSUME NEW d \in R PROVE d \notin taken
    <2>1. SUFFICES ASSUME Spent(u, D, d) PROVE FALSE
      BY DEF ChannelsSettled
    <2>2. ASSUME NEW z \in Preds(ControlEdges, d) \intersect D, <<z, d>> \notin u.ready \union u.skip
          PROVE  FALSE
      BY <1>2, <2>2
    <2>3. ASSUME Preds(ControlEdges, d) = {}, Leads(d) # {}, Preds(u.data, d) = {} PROVE FALSE
      BY <1>2, <2>3 DEF Leads, Preds
    <2> QED
      BY <2>1, <2>2, <2>3 DEF Spent
  <1>6. ASSUME NEW d \in Dst PROVE ~Ready(v, d)
    <2>1. CASE d \in R
      <3>1. PICK s \in Leads(d) : TRUE
        BY <1>2, <2>1
      <3>2. s \in Src /\ (s \in Preds(ControlEdges, d) \/ s \in Preds(DataEdges, d))
        BY <3>1 DEF Leads, Preds
      <3> QED
        BY <1>4, <2>1, <3>2 DEF Ready, Preds
    <2>2. CASE d \notin R
      <3>1. Preds(v.ready \union v.skip, d) = Preds(u.ready \union u.skip, d)
            /\ Preds(v.data, d) = Preds(u.data, d)
        BY <1>4, <2>2 DEF Preds
      <3> QED
        BY <1>1, <1>3, <2>2, <3>1 DEF Ready
    <2> QED
      BY <2>1, <2>2
  <1>7. ASSUME END \notin R PROVE ChannelsSettled(v, taken \union R, D)
    <2>1. (taken \union R) \intersect v.skipped = {} /\ D \ {START} \subseteq taken
      BY <1>1, <1>2 DEF ChannelsSettled
    <2>2. \A s \in Src, d \in Dst : <<s, d>> \in v.ready => s \in D
      BY <1>4 DEF ChannelsSettled
    <2>3. ASSUME NEW d \in Dst \ (taken \union R) PROVE Informed(v, D, d)
      <3>1. Informed(u, D, d)
        BY <2>3 DEF ChannelsSettled
      <3>2. Preds(v.skip, d) = Preds(u.skip, d)
            /\ \A s \in Src : /\ <<s, d>> \in v.ready \union v.skip <=> <<s, d>> \in u.ready \union u.skip
                              /\ <<s, d>> \in v.data <=> <<s, d>> \in u.data
        BY <1>4, <2>3 DEF Preds
      <3>3. Preds(ControlEdges, d) \subseteq Src /\ Preds(DataEdges, d) \subseteq Src
        BY DEF Preds
      <3> QED
        BY <1>1, <3>1, <3>2, <3>3 DEF Informed
    <2>4. ASSUME NEW d \in taken PROVE Spent(v, D, d)
      <3>1. Spent(u, D, d) /\ d \notin R /\ d \in Dst
        BY <1>5, <2>4 DEF ChannelsSettled, Dst
      <3>2. \A z \in Preds(ControlEdges, d) : z \in Src
        BY DEF Preds
      <3>3. Preds(v.data, d) = Preds(u.data, d)
        BY <1>4, <3>1 DEF Preds
      <3> QED
        BY <1>1, <1>4, <3>1, <3>2, <3>3 DEF Spent
    <2>5. ASSUME NEW d \in R PROVE Spent(v, D, d)
      <3>1. Informed(u, D, d) /\ d \in Dst
        BY <1>2, <1>5, <2>5 DEF ChannelsSettled
      <3>2. Leads(d) \subseteq D \union v.skipped
        BY <1>1, <1>2, <2>5, <3>1 DEF Informed, Leads
      <3>3. CASE Preds(ControlEdges, d) # {}
        <4>1. PICK z \in Preds(ControlEdges, d) : <<z, d>> \notin u.skip
          BY <1>2, <2>5, <3>1, <3>3 DEF Informed, Preds
        <4>2. z \in Src /\ <<z, d>> \in u.ready
          BY <1>2, <2>5, <4>1 DEF Preds
        <4>3. z \in D /\ <<z, d>> \notin v.ready \union v.skip
          BY <1>4, <2>5, <3>1, <4>2 DEF ChannelsSettled
        <4> QED
          BY <3>2, <4>1, <4>3 DEF Spent
      <3>4. CASE Preds(ControlEdges, d) = {}
        <4>1. Preds(DataEdges, d) \intersect v.skipped = {}
          BY <1>1, <1>2, <2>5, <3>1, <3>4 DEF Informed
        <4>2. Preds(v.data, d) = {}
          BY <1>4, <2>5, <3>1 DEF Preds
        <4> QED
          BY <1>2, <2>5, <3>2, <3>4, <4>1, <4>2 DEF Spent
      <3> QED
        BY <3>3, <3>4
    <2> QED
      BY <2>1, <2>2, <2>3, <2>4, <2>5 DEF ChannelsSettled
  <1>8. R \intersect taken = {} /\ ReadyChannels(v) = {}
    BY <1>5, <1>6 DEF ReadyChannels
  <1> QED
    BY <1>7, <1>8 DEF R, v

\* Before anything has run no channel knows anything.
LEMMA NothingSettled == ChannelsSettled(InitChannels, {}, {})
  <1>1. \A d \in Dst : Informed(InitChannels, {}, d)
    <2>1. \A d \in Dst : Preds({}, d) = {}
      BY DEF Preds
    <2> QED
      BY <2>1 DEF Informed, InitChannels
  <1> QED
    BY <1>1 DEF ChannelsSettled, InitChannels

\* Resolving tasks that are owed, or the start, settles the channels.
LEMMA UpdatedSettles ==
  ASSUME Dag, TypeOK, NEW D \in SUBSET Src, ChannelsSettled(chan, hist.taken, D),
         NEW T \in SUBSET (hist.taken \union {START}), T \intersect D = {}
  PROVE  ChannelsSettled(Updated(T), hist.taken, D \union T) /\ Updated(T) \in Channels
  <1>1. PICK c, taken, p : c = chan /\ taken = hist.taken /\ p = pick
    OBVIOUS
  <1>2. c \in Channels /\ taken \in SUBSET Node
    BY <1>1 DEF TypeOK, History
  <1>3. T \in SUBSET Src
    BY <1>1, <1>2 DEF Src
  <1>4. PICK C \in SUBSET Dst :
          /\ Update(c, UpdateChannels(c, T, p), T, p, C)
          /\ \A S \in SUBSET Dst : ClosedUnder(c, T, p, S) => C \subseteq S
    BY <1>2, <1>3, UpdatePairs
  <1>5. ChannelsSettled(UpdateChannels(c, T, p), taken, D \union T)
    BY <1>1, <1>2, <1>4, UpdateSettles
  <1> QED
    BY <1>1, <1>2, <1>5, UpdateChannelsType DEF Updated

\* The tasks T have been resolved (calculateNextTasks).
LEMMA ResolvedMoves ==
  ASSUME TypeOK, NEW T \in SUBSET Src, NEW c, NEW R, hist' = Record(hist, c, T, R)
  PROVE  /\ Resolved(hist') = Resolved(hist) \union (T \ {START})
         /\ hist'.taken = hist.taken \union R
         /\ hist'.owed = (hist.owed \ T) \union R
  <1>1. hist'.taken = hist.taken \union R /\ hist'.owed = (hist.owed \ T) \union R
    BY DEF Record
  <1>2. \A n \in Node : hist'.times[n] = IF n \in T /\ hist.times[n] < 2 THEN hist.times[n] + 1 ELSE hist.times[n]
    BY DEF Record
  <1>3. \A n \in Node : hist.times[n] \in 0 .. 2
    BY DEF TypeOK, History
  <1>4. \A n \in Node : hist'.times[n] > 0 <=> n \in T \/ hist.times[n] > 0
    BY <1>2, <1>3
  <1>5. T \ {START} \subseteq Node
    BY DEF Src
  <1> QED
    BY <1>1, <1>4, <1>5 DEF Resolved

\* calculateNextTasks: the tasks that are handed out are new, no channel is
\* left ready, and the channels know what has been settled.
LEMMA CalculateSettles ==
  ASSUME Dag, TypeOK, NEW D \in SUBSET Src, ChannelsSettled(chan, hist.taken, D),
         NEW T \in SUBSET (hist.taken \union {START}), T \intersect D = {},
         D \union T = Resolved(hist) \union (T \ {START}),
         hist.owed \ T = hist.taken \ (D \union T),
         Calculate(T, Updated(T), ReadyChannels(Updated(T))),
         END \notin ReadyChannels(Updated(T))
  PROVE  /\ HistorySettled(chan', hist')
         /\ hist'.owed = (hist.owed \ T) \union ReadyChannels(Updated(T))
  <1>1. PICK u, taken, R : u = Updated(T) /\ taken = hist.taken /\ R = ReadyChannels(Updated(T))
    OBVIOUS
  <1>2. u \in Channels /\ taken \in SUBSET Node /\ D \union T \in SUBSET Src
        /\ ChannelsSettled(u, taken, D \union T)
    BY <1>1, UpdatedSettles DEF TypeOK, History, Src
  <1>3. /\ ReadyChannels(u) \intersect taken = {}
        /\ ReadyChannels(TakeReady(u)) = {}
        /\ ChannelsSettled(TakeReady(u), taken \union R, D \union T)
    BY <1>1, <1>2, TakeSettles
  <1>4. R \subseteq Node /\ R \ {END} = R
    BY <1>1, ReadyChannelsType
  <1>5. chan' = TakeReady(u) /\ hist' = Record(hist, u, T, R)
    BY <1>1, <1>4 DEF Calculate
  <1>6. /\ Resolved(hist') = D \union T
        /\ hist'.taken = taken \union R
        /\ hist'.owed = (hist.owed \ T) \union R
    BY <1>1, <1>2, <1>5, ResolvedMoves
  <1>7. R \intersect (D \union T) = {}
    BY <1>1, <1>2, <1>3, <1>4 DEF ChannelsSettled, Dst
  <1>8. hist'.owed = hist'.taken \ Resolved(hist')
    BY <1>1, <1>6, <1>7
  <1>9. ReadyChannels(chan') = {} /\ ChannelsSettled(chan', hist'.taken, Resolved(hist'))
    BY <1>3, <1>5, <1>6
  <1> QED
    BY <1>1, <1>6, <1>8, <1>9 DEF HistorySettled

\* The same for tasks that are owed.
LEMMA OwedSettles ==
  ASSUME Dag, TypeOK, HistorySettled(chan, hist), NEW T \in SUBSET hist.owed,
         Calculate(T, Updated(T), ReadyChannels(Updated(T))),
         END \notin ReadyChannels(Updated(T))
  PROVE  HistorySettled(chan', hist')
  <1>1. PICK D : D = Resolved(hist)
    OBVIOUS
  <1>2. /\ D \in SUBSET Src /\ ChannelsSettled(chan, hist.taken, D) /\ START \in D
        /\ hist.owed = hist.taken \ D
    BY <1>1 DEF HistorySettled, Resolved, Src
  <1> QED
    BY <1>1, <1>2, CalculateSettles

\* What is saved when tasks have to run again.
LEMMA RerunSettles ==
  ASSUME Dag, TypeOK, HistorySettled(chan, hist), NEW T \in SUBSET Node, HandleInterruptWithRerun(T),
         hist.owed = T \union timedOut, Interrupted(T) \union timedOut # {}
  PROVE  \/ result' = "error" /\ UNCHANGED <<chan, saved, hist>>
         \/ /\ result' = "interrupt" /\ HistorySettled(chan', hist')
            /\ saved'.chan = chan' /\ saved'.hist = hist'
  <1>1. PICK D, X : D = Resolved(hist) /\ X = Succeeded(T) \ timedOut
    OBVIOUS
  <1>2. CASE BranchFails(X)
    BY <1>1, <1>2 DEF HandleInterruptWithRerun, Stop
  <1>3. CASE ~BranchFails(X)
    <2>1. /\ result' = "interrupt" /\ chan' = Updated(X) /\ hist' = Record(hist, chan', X, {})
          /\ saved'.chan = chan' /\ saved'.hist = hist'
      BY <1>1, <1>3 DEF HandleInterruptWithRerun, Stop, Checkpoint
    <2>2. /\ X \subseteq hist.owed /\ X # hist.owed
      BY <1>1 DEF Succeeded, Interrupted
    <2>3. /\ D \in SUBSET Src /\ ChannelsSettled(chan, hist.taken, D) /\ START \in D
          /\ hist.owed = hist.taken \ D /\ X \subseteq hist.taken /\ X \intersect D = {}
          /\ X \in SUBSET Src
      BY <1>1, <2>2 DEF HistorySettled, Resolved, Src, TypeOK, History
    <2>4. ChannelsSettled(chan', hist.taken, D \union X)
      BY <2>1, <2>3, UpdatedSettles
    <2>5. PICK c, R : c = chan' /\ R = {}
      OBVIOUS
    <2>6. hist' = Record(hist, c, X, R)
      BY <2>1, <2>5
    <2>7. /\ Resolved(hist') = Resolved(hist) \union (X \ {START})
          /\ hist'.taken = hist.taken \union R
          /\ hist'.owed = (hist.owed \ X) \union R
      BY <2>3, <2>6, ResolvedMoves
    <2>8. Resolved(hist') = D \union X /\ hist'.taken = hist.taken /\ hist'.owed = hist.owed \ X
      BY <1>1, <2>3, <2>5, <2>7
    <2>9. hist'.owed # {} /\ hist'.owed = hist'.taken \ Resolved(hist')
      BY <2>2, <2>3, <2>8
    <2>10. ChannelsSettled(chan', hist'.taken, Resolved(hist'))
      BY <2>4, <2>8
    <2> QED
      BY <2>1, <2>9, <2>10 DEF HistorySettled
  <1> QED
    BY <1>2, <1>3

\* At first nothing has been settled.
THEOREM InitSettles == Init => SettlesAccounted
  BY DEF Init, SettlesAccounted, RerunsKnown, NoCheckpoint

\* Every step preserves SettlesAccounted.
THEOREM NextSettles ==
  ASSUME Dag, Unmixed
  PROVE  IInv /\ SettlesAccounted /\ [Next]_vars => SettlesAccounted'
  <1> SUFFICES ASSUME IInv, SettlesAccounted, [Next]_vars PROVE SettlesAccounted'
    OBVIOUS
  <1> USE DEF loopVars, taskVars, cancelVars, roundVars, callVars
  <1>0. /\ TypeOK /\ TasksAccounted /\ HitsAccounted
        /\ pc # "stopped" => result = "none"
        /\ running \subseteq Node
    BY DEF IInv, TypeOK, TasksAccounted
  <1>1. CASE Start
    <2>1. PICK T, D : T = {START} /\ D = {}
      OBVIOUS
    <2>2. /\ pc = "idle" /\ hist = NoHistory /\ chan = InitChannels /\ ~saved.present
          /\ pc' \in {"stopped", "loop"} /\ result = "none"
          /\ Calculate(T, Updated(T), ReadyChannels(Updated(T)))
          /\ UNCHANGED <<got, timedOut>>
      BY <1>0, <1>1, <2>1 DEF Start, Stop, HandleInterrupt, SettlesAccounted, HitsAccounted
    <2>3. /\ D \in SUBSET Src /\ ChannelsSettled(chan, hist.taken, D)
          /\ T \in SUBSET (hist.taken \union {START}) /\ T \intersect D = {}
          /\ Resolved(hist) = {START} /\ hist.owed = {} /\ hist.taken = {}
      <3>1. ChannelsSettled(InitChannels, {}, {})
        BY NothingSettled
      <3>2. Resolved(NoHistory) = {START} /\ NoHistory.taken = {} /\ NoHistory.owed = {}
        BY DEF Resolved, NoHistory
      <3> QED
        BY <2>1, <2>2, <3>1, <3>2
    <2>4. END \notin ReadyChannels(Updated(T)) =>
            /\ HistorySettled(chan', hist')
            /\ hist'.owed = (hist.owed \ T) \union ReadyChannels(Updated(T))
      <3>1. D \union T = Resolved(hist) \union (T \ {START}) /\ hist.owed \ T = hist.taken \ (D \union T)
        BY <2>1, <2>3
      <3> QED
        BY <1>0, <2>2, <2>3, <3>1, CalculateSettles
    <2>5. /\ result' # "end" => END \notin ReadyChannels(Updated(T))
          /\ result' = "noTask" => ReadyChannels(Updated(T)) = {}
          /\ saved'.present => result' = "interrupt" /\ saved'.chan = chan' /\ saved'.hist = hist'
      <3>1. PICK ready, b : ready = ReadyChannels(Updated(T)) /\ b = ready \intersect InterruptBefore
        OBVIOUS
      <3>2. \/ END \in ready /\ result' = "end" /\ saved' = saved
            \/ END \notin ready /\ ready = {} /\ result' = "noTask" /\ saved' = saved
            \/ END \notin ready /\ HandleInterrupt(ready, b, {})
            \/ END \notin ready /\ result' = result /\ saved' = saved
        BY <1>1, <2>1, <3>1 DEF Start, Stop
      <3>3. CASE END \notin ready /\ HandleInterrupt(ready, b, {})
        <4>1. result' = "interrupt" /\ saved' = Checkpoint(chan', ready, input', {}, b, {}, hist')
          BY <3>3 DEF HandleInterrupt, Stop
        <4>2. saved'.chan = chan' /\ saved'.hist = hist'
          BY <4>1 DEF Checkpoint
        <4> QED
          BY <3>1, <3>3, <4>1, <4>2
      <3> QED
        BY <2>2, <3>1, <3>2, <3>3
    <2> HIDE DEF HistorySettled
    <2> QED
      BY <2>2, <2>3, <2>4, <2>5 DEF SettlesAccounted, RerunsKnown
  <1>2. CASE LoopAborts \/ Aborted \/ ExceedMaxSteps \/ ResolveError
    BY <1>0, <1>2 DEF LoopAborts, Aborted, ExceedMaxSteps, ResolveError, Stop, SettlesAccounted, RerunsKnown
  <1>3. CASE NoTaskLeft
    <2>1. hist.owed = {}
      BY <1>0, <1>3 DEF NoTaskLeft, TasksAccounted, Where, SettlesAccounted
    <2> QED
      BY <1>0, <1>3, <2>1 DEF NoTaskLeft, Stop, SettlesAccounted, RerunsKnown
  <1>4. CASE Submit
    <2>1. /\ pc = "loop" /\ pc' = (IF running' = {} THEN "resolve" ELSE "wait")
          /\ UNCHANGED <<result, chan, hist, saved>>
      BY <1>4 DEF Submit
    <2> QED
      BY <2>1 DEF SettlesAccounted, RerunsKnown
  <1>5. CASE ResolveInterrupted
    BY <1>0, <1>5 DEF ResolveInterrupted, SettlesAccounted, RerunsKnown, Interrupted
  <1>6. CASE ResolveCompleted
    <2>1. PICK T : T = got
      OBVIOUS
    <2>2. /\ pc = "resolve" /\ result = "none" /\ T \subseteq hist.owed /\ HistorySettled(chan, hist)
          /\ UNCHANGED <<saved, got, timedOut>>
          /\ Calculate(T, Updated(T), ReadyChannels(Updated(T)))
      BY <1>0, <1>6, <2>1 DEF ResolveCompleted, TasksAccounted, Where, SettlesAccounted
    <2>3. END \notin ReadyChannels(Updated(T)) => HistorySettled(chan', hist')
      BY <1>0, <2>2, OwedSettles
    <2>4. /\ pc' \in {"stopped", "saveHit", "drainHit", "loop"} /\ result' # "noTask"
          /\ result' # "end" => END \notin ReadyChannels(Updated(T))
      BY <1>6, <2>1, <2>2 DEF ResolveCompleted, Stop
    <2> QED
      BY <2>2, <2>3, <2>4 DEF SettlesAccounted, RerunsKnown
  <1>7. CASE SaveRerun
    <2>1. PICK T : T = got \union more
      OBVIOUS
    <2>2. /\ pc = "saveRerun" /\ pc' = "stopped" /\ result = "none" /\ HistorySettled(chan, hist)
          /\ T \in SUBSET Node /\ hist.owed = T \union timedOut
          /\ Interrupted(T) \union timedOut # {}
      BY <1>0, <1>7, <2>1 DEF SaveRerun, HandleInterruptWithRerun, Stop, TasksAccounted, Where,
         SettlesAccounted, RerunsKnown, Interrupted, TypeOK
    <2>3. \/ result' = "error" /\ UNCHANGED <<chan, saved, hist>>
          \/ /\ result' = "interrupt" /\ HistorySettled(chan', hist')
             /\ saved'.chan = chan' /\ saved'.hist = hist'
      <3>1. CASE HandleInterruptWithRerun(T)
        BY <1>0, <2>2, <3>1, RerunSettles
      <3>2. CASE Stop("error") /\ UNCHANGED <<chan, input, saved, hist>>
        BY <3>2 DEF Stop
      <3> QED
        BY <1>7, <2>1, <3>1, <3>2 DEF SaveRerun
    <2> QED
      BY <2>2, <2>3 DEF SettlesAccounted, RerunsKnown
  <1>8. CASE SaveHit
    <2>1. PICK T : T = {}
      OBVIOUS
    <2>2. /\ pc = "saveHit" /\ result = "none" /\ more = {} /\ timedOut = {}
          /\ HistorySettled(chan, hist)
      BY <1>0, <1>8 DEF SaveHit, TasksAccounted, SettlesAccounted
    <2>3. Interrupted(more) \union timedOut = {} /\ ~(\E n \in more : out[n] = "err")
          /\ ~BranchFails(more)
      BY <2>2 DEF Interrupted, BranchFails
    <2>4. /\ Calculate(T, Updated(T), ReadyChannels(Updated(T))) /\ pc' = "stopped"
          /\ \/ result' = "end" /\ UNCHANGED saved
             \/ /\ END \notin ReadyChannels(Updated(T)) /\ result' = "interrupt"
                /\ saved'.chan = chan' /\ saved'.hist = hist'
      BY <1>8, <2>1, <2>2, <2>3 DEF SaveHit, HandleInterrupt, Stop, Checkpoint
    <2>5. END \notin ReadyChannels(Updated(T)) => HistorySettled(chan', hist')
      BY <1>0, <2>1, <2>2, <2>4, OwedSettles
    <2> QED
      BY <2>2, <2>4, <2>5 DEF SettlesAccounted, RerunsKnown
  <1>9. CASE Resume
    <2>1. /\ pc' = "loop" /\ result' = "none" /\ saved.present /\ saved' = saved
          /\ chan' = saved.chan /\ hist' = saved.hist
      BY <1>9 DEF Resume
    <2> QED
      BY <2>1 DEF SettlesAccounted, RerunsKnown
  <1>10. CASE SeeCancel
    BY <1>10 DEF SeeCancel, SettlesAccounted, RerunsKnown, Interrupted, Waiting
  <1>11. CASE Expire
    BY <1>0, <1>11 DEF Expire, SettlesAccounted, RerunsKnown, Interrupted, Waiting, Drained, TasksAccounted
  <1>12. ASSUME NEW n \in Node, Receive(n) PROVE SettlesAccounted'
    BY <1>0, <1>12 DEF Receive, SettlesAccounted, RerunsKnown, Interrupted, Waiting, Drained, TasksAccounted
  <1>13. ASSUME NEW n \in Node, Finish(n) PROVE SettlesAccounted'
    <2>1. /\ pc # "stopped" /\ n \in running /\ out[n] = "none"
          /\ UNCHANGED <<loopVars, running, roundVars, saved, runs, hist>>
      BY <1>13 DEF Finish
    <2>2. \A m \in Node : m # n => out'[m] = out[m]
      <3>1. \E o \in Outcome : out' = [out EXCEPT ![n] = o]
        BY <1>13 DEF Finish, Outcome
      <3> QED
        BY <1>0, <3>1 DEF TypeOK
    <2>3. pc \in {"drainRerun", "saveRerun"} => Interrupted(got)' = Interrupted(got)
      <3>1. pc \in {"drainRerun", "saveRerun"} => n \notin got /\ got \subseteq Node
        BY <1>0, <2>1 DEF TasksAccounted, TypeOK
      <3> QED
        BY <2>1, <2>2, <3>1 DEF Interrupted
    <2> QED
      BY <2>1, <2>3 DEF SettlesAccounted, RerunsKnown
  <1>14. CASE CallInterrupt \/ CancelContext
    BY <1>14 DEF CallInterrupt, CancelContext, SettlesAccounted, RerunsKnown, Interrupted
  <1>15. CASE UNCHANGED vars
    BY <1>15 DEF vars, SettlesAccounted, RerunsKnown, Interrupted
  <1> QED
    BY <1>1, <1>2, <1>3, <1>4, <1>5, <1>6, <1>7, <1>8, <1>9, <1>10, <1>11, <1>12, <1>13, <1>14,
       <1>15 DEF Next, Loop, Stopped

\* When nothing is owed and no channel is ready, all there is has been handed
\* out or skipped: otherwise the first channel that was not would be ready.
LEMMA AllHandedOutOrSkipped ==
  ASSUME Dag, Orderly, NEW c, NEW h, HistorySettled(c, h), h.owed = {}
  PROVE  Dst \subseteq h.taken \union c.skipped
  <1> DEFINE S == Dst \ (h.taken \union c.skipped)
  <1> SUFFICES ASSUME S # {} PROVE FALSE
    OBVIOUS
  <1>1. PICK d \in S : Leads(d) \intersect S = {}
    <2>1. S \in SUBSET Dst
      OBVIOUS
    <2> QED
      BY <2>1 DEF Orderly
  <1>2. Informed(c, Resolved(h), d) /\ h.taken \subseteq Resolved(h) /\ ReadyChannels(c) = {}
    BY <1>1 DEF HistorySettled, ChannelsSettled
  <1>3. \A s \in Leads(d) : s \in Resolved(h) \union c.skipped
    BY <1>1, <1>2 DEF Leads, Preds, Src, Dst, Resolved
  <1>4. Ready(c, d)
    BY <1>1, <1>2, <1>3 DEF Ready, Informed, Leads, Orderly, Preds
  <1> QED
    BY <1>1, <1>2, <1>4 DEF ReadyChannels

\* A run of an AllPredecessor graph that gives up with "no tasks to execute"
\* has skipped END, through whatever interrupts and resumptions: in a graph
\* that is in order END is reached unless the branches led away from it.
THEOREM StuckCorrect ==
  ASSUME Dag, Unmixed, Orderly
  PROVE  Spec => []StuckOnlyIfEndSkipped
  <1>1. Init => IInv /\ SettlesAccounted
    BY InitType, InitHits, InitTasks, InitSettles DEF IInv
  <1>2. IInv /\ SettlesAccounted /\ [Next]_vars => (IInv /\ SettlesAccounted)'
    BY NextType, NextHits, NextTasks, NextSettles DEF IInv
  <1>3. IInv /\ SettlesAccounted => StuckOnlyIfEndSkipped
    <2> SUFFICES ASSUME IInv, SettlesAccounted, result = "noTask" PROVE END \in chan.skipped
      BY DEF StuckOnlyIfEndSkipped
    <2>1. pc # "idle"
      BY DEF IInv, TasksAccounted
    <2>2. HistorySettled(chan, hist) /\ hist.owed = {}
      BY <2>1 DEF SettlesAccounted
    <2>3. Dst \subseteq hist.taken \union chan.skipped
      BY <2>2, AllHandedOutOrSkipped
    <2>4. hist.taken \subseteq Node /\ END \in Dst /\ END \notin Node
      BY DEF IInv, TypeOK, History, Src, Dst
    <2> QED
      BY <2>3, <2>4
  <1> QED
    BY <1>1, <1>2, <1>3, PTL DEF Spec

(***************************************************************************)
(* A graph in the AllPredecessor mode is a data flow.                      *)
(***************************************************************************)

\* Dataflow is about the same graph.
LEMMA SameGraph ==
  /\ Abstract!Src = Src /\ Abstract!Dst = Dst
  /\ Abstract!ControlEdges = ControlEdges /\ Abstract!DataEdges = DataEdges
  /\ \A E, d : Abstract!Preds(E, d) = Preds(E, d)
  /\ \A t : Abstract!Selections(t) = Selections(t)
  <1>1. Abstract!Src = Src /\ Abstract!Dst = Dst /\ \A s : Abstract!BranchEnds(s) = BranchEnds(s)
    BY DEF Abstract!Src, Src, Abstract!Dst, Dst, Abstract!BranchEnds, BranchEnds
  <1>2. Abstract!ControlEdges = ControlEdges
    BY <1>1 DEF Abstract!ControlEdges, ControlEdges
  <1>3. Abstract!DataEdges = DataEdges
    BY <1>1 DEF Abstract!DataEdges, DataEdges, Abstract!DataBranchEnds, DataBranchEnds
  <1>4. \A E, d : Abstract!Preds(E, d) = Preds(E, d)
    BY <1>1 DEF Abstract!Preds, Preds
  <1>5. \A t : Abstract!Selections(t) = Selections(t)
    BY <1>1 DEF Abstract!Selections, Selections
  <1> QED
    BY <1>1, <1>2, <1>3, <1>4, <1>5

\* Before anything has run nothing is skipped and nothing has been delivered.
LEMMA NothingFlows == ASSUME NEW sel PROVE FlowSettled(InitChannels, {}, {}, sel)
  <1>1. Abstract!DeadSet({}, sel, {})
    BY SameGraph DEF Abstract!DeadSet
  <1>2. Abstract!Skipped({}, sel) = {}
    BY <1>1, SameGraph DEF Abstract!Skipped
  <1>3. \A d \in Dst : Abstract!InputOf({}, sel, d) = {} /\ Preds({}, d) = {}
    BY SameGraph DEF Abstract!InputOf, Abstract!Delivers, Preds
  <1> QED
    BY <1>2, <1>3 DEF FlowSettled, InitChannels

\* When tasks are resolved the channels agree with the data flow in which
\* these have finished.
LEMMA UpdateFlows ==
  ASSUME Ordered, Separate, NEW c \in Channels, NEW taken \in SUBSET Node, NEW D \in SUBSET Src,
         NEW sel, ChannelsSettled(c, taken, D), FlowSettled(c, taken, D, sel),
         NEW T \in SUBSET (taken \union {START}), T \intersect D = {},
         NEW p, NEW u, NEW C \in SUBSET Dst, Update(c, u, T, p, C),
         \A S \in SUBSET Dst : ClosedUnder(c, T, p, S) => C \subseteq S,
         ChannelsSettled(u, taken, D \union T), Added(c, u, taken, C),
         NEW chosen, \A s \in Src : chosen[s] = IF s \in T THEN p[s] ELSE sel[s]
  PROVE  FlowSettled(u, taken, D \union T, chosen)
  <1> DEFINE E == D \union T
  <1>0. /\ ChannelsSettled(u, taken, E) /\ C \intersect taken = {} /\ u.skipped = c.skipped \union C
        /\ T \in SUBSET Src /\ START \notin Dst /\ E \ {START} \subseteq taken
        /\ taken \intersect u.skipped = {} /\ c.skipped \subseteq Dst /\ u.skipped \subseteq Dst
        /\ \A s \in T : s \notin D \union u.skipped
    <2>1. c.skipped \subseteq Dst /\ u.skipped \subseteq Dst
      BY DEF Update, Channels
    <2>2. E \ {START} \subseteq taken /\ taken \intersect u.skipped = {}
      BY DEF ChannelsSettled
    <2>3. START \notin Dst /\ T \in SUBSET Src
      BY DEF Src, Dst
    <2>4. C \intersect taken = {} /\ u.skipped = c.skipped \union C
      BY DEF Added
    <2> QED
      BY <2>1, <2>2, <2>3, <2>4
  <1>1. \A s \in Src : \A d : Abstract!LeadsTo(E, chosen, s, d) <=>
          IF s \in T THEN d \in Controls[s] \union p[s] ELSE Abstract!LeadsTo(D, sel, s, d)
    BY DEF Abstract!LeadsTo
  <1>2. ASSUME NEW d \in Dst \ taken, NEW s \in Preds(ControlEdges, d)
        PROVE  <<s, d>> \in u.skip <=>
                 s \in u.skipped \/ (s \in E /\ ~Abstract!LeadsTo(E, chosen, s, d))
    <2>1. s \in Src /\ <<s, d>> \in ControlEdges /\ d \in Controls[s] \union BranchEnds(s)
      BY DEF Preds, ControlEdges
    <2>2. <<s, d>> \in c.skip <=> s \in c.skipped \/ (s \in D /\ ~Abstract!LeadsTo(D, sel, s, d))
      BY DEF FlowSettled
    <2>3. <<s, d>> \in u.skip <=>
            /\ <<s, d>> \in c.skip \/ Reports(T, p, C, s, d)
            /\ ~(Completes(T, p, s, d) /\ d \notin u.skipped)
      BY <2>1 DEF Update
    <2>4. CASE s \in T
      <3>1. Reports(T, p, C, s, d) <=> d \in BranchEnds(s) \ p[s]
        BY <1>0, <2>4 DEF Reports
      <3>2. Completes(T, p, s, d) <=> d \in Controls[s] \union p[s]
        BY <2>4 DEF Completes
      <3>3. <<s, d>> \notin c.skip
        BY <1>0, <2>2, <2>4
      <3> QED
        BY <1>0, <1>1, <2>1, <2>3, <2>4, <3>1, <3>2, <3>3 DEF Separate
    <2>5. CASE s \notin T
      <3>1. Reports(T, p, C, s, d) <=> s \in C
        BY <1>0, <2>1, <2>5, ReportersLead, LeadersReport
      <3>2. ~Completes(T, p, s, d)
        BY <2>5 DEF Completes
      <3> QED
        BY <1>0, <1>1, <2>1, <2>2, <2>3, <2>5, <3>1, <3>2
    <2> QED
      BY <2>4, <2>5
  <1>3. ASSUME NEW d \in Dst \ taken, d \notin u.skipped
        PROVE  Preds(u.vals, d) = Abstract!InputOf(E, chosen, d)
    <2>1. \A s \in Src : <<s, d>> \in u.vals <=>
            <<s, d>> \in c.vals \/ (Writer(T, p, s, d) /\ <<s, d>> \in DataEdges)
      BY <1>3 DEF Update
    <2>2. Preds(c.vals, d) = Abstract!InputOf(D, sel, d)
      BY <1>0, <1>3 DEF FlowSettled
    <2>3. \A s \in Src : <<s, d>> \in c.vals <=>
            <<s, d>> \in DataEdges /\ s \in D /\ d \in WriteTo[s] \union sel[s]
      BY <2>2, SameGraph DEF Abstract!InputOf, Abstract!Delivers, Preds
    <2>4. \A s \in Src : <<s, d>> \in u.vals <=>
            <<s, d>> \in DataEdges /\ s \in E /\ d \in WriteTo[s] \union chosen[s]
      BY <2>1, <2>3 DEF Writer
    <2> QED
      BY <2>4, SameGraph DEF Abstract!InputOf, Abstract!Delivers, Preds
  <1>4. ASSUME NEW d \in taken
        PROVE  \E s \in Preds(ControlEdges, d) : Abstract!LeadsTo(E, chosen, s, d)
    <2>1. PICK s \in Preds(ControlEdges, d) : Abstract!LeadsTo(D, sel, s, d)
      BY DEF FlowSettled
    <2>2. s \in Src /\ s \in D
      BY <2>1 DEF Preds, Abstract!LeadsTo
    <2> QED
      BY <1>0, <1>1, <2>1, <2>2
  <1>5. Abstract!DeadSet(E, chosen, u.skipped)
    <2>1. ASSUME NEW d \in Dst, Preds(ControlEdges, d) # {},
                 \A s \in Preds(ControlEdges, d) :
                   (s \in E /\ ~Abstract!LeadsTo(E, chosen, s, d)) \/ s \in u.skipped
          PROVE  d \in u.skipped
      <3>1. CASE d \in taken
        <4>1. PICK s \in Preds(ControlEdges, d) : Abstract!LeadsTo(E, chosen, s, d)
          BY <1>4, <3>1
        <4>2. s \in E /\ s \in u.skipped
          BY <2>1, <4>1 DEF Abstract!LeadsTo
        <4> QED
          BY <1>0, <4>2
      <3>2. CASE d \notin taken
        <4>1. Preds(ControlEdges, d) \subseteq Preds(u.skip, d)
          BY <1>2, <2>1, <3>2 DEF Preds
        <4>2. Informed(u, E, d)
          BY <1>0, <3>2 DEF ChannelsSettled
        <4> QED
          BY <2>1, <4>1, <4>2 DEF Informed
      <3> QED
        BY <3>1, <3>2
    <2> QED
      BY <2>1, SameGraph DEF Abstract!DeadSet
  <1>6. ASSUME NEW S \in SUBSET Dst, Abstract!DeadSet(E, chosen, S) PROVE u.skipped \subseteq S
    <2>1. \A d \in Dst : \A s \in Preds(ControlEdges, d) :
            s \in D => (Abstract!LeadsTo(E, chosen, s, d) <=> Abstract!LeadsTo(D, sel, s, d))
      BY <1>0, <1>1
    <2>2. Abstract!DeadSet(D, sel, S)
      BY <1>6, <2>1, SameGraph DEF Abstract!DeadSet
    <2>3. c.skipped \subseteq S
      BY <2>2, SameGraph DEF FlowSettled, Abstract!Skipped
    <2> DEFINE X == C \intersect S
    <2>4. ASSUME NEW d \in Dst, NEW r \in Src, Reports(T, p, X, r, d),
                 \A s \in Preds(ControlEdges, d) : <<s, d>> \in c.skip \/ Reports(T, p, X, s, d)
          PROVE  d \in X
      <3>1. \A s \in Src : Reports(T, p, X, s, d) => Reports(T, p, C, s, d)
        BY DEF Reports
      <3>2. \A s \in Preds(ControlEdges, d) : s \in Src /\ d \in Controls[s] \union BranchEnds(s)
        BY DEF Preds, ControlEdges
      <3>3. d \in C /\ d \notin taken
        BY <1>0, <2>4, <3>1, <3>2, ZenonT(30) DEF Update
      <3>4. Preds(ControlEdges, d) # {}
        <4>1. <<r, d>> \in ControlEdges \/ <<r, d>> \in DataEdges
          BY <1>0, <2>4, ReportersLead
        <4> QED
          BY <4>1 DEF Ordered, Preds
      <3>5. ASSUME NEW s \in Preds(ControlEdges, d)
            PROVE  (s \in E /\ ~Abstract!LeadsTo(E, chosen, s, d)) \/ s \in S
        <4>1. CASE <<s, d>> \in c.skip
          <5>1. s \in c.skipped \/ (s \in D /\ ~Abstract!LeadsTo(D, sel, s, d))
            BY <3>3, <4>1 DEF FlowSettled
          <5> QED
            BY <2>1, <2>3, <5>1
        <4>2. CASE Reports(T, p, X, s, d)
          <5>1. s \in S \/ (s \in T /\ d \in BranchEnds(s) \ p[s])
            BY <4>2 DEF Reports
          <5> QED
            BY <1>1, <3>2, <5>1 DEF Separate
        <4> QED
          BY <2>4, <4>1, <4>2
      <3> QED
        BY <1>6, <3>3, <3>4, <3>5, SameGraph DEF Abstract!DeadSet
    <2>5. ClosedUnder(c, T, p, X)
      <3> HIDE DEF X
      <3> QED
        BY <2>4 DEF ClosedUnder
    <2> QED
      BY <1>0, <2>3, <2>5
  <1>7. u.skipped = Abstract!Skipped(E, chosen)
    <2>1. \A d : d \in Abstract!Skipped(E, chosen) <=>
                   d \in Dst /\ \A S \in SUBSET Dst : Abstract!DeadSet(E, chosen, S) => d \in S
      BY SameGraph DEF Abstract!Skipped
    <2>2. \A d \in u.skipped : d \in Abstract!Skipped(E, chosen)
      BY <1>0, <1>6, <2>1
    <2>3. \A d \in Abstract!Skipped(E, chosen) : d \in u.skipped
      BY <1>0, <1>5, <2>1
    <2> QED
      BY <2>2, <2>3
  <1> QED
    BY <1>2, <1>3, <1>4, <1>7 DEF FlowSettled

\* A channel that hands out its value is enabled in the data flow, was led
\* to, and hands out what the data flow says.
LEMMA ReadyEnabled ==
  ASSUME Dag, Ordered, NEW u \in Channels, NEW taken \in SUBSET Node, NEW D \in SUBSET Src, NEW sel,
         ChannelsSettled(u, taken, D), FlowSettled(u, taken, D, sel), NEW d \in ReadyChannels(u)
  PROVE  /\ d \notin taken
         /\ Abstract!Enabled(D, sel, d)
         /\ Preds(u.vals, d) = Abstract!InputOf(D, sel, d)
         /\ \E s \in Preds(ControlEdges, d) : Abstract!LeadsTo(D, sel, s, d)
  <1>1. /\ d \in Dst /\ d \notin u.skipped /\ Leads(d) # {}
        /\ \A s \in Preds(ControlEdges, d) : <<s, d>> \in u.ready \union u.skip
        /\ \A s \in Preds(DataEdges, d) : <<s, d>> \in u.data
    BY DEF ReadyChannels, Ready, Leads, Preds
  <1>2. d \notin taken
    BY TakeSettles
  <1>3. Informed(u, D, d) /\ u.skipped = Abstract!Skipped(D, sel)
    BY <1>1, <1>2 DEF ChannelsSettled, FlowSettled
  <1>4. \A s \in Leads(d) : s \in D \union u.skipped
    BY <1>1, <1>3 DEF Informed, Leads
  <1>5. Abstract!Enabled(D, sel, d)
    BY <1>1, <1>3, <1>4, SameGraph DEF Abstract!Enabled, Abstract!Settled, Leads
  <1>6. Preds(u.vals, d) = Abstract!InputOf(D, sel, d)
    BY <1>1, <1>2 DEF FlowSettled
  <1>7. \E s \in Preds(ControlEdges, d) : Abstract!LeadsTo(D, sel, s, d)
    <2>1. Preds(ControlEdges, d) # {}
      BY <1>1 DEF Ordered, Leads
    <2>2. PICK s \in Preds(ControlEdges, d) : <<s, d>> \notin u.skip
      BY <1>1, <1>3, <2>1 DEF Informed, Preds
    <2>3. s \in D \union u.skipped
      BY <1>4, <2>2 DEF Leads
    <2> QED
      BY <1>1, <1>2, <2>2, <2>3 DEF FlowSettled
  <1> QED
    BY <1>2, <1>5, <1>6, <1>7

\* Handing out the values keeps the channels in agreement.
LEMMA TakeFlows ==
  ASSUME Dag, Ordered, NEW u \in Channels, NEW taken \in SUBSET Node, NEW D \in SUBSET Src, NEW sel,
         ChannelsSettled(u, taken, D), FlowSettled(u, taken, D, sel)
  PROVE  FlowSettled(TakeReady(u), taken \union ReadyChannels(u), D, sel)
  <1> DEFINE R == ReadyChannels(u)
             v == TakeReady(u)
  <1>1. /\ v.skipped = u.skipped /\ v.skip = Without(u.skip, R) /\ v.vals = Without(u.vals, R)
    BY DEF TakeReady, Channels
  <1>2. \A d \in R : \E s \in Preds(ControlEdges, d) : Abstract!LeadsTo(D, sel, s, d)
    BY ReadyEnabled
  <1> HIDE DEF R, v
  <1>3. \A d \in Dst \ R : Preds(v.vals, d) = Preds(u.vals, d) /\ \A s : <<s, d>> \in v.skip <=> <<s, d>> \in u.skip
    BY <1>1 DEF Without, Preds
  <1>4. FlowSettled(v, taken \union R, D, sel)
    BY <1>1, <1>2, <1>3 DEF FlowSettled
  <1> QED
    BY <1>4 DEF R, v

\* The same for the run: the tasks T are resolved.
LEMMA UpdatedFlows ==
  ASSUME Dag, Ordered, Separate, TypeOK, NEW D \in SUBSET Src, ChannelsSettled(chan, hist.taken, D),
         FlowSettled(chan, hist.taken, D, hist.chosen),
         NEW T \in SUBSET (hist.taken \union {START}), T \intersect D = {}
  PROVE  \A chosen : (\A s \in Src : chosen[s] = IF s \in T THEN pick[s] ELSE hist.chosen[s])
                       => FlowSettled(Updated(T), hist.taken, D \union T, chosen)
  <1>1. PICK c, taken, p, sel : c = chan /\ taken = hist.taken /\ p = pick /\ sel = hist.chosen
    OBVIOUS
  <1>2. c \in Channels /\ taken \in SUBSET Node
    BY <1>1 DEF TypeOK, History
  <1>3. T \in SUBSET Src
    BY <1>1, <1>2 DEF Src
  <1>4. PICK C \in SUBSET Dst :
          /\ Update(c, UpdateChannels(c, T, p), T, p, C)
          /\ \A S \in SUBSET Dst : ClosedUnder(c, T, p, S) => C \subseteq S
    BY <1>2, <1>3, UpdatePairs
  <1>5. PICK u : u = UpdateChannels(c, T, p)
    OBVIOUS
  <1>6. ChannelsSettled(u, taken, D \union T) /\ Added(c, u, taken, C)
    <2>1. ChannelsSettled(c, taken, D) /\ T \in SUBSET (taken \union {START}) /\ Update(c, u, T, p, C)
      BY <1>1, <1>4, <1>5
    <2> QED
      BY <1>2, <1>4, <2>1, UpdateSettles
  <1>7. ASSUME NEW chosen, \A s \in Src : chosen[s] = IF s \in T THEN p[s] ELSE sel[s]
        PROVE  FlowSettled(u, taken, D \union T, chosen)
    <2>1. ChannelsSettled(c, taken, D) /\ FlowSettled(c, taken, D, sel) /\ T \in SUBSET (taken \union {START})
      BY <1>1
    <2>2. Update(c, u, T, p, C)
      BY <1>4, <1>5
    <2> QED
      BY <1>2, <1>4, <1>6, <1>7, <2>1, <2>2, UpdateFlows
  <1> QED
    BY <1>1, <1>5, <1>7 DEF Updated

\* A step that resolves the tasks T and hands out the tasks F is a step of
\* the data flow: D had finished before, and E have finished then.
LEMMA Advances ==
  ASSUME Dag, Ordered, TypeOK, NEW D \in SUBSET Src, D = DoneIn(hist),
         NEW T \in SUBSET (hist.taken \union {START}), T \intersect D = {},
         NEW E \in SUBSET Src, E = D \union T, E = DoneIn(hist)', NEW F \in SUBSET Node, T \union F # {},
         NEW u \in Channels, F \subseteq ReadyChannels(u), hist' = Record(hist, u, T, F),
         ChannelsSettled(u, hist.taken, E), FlowSettled(u, hist.taken, E, hist'.chosen),
         \A t \in T : pick[t] \in Selections(t),
         result # "end", result' = "end" => END \in ReadyChannels(u),
         Kept' = Kept \/ Kept' = Abstract!progress'
  PROVE  Abstract!Next
  <1>1. PICK choice, taken, sel, fed, chosen :
          /\ choice = [t \in T |-> pick[t]] /\ taken = hist.taken /\ sel = hist.chosen
          /\ fed = hist'.fed /\ chosen = hist'.chosen
    OBVIOUS
  <1>2. /\ taken \in SUBSET Node /\ T \in SUBSET Src /\ END \notin Node
        /\ hist.fed \in [Node -> SUBSET Src] /\ sel \in [Src -> SUBSET Dst]
    BY <1>1 DEF TypeOK, History, Src
  <1>3. /\ hist'.taken = taken \union F
        /\ fed = [n \in Node |-> IF n \in F THEN Preds(u.vals, n) ELSE hist.fed[n]]
        /\ chosen = [s \in Src |-> IF s \in T THEN pick[s] ELSE sel[s]]
    BY <1>1 DEF Record
  <1>4. \A d \in ReadyChannels(u) : /\ d \notin taken
                                    /\ Abstract!Enabled(E, chosen, d)
                                    /\ Preds(u.vals, d) = Abstract!InputOf(E, chosen, d)
    <2>1. ChannelsSettled(u, taken, E) /\ FlowSettled(u, taken, E, chosen)
      BY <1>1
    <2>2. taken \in SUBSET Node
      BY <1>2
    <2> QED
      BY <2>1, <2>2, ReadyEnabled
  <1>5. choice \in [T -> UNION {Abstract!Selections(t) : t \in T}]
        /\ \A t \in T : choice[t] \in Abstract!Selections(t)
    BY <1>1, SameGraph
  <1>6. chosen = [s \in Abstract!Src |-> IF s \in T THEN choice[s] ELSE sel[s]]
    BY <1>1, <1>3, SameGraph
  <1>7. fed = [n \in Node |-> IF n \in F THEN Abstract!InputOf(E, chosen, n) ELSE hist.fed[n]]
    BY <1>3, <1>4
  <1>8. (result = "end")' \in {FALSE, Abstract!Enabled(E, chosen, END)}
    <2>1. CASE result' = "end"
      <3>1. Abstract!Enabled(E, chosen, END) = TRUE
        BY <1>4, <2>1 DEF Abstract!Enabled
      <3> QED
        BY <2>1, <3>1
    <2>2. CASE result' # "end"
      BY <2>2
    <2> QED
      BY <2>1, <2>2
  <1>9. Abstract!Advance(T, F)
    <2>1. F \intersect hist.taken = {} /\ \A n \in F : Abstract!Enabled((DoneIn(hist))', hist'.chosen, n)
      <3>1. \A n \in F : n \notin taken /\ Abstract!Enabled(E, chosen, n)
        BY <1>4
      <3>2. taken = hist.taken /\ chosen = hist'.chosen /\ E = (DoneIn(hist))'
        BY <1>1
      <3>3. F \intersect hist.taken = {}
        BY <3>1, <3>2
      <3>4. \A n \in F : Abstract!Enabled((DoneIn(hist))', hist'.chosen, n)
        BY <3>1, <3>2, ZenonT(30)
      <3> QED
        BY <3>3, <3>4
    <2>2. /\ T \subseteq (hist.taken \union {START}) \ DoneIn(hist)
          /\ (DoneIn(hist))' = DoneIn(hist) \union T /\ hist'.taken = hist.taken \union F
      BY <1>1, <1>3
    <2>3. \E ch \in [T -> UNION {Abstract!Selections(t) : t \in T}] :
            /\ \A t \in T : ch[t] \in Abstract!Selections(t)
            /\ hist'.chosen = [s \in Abstract!Src |-> IF s \in T THEN ch[s] ELSE hist.chosen[s]]
      BY <1>1, <1>5, <1>6
    <2>4. hist'.fed = [n \in Node |-> IF n \in F THEN Abstract!InputOf((DoneIn(hist))', hist'.chosen, n)
                                   ELSE hist.fed[n]]
      BY <1>1, <1>7
    <2>5. (result = "end")' \in {FALSE, Abstract!Enabled((DoneIn(hist))', hist'.chosen, END)}
      BY <1>1, <1>8
    <2>6. Kept' \in {Kept, Abstract!progress'}
      OBVIOUS
    <2> QED
      BY <2>1, <2>2, <2>3, <2>4, <2>5, <2>6 DEF Abstract!Advance
  <1> QED
    BY <1>2, <1>9, SameGraph DEF Abstract!Next

\* What is kept stays, or is the history as it is now.
LEMMA KeptStays ==
  ASSUME saved' = saved, saved.present => runs # 0 /\ runs' # 0
  PROVE  Kept' = Kept
  <1>1. CASE ~saved.present
    BY <1>1 DEF Kept
  <1>2. CASE saved.present
    <2>1. (DoneIn(saved.hist))' = DoneIn(saved.hist)
      BY <1>2 DEF DoneIn
    <2> QED
      BY <1>2, <2>1 DEF Kept
  <1> QED
    BY <1>1, <1>2

\* What Dataflow is told of a kept run is what its channels and history hold.
LEMMA KeptMade ==
  ASSUME saved'.present, saved'.hist = hist'
  PROVE  Kept' = Abstract!progress'
  <1>1. (DoneIn(saved.hist))' = (DoneIn(hist))'
    BY DEF DoneIn
  <1>2. Kept' = [fired |-> hist'.taken, sel |-> hist'.chosen, fed |-> hist'.fed, done |-> (DoneIn(saved.hist))']
    BY DEF Kept
  <1>3. Abstract!progress' = [fired |-> hist'.taken, done |-> (DoneIn(hist))', sel |-> hist'.chosen, fed |-> hist'.fed]
    BY DEF Abstract!progress
  <1> QED
    BY <1>1, <1>2, <1>3

\* calculateNextTasks: a step of the data flow, after which the channels
\* agree with it.
LEMMA CalculateFlows ==
  ASSUME Dag, Ordered, Separate, TypeOK, NEW D \in SUBSET Src, D = DoneIn(hist),
         ChannelsSettled(chan, hist.taken, D), FlowSettled(chan, hist.taken, D, hist.chosen),
         NEW T \in SUBSET (hist.taken \union {START}), T \intersect D = {}, T # {},
         D \union T = Resolved(hist) \union (T \ {START}),
         Calculate(T, Updated(T), ReadyChannels(Updated(T))),
         \A t \in T : pick[t] \in Selections(t), runs' # 0,
         result # "end", result' = "end" => END \in ReadyChannels(Updated(T)),
         Kept' = Kept \/ Kept' = Abstract!progress'
  PROVE  /\ Abstract!Next
         /\ END \notin ReadyChannels(Updated(T)) => HistoryFlows(chan', hist')
  <1>1. PICK u, R, F, E, taken :
          /\ u = Updated(T) /\ R = ReadyChannels(u) /\ F = R \ {END} /\ E = D \union T /\ taken = hist.taken
    OBVIOUS
  <1>2. /\ taken \in SUBSET Node /\ E \in SUBSET Src /\ T \in SUBSET Src
        /\ u \in Channels /\ ChannelsSettled(u, taken, E)
    BY <1>1, UpdatedSettles DEF TypeOK, History, Src
  <1>3. F \in SUBSET Node /\ F \subseteq R /\ (END \notin R => F = R)
    BY <1>1, ReadyChannelsType
  <1>4. hist' = Record(hist, u, T, F) /\ chan' = TakeReady(u)
    BY <1>1 DEF Calculate
  <1>5. \A s \in Src : hist'.chosen[s] = IF s \in T THEN pick[s] ELSE hist.chosen[s]
    BY <1>4 DEF Record
  <1>6. PICK chosen : chosen = hist'.chosen
    OBVIOUS
  <1>7. FlowSettled(u, taken, E, chosen)
    BY <1>1, <1>5, <1>6, UpdatedFlows
  <1>8. Resolved(hist') = E /\ hist'.taken = taken \union F
    <2>1. /\ Resolved(hist') = Resolved(hist) \union (T \ {START})
          /\ hist'.taken = hist.taken \union F
      BY <1>2, <1>4, ResolvedMoves
    <2> QED
      BY <1>1, <2>1
  <1>9. E = (DoneIn(hist))'
    <2>1. (DoneIn(hist))' = Resolved(hist')
      BY DEF DoneIn, Resolved
    <2> QED
      BY <1>8, <2>1
  <1>10. Abstract!Next
    <2>1. T \union F # {} /\ ChannelsSettled(u, hist.taken, E) /\ FlowSettled(u, hist.taken, E, hist'.chosen)
      BY <1>1, <1>2, <1>6, <1>7
    <2>2. F \subseteq ReadyChannels(u) /\ (result' = "end" => END \in ReadyChannels(u))
      BY <1>1, <1>3
    <2>3. E = D \union T /\ E \in SUBSET Src /\ u \in Channels /\ F \in SUBSET Node
      BY <1>1, <1>2, <1>3
    <2> QED
      BY <1>4, <1>9, <2>1, <2>2, <2>3, Advances
  <1>11. ASSUME END \notin R PROVE HistoryFlows(chan', hist')
    <2>1. FlowSettled(TakeReady(u), taken \union ReadyChannels(u), E, chosen)
      BY <1>2, <1>7, TakeFlows
    <2> QED
      BY <1>1, <1>3, <1>4, <1>6, <1>8, <1>11, <2>1 DEF HistoryFlows
  <1> QED
    BY <1>1, <1>10, <1>11

\* What is saved when tasks have to run again: the completed ones advance
\* the data flow, or what has been reached is kept.
LEMMA RerunFlows ==
  ASSUME Dag, Ordered, Separate, TypeOK, PicksKnown, HistorySettled(chan, hist), HistoryFlows(chan, hist),
         NEW T \in SUBSET Node, HandleInterruptWithRerun(T), hist.owed = T \union timedOut,
         runs # 0, runs' = runs, result = "none"
  PROVE  \/ result' = "error" /\ UNCHANGED <<chan, saved, hist>>
         \/ /\ result' = "interrupt" /\ HistoryFlows(chan', hist') /\ Abstract!Next
            /\ saved'.present /\ saved'.chan = chan' /\ saved'.hist = hist'
  <1>1. PICK D, X, u, taken, E :
          /\ D = Resolved(hist) /\ X = Succeeded(T) \ timedOut /\ u = Updated(X) /\ taken = hist.taken
          /\ E = D \union X
    OBVIOUS
  <1>2. CASE BranchFails(X)
    BY <1>1, <1>2 DEF HandleInterruptWithRerun, Stop
  <1>3. CASE ~BranchFails(X)
    <2>1. /\ result' = "interrupt" /\ chan' = u /\ hist' = Record(hist, u, X, {})
          /\ saved'.present /\ saved'.chan = chan' /\ saved'.hist = hist'
      BY <1>1, <1>3 DEF HandleInterruptWithRerun, Stop, Checkpoint
    <2>2. /\ D \in SUBSET Src /\ ChannelsSettled(chan, hist.taken, D) /\ X \in SUBSET Src
          /\ X \subseteq hist.owed /\ hist.owed = hist.taken \ D /\ E \in SUBSET Src /\ START \notin X
          /\ D = DoneIn(hist)
      <3>1. X \subseteq T /\ T \subseteq Node /\ START \notin Node
        BY <1>1 DEF Succeeded, Dst
      <3> QED
        BY <1>1, <3>1 DEF HistorySettled, Resolved, Src, DoneIn
    <2>3. X \in SUBSET (hist.taken \union {START}) /\ X \intersect D = {}
      BY <2>2
    <2>4. ChannelsSettled(u, taken, E) /\ u \in Channels
      BY <1>1, <2>2, <2>3, UpdatedSettles
    <2>5. \A s \in Src : hist'.chosen[s] = IF s \in X THEN pick[s] ELSE hist.chosen[s]
      BY <2>1 DEF Record
    <2>6. PICK chosen, F : chosen = hist'.chosen /\ F = {}
      OBVIOUS
    <2>7. FlowSettled(u, taken, E, chosen)
      <3>1. FlowSettled(chan, hist.taken, D, hist.chosen)
        BY <1>1 DEF HistoryFlows
      <3> QED
        BY <1>1, <2>2, <2>3, <2>5, <2>6, <3>1, UpdatedFlows
    <2>8. Resolved(hist') = E /\ hist'.taken = taken
      <3>1. hist' = Record(hist, u, X, F)
        BY <2>1, <2>6
      <3>2. /\ Resolved(hist') = Resolved(hist) \union (X \ {START})
            /\ hist'.taken = hist.taken \union F
        BY <2>2, <3>1, ResolvedMoves
      <3>3. Resolved(hist) = D /\ hist.taken = taken /\ X \ {START} = X /\ E = D \union X
        BY <1>1, <2>2
      <3>4. taken \union F = taken
        BY <2>6
      <3> QED
        BY <3>2, <3>3, <3>4
    <2>9. HistoryFlows(chan', hist')
      BY <2>1, <2>6, <2>7, <2>8 DEF HistoryFlows
    <2>10. (DoneIn(hist))' = E
      <3>1. runs' # 0
        OBVIOUS
      <3>2. (DoneIn(hist))' = Resolved(hist')
        BY <3>1 DEF DoneIn, Resolved
      <3> QED
        BY <2>8, <3>2
    <2>11. Kept' = Abstract!progress'
      BY <2>1, KeptMade
    <2>12. CASE X # {}
      <3>1. \A t \in X : pick[t] \in Selections(t)
        BY <1>1, <1>3 DEF BranchFails, Succeeded, PicksKnown
      <3>2. ChannelsSettled(u, hist.taken, E) /\ FlowSettled(u, hist.taken, E, hist'.chosen)
        BY <1>1, <2>4, <2>6, <2>7
      <3>3. X \union F # {} /\ F \in SUBSET Node /\ F \subseteq ReadyChannels(u) /\ hist' = Record(hist, u, X, F)
        BY <2>1, <2>6, <2>12
      <3>4. result # "end" /\ (result' = "end" => END \in ReadyChannels(u))
        BY <2>1
      <3>5. E = D \union X /\ E \in SUBSET Src /\ u \in Channels /\ D \in SUBSET Src /\ D = DoneIn(hist)
        BY <1>1, <2>2, <2>4
      <3>6. Abstract!Next
        BY <2>3, <2>10, <2>11, <3>1, <3>2, <3>3, <3>4, <3>5, Advances
      <3> QED
        BY <2>1, <2>9, <3>6
    <2>13. CASE X = {}
      <3>1. hist'.chosen = hist.chosen /\ hist'.fed = hist.fed /\ hist'.taken = hist.taken
        BY <2>1, <2>13 DEF Record, TypeOK, History
      <3>2. (DoneIn(hist))' = DoneIn(hist)
        BY <1>1, <2>2, <2>10, <2>13
      <3>3. Abstract!progress' = Abstract!progress
        BY <3>1, <3>2 DEF Abstract!progress
      <3>4. (result = "end")' = (result = "end")
        BY <2>1
      <3>5. Abstract!Keep
        BY <2>11, <3>3, <3>4 DEF Abstract!Keep
      <3> QED
        BY <2>1, <2>9, <3>5 DEF Abstract!Next
    <2> QED
      BY <2>12, <2>13
  <1> QED
    BY <1>2, <1>3

\* When nothing is resolved and nothing is ready, nothing changes.
LEMMA UpdateNothing == ASSUME Dag, NEW c \in Channels, NEW p PROVE UpdateChannels(c, {}, p) = c
  <1>1. Unselected({}, p) = {} /\ Writes({}, p) = {} /\ Completions({}, p) = {}
    BY DEF Unselected, Writes, Completions
  <1>2. ReportBranch(c, {}) = c
    BY DEF ReportBranch
  <1>3. ReportValues(c, {}) = c
    BY DEF ReportValues, Channels
  <1>4. ReportDependencies(c, {}) = c
    BY DEF ReportDependencies, Channels
  <1> QED
    BY <1>1, <1>2, <1>3, <1>4 DEF UpdateChannels

\* Where no channel is ready, handing out empties none.
LEMMA TakeNothing == ASSUME NEW c \in Channels, ReadyChannels(c) = {} PROVE TakeReady(c) = c
  <1>1. \A X : X \subseteq Src \X Dst => Without(X, {}) = X
    BY DEF Without
  <1> QED
    BY <1>1 DEF TakeReady, Channels

\* Where no task ended and none is made, the history stays.
LEMMA RecordNothing == ASSUME NEW c, hist \in History PROVE Record(hist, c, {}, {}) = hist
  BY DEF Record, History

\* At first the channels agree with the data flow in which nothing has begun.
LEMMA InitFlows == Init => FlowAccounted /\ Abstract!Init
  <1> SUFFICES ASSUME Init PROVE FlowAccounted /\ Abstract!Init
    OBVIOUS
  <1>1. PicksKnown /\ SettlesAccounted
    BY InitPicks, InitSettles
  <1>2. FlowAccounted
    BY <1>1 DEF Init, FlowAccounted, NoCheckpoint
  <1>3. DoneIn(hist) = {}
    BY DEF Init, DoneIn, NoHistory
  <1>4. Kept = Abstract!progress
    <2>1. ~saved.present /\ hist = NoHistory
      BY DEF Init, NoCheckpoint
    <2> QED
      BY <1>3, <2>1 DEF Kept, Abstract!progress
  <1>5. Abstract!Init
    BY <1>3, <1>4, SameGraph DEF Init, Abstract!Init, NoHistory
  <1> QED
    BY <1>2, <1>5

\* Every step of the run loop of an AllPredecessor graph is a step of
\* Dataflow, or none, and the channels go on to agree with it.
LEMMA FlowSteps ==
  ASSUME Dag, Unmixed, Ordered, Separate
  PROVE  IInv /\ FlowAccounted /\ [Next]_vars => FlowAccounted' /\ [Abstract!Next]_(Abstract!dfVars)
  <1> SUFFICES ASSUME IInv, FlowAccounted, [Next]_vars
               PROVE  FlowAccounted' /\ (Abstract!Next \/ UNCHANGED Abstract!dfVars)
    OBVIOUS
  <1> USE DEF loopVars, taskVars, cancelVars, roundVars, callVars
  <1>0. /\ TypeOK /\ TasksAccounted /\ HitsAccounted /\ PicksKnown /\ SettlesAccounted
        /\ PicksKnown' /\ SettlesAccounted'
        /\ pc # "stopped" => result = "none"
        /\ pc = "idle" <=> runs = 0
        /\ saved.present => runs # 0
    BY NextPicks, NextSettles DEF IInv, FlowAccounted, TasksAccounted, HitsAccounted, PicksKnown
  <1>12. ASSUME UNCHANGED <<hist, saved, runs>>, result' = "end" <=> result = "end"
        PROVE  UNCHANGED Abstract!dfVars
    <2>1. Kept' = Kept
      BY <1>0, <1>12, KeptStays
    <2>2. (DoneIn(hist))' = DoneIn(hist) /\ (result = "end")' = (result = "end")
      BY <1>12 DEF DoneIn
    <2>3. Abstract!progress' = Abstract!progress
      BY <1>12, <2>2 DEF Abstract!progress
    <2> QED
      BY <2>1, <2>2, <2>3 DEF Abstract!dfVars
  <1>13. ASSUME UNCHANGED <<chan, hist, saved, runs>>, result' = "end" <=> result = "end",
               pc # "idle", pc' \notin {"idle", "saveHit"}
        PROVE  FlowAccounted' /\ UNCHANGED Abstract!dfVars
    <2>1. HistoryFlows(chan, hist)' <=> HistoryFlows(chan, hist)
      BY <1>13
    <2>2. HistoryFlows(saved.chan, saved.hist)' <=> HistoryFlows(saved.chan, saved.hist)
      BY <1>13
    <2>3. FlowAccounted'
      BY <1>0, <1>13, <2>1, <2>2 DEF FlowAccounted
    <2> QED
      BY <1>12, <1>13, <2>3
  <1>1. CASE Start
    <2>1. PICK T, D : T = {START} /\ D = {}
      OBVIOUS
    <2>2. /\ pc = "idle" /\ runs = 0 /\ runs' = 1 /\ result = "none" /\ result # "end"
          /\ hist = NoHistory /\ chan = InitChannels /\ ~saved.present
          /\ pc' \in {"stopped", "loop"}
          /\ Calculate(T, Updated(T), ReadyChannels(Updated(T)))
          /\ \A t \in T : pick[t] \in Selections(t)
      BY <1>0, <1>1, <2>1 DEF Start, Stop, HandleInterrupt, SettlesAccounted, HitsAccounted, PicksKnown
    <2>3. runs' # 0
      BY <2>2
    <2>4. /\ D \in SUBSET Src /\ D = DoneIn(hist) /\ ChannelsSettled(chan, hist.taken, D)
          /\ FlowSettled(chan, hist.taken, D, hist.chosen)
          /\ T \in SUBSET (hist.taken \union {START}) /\ T \intersect D = {} /\ T # {}
          /\ D \union T = Resolved(hist) \union (T \ {START})
      <3>1. PICK sel : sel = NoHistory.chosen
        OBVIOUS
      <3>2. ChannelsSettled(InitChannels, {}, {}) /\ FlowSettled(InitChannels, {}, {}, sel)
        BY NothingSettled, NothingFlows
      <3>3. Resolved(NoHistory) = {START} /\ NoHistory.taken = {}
        BY DEF Resolved, NoHistory
      <3>4. DoneIn(hist) = {}
        BY <2>2 DEF DoneIn, NoHistory
      <3> QED
        BY <2>1, <2>2, <3>1, <3>2, <3>3, <3>4
    <2>5. /\ result' = "end" <=> END \in ReadyChannels(Updated(T))
          /\ \/ saved' = saved
             \/ saved'.present /\ saved'.chan = chan' /\ saved'.hist = hist'
          /\ saved'.present => result' # "end"
      BY <1>1, <2>1, <2>2 DEF Start, Stop, HandleInterrupt, Checkpoint
    <2>6. Kept' = Kept \/ Kept' = Abstract!progress'
      BY <2>2, <2>5, KeptStays, KeptMade
    <2>7. /\ Abstract!Next
          /\ END \notin ReadyChannels(Updated(T)) => HistoryFlows(chan', hist')
      BY <1>0, <2>2, <2>3, <2>4, <2>5, <2>6, CalculateFlows
    <2>8. FlowAccounted'
      BY <1>0, <2>2, <2>5, <2>7 DEF FlowAccounted
    <2> QED
      BY <2>7, <2>8
  <1>2. CASE ResolveCompleted
    <2>1. PICK T, D : T = got /\ D = Resolved(hist)
      OBVIOUS
    <2>2. /\ pc = "resolve" /\ runs # 0 /\ runs' = runs /\ result = "none" /\ result # "end"
          /\ T # {} /\ T \subseteq hist.owed /\ HistorySettled(chan, hist) /\ HistoryFlows(chan, hist)
          /\ saved' = saved /\ pc' \in {"stopped", "saveHit", "drainHit", "loop"}
          /\ Calculate(T, Updated(T), ReadyChannels(Updated(T)))
          /\ result' = "end" <=> END \in ReadyChannels(Updated(T))
          /\ pc' = "saveHit" => END \notin ReadyChannels(Updated(T))
      BY <1>0, <1>2, <2>1 DEF ResolveCompleted, Stop, TasksAccounted, Where, SettlesAccounted, FlowAccounted
    <2>3. \A t \in T : pick[t] \in Selections(t)
      <3>1. got \subseteq Node /\ got = Succeeded(got) /\ ~BranchFails(got)
        BY <1>0, <1>2 DEF ResolveCompleted, TypeOK
      <3>2. \A n \in got : out[n] = "ok"
        BY <3>1 DEF BranchFails, Succeeded
      <3> QED
        BY <1>0, <2>1, <3>1, <3>2 DEF PicksKnown
    <2>4. /\ D \in SUBSET Src /\ D = DoneIn(hist) /\ ChannelsSettled(chan, hist.taken, D)
          /\ FlowSettled(chan, hist.taken, D, hist.chosen)
          /\ T \in SUBSET (hist.taken \union {START}) /\ T \intersect D = {}
          /\ D \union T = Resolved(hist) \union (T \ {START})
      <3>1. D \in SUBSET Src /\ START \in D /\ D = DoneIn(hist)
        BY <2>1, <2>2 DEF Resolved, DoneIn, Src
      <3>2. ChannelsSettled(chan, hist.taken, D) /\ FlowSettled(chan, hist.taken, D, hist.chosen)
            /\ hist.owed = hist.taken \ D
        BY <2>1, <2>2 DEF HistorySettled, HistoryFlows
      <3>3. T \subseteq hist.taken /\ T \intersect D = {} /\ START \notin T
        BY <2>2, <3>1, <3>2
      <3> QED
        BY <2>1, <3>1, <3>2, <3>3
    <2>5. Kept' = Kept /\ runs' # 0
      BY <2>2, KeptStays
    <2>6. /\ Abstract!Next
          /\ END \notin ReadyChannels(Updated(T)) => HistoryFlows(chan', hist')
      BY <1>0, <2>2, <2>3, <2>4, <2>5, CalculateFlows
    <2>7. pc' = "saveHit" => ReadyChannels(chan') = {}
      <3>1. PICK u, taken, E : u = Updated(T) /\ taken = hist.taken /\ E = D \union T
        OBVIOUS
      <3>2. ChannelsSettled(u, taken, E) /\ u \in Channels
        BY <1>0, <2>4, <3>1, UpdatedSettles
      <3>3. taken \in SUBSET Node /\ E \in SUBSET Src
        BY <1>0, <2>4, <3>1 DEF TypeOK, History, Src
      <3>4. ReadyChannels(TakeReady(u)) = {}
        BY <3>2, <3>3, TakeSettles
      <3> QED
        BY <2>2, <3>1, <3>4 DEF Calculate
    <2>8. saved.present => HistoryFlows(saved.chan, saved.hist)
      BY DEF FlowAccounted
    <2>9. FlowAccounted'
      BY <1>0, <2>2, <2>6, <2>7, <2>8 DEF FlowAccounted
    <2> QED
      BY <2>6, <2>9
  <1>3. CASE SaveRerun
    <2>1. PICK T : T = got \union more
      OBVIOUS
    <2>2. /\ pc = "saveRerun" /\ pc' = "stopped" /\ result = "none" /\ runs # 0 /\ runs' = runs
          /\ HistorySettled(chan, hist) /\ HistoryFlows(chan, hist)
          /\ T \in SUBSET Node /\ hist.owed = T \union timedOut
      BY <1>0, <1>3, <2>1 DEF SaveRerun, HandleInterruptWithRerun, Stop, TasksAccounted, Where,
         SettlesAccounted, FlowAccounted, TypeOK
    <2>3. \/ result' = "error" /\ UNCHANGED <<chan, saved, hist>>
          \/ /\ result' = "interrupt" /\ HistoryFlows(chan', hist') /\ Abstract!Next
             /\ saved'.present /\ saved'.chan = chan' /\ saved'.hist = hist'
      <3>1. CASE HandleInterruptWithRerun(T)
        BY <1>0, <2>2, <3>1, RerunFlows
      <3>2. CASE Stop("error") /\ UNCHANGED <<chan, input, saved, hist>>
        BY <3>2 DEF Stop
      <3> QED
        BY <1>3, <2>1, <3>1, <3>2 DEF SaveRerun
    <2>4. CASE result' = "error" /\ UNCHANGED <<chan, saved, hist>>
      BY <1>13, <2>2, <2>4
    <2>5. CASE /\ result' = "interrupt" /\ HistoryFlows(chan', hist') /\ Abstract!Next
               /\ saved'.present /\ saved'.chan = chan' /\ saved'.hist = hist'
      <3>1. FlowAccounted'
        BY <1>0, <2>2, <2>5 DEF FlowAccounted
      <3> QED
        BY <2>5, <3>1
    <2> QED
      BY <2>3, <2>4, <2>5
  <1>4. CASE SaveHit
    <2>1. /\ pc = "saveHit" /\ result = "none" /\ more = {} /\ timedOut = {} /\ runs # 0 /\ runs' = runs
          /\ HistorySettled(chan, hist) /\ HistoryFlows(chan, hist) /\ ReadyChannels(chan) = {}
      BY <1>0, <1>4 DEF SaveHit, TasksAccounted, SettlesAccounted, FlowAccounted
    <2>2. Interrupted(more) \union timedOut = {} /\ ~(\E n \in more : out[n] = "err")
          /\ ~BranchFails(more)
      BY <2>1 DEF Interrupted, BranchFails
    <2>3. Updated(more) = chan
      BY <1>0, <2>1, UpdateNothing DEF Updated, TypeOK
    <2>4. TakeReady(chan) = chan
      BY <1>0, <2>1, TakeNothing DEF TypeOK
    <2>5. /\ chan' = chan /\ hist' = Record(hist, chan, {}, {}) /\ pc' = "stopped"
          /\ result' = "interrupt" /\ saved'.present /\ saved'.chan = chan' /\ saved'.hist = hist'
      <3>1. END \notin ReadyChannels(Updated(more))
        BY <2>1, <2>3
      <3>2. /\ Calculate(more, Updated(more), ReadyChannels(Updated(more)))
            /\ Stop("interrupt")
            /\ saved' = Checkpoint(chan', next', input', {},
                 before \union (ReadyChannels(Updated(more)) \intersect InterruptBefore),
                 after \union (more \intersect InterruptAfter), hist')
        BY <1>4, <2>2, <3>1 DEF SaveHit, HandleInterrupt
      <3>3. /\ chan' = TakeReady(Updated(more))
            /\ hist' = Record(hist, Updated(more), more, ReadyChannels(Updated(more)) \ {END})
        BY <3>2 DEF Calculate
      <3>4. more = {} /\ ReadyChannels(Updated(more)) \ {END} = {}
        BY <2>1, <2>3
      <3>5. chan' = chan /\ hist' = Record(hist, chan, {}, {})
        BY <2>3, <2>4, <3>3, <3>4
      <3>6. saved'.present /\ saved'.chan = chan' /\ saved'.hist = hist'
        BY <3>2 DEF Checkpoint
      <3> QED
        BY <3>2, <3>5, <3>6 DEF Stop
    <2>6. hist' = hist
      BY <1>0, <2>5, RecordNothing DEF TypeOK
    <2>7. Kept' = Abstract!progress'
      BY <2>5, KeptMade
    <2>8. (DoneIn(hist))' = DoneIn(hist) /\ (result = "end")' = (result = "end")
      BY <2>1, <2>5, <2>6 DEF DoneIn
    <2>9. Abstract!progress' = Abstract!progress
      BY <2>6, <2>8 DEF Abstract!progress
    <2>10. Abstract!Next
      BY <2>1, <2>7, <2>8, <2>9 DEF Abstract!Keep, Abstract!Next
    <2>11. HistoryFlows(chan', hist')
      BY <2>1, <2>5, <2>6
    <2>12. FlowAccounted'
      BY <1>0, <2>5, <2>11 DEF FlowAccounted
    <2> QED
      BY <2>10, <2>12
  <1>5. CASE Resume
    <2>1. /\ pc' = "loop" /\ result' = "none" /\ result # "end" /\ saved.present /\ saved' = saved
          /\ chan' = saved.chan /\ hist' = saved.hist /\ runs' = runs + 1 /\ runs \in Nat /\ runs # 0
      BY <1>0, <1>5 DEF Resume, TypeOK
    <2>2. runs' # 0
      BY <2>1
    <2>3. Kept' = Kept
      BY <2>1, <2>2, KeptStays
    <2>4. (DoneIn(hist))' = DoneIn(saved.hist)
      BY <2>1, <2>2 DEF DoneIn
    <2>5. Abstract!progress' = Kept
      BY <2>1, <2>4 DEF Abstract!progress, Kept
    <2>6. (result = "end")' = (result = "end")
      BY <2>1
    <2>7. Abstract!Back
      BY <2>1, <2>3, <2>5, <2>6 DEF Abstract!Back
    <2>8. HistoryFlows(saved.chan, saved.hist)
      BY <2>1 DEF FlowAccounted
    <2>9. FlowAccounted'
      BY <1>0, <2>1, <2>8 DEF FlowAccounted
    <2> QED
      BY <2>7, <2>9 DEF Abstract!Next
  <1>6. CASE LoopAborts \/ Aborted \/ ExceedMaxSteps \/ Submit \/ ResolveError \/ ResolveInterrupted
             \/ NoTaskLeft
    BY <1>0, <1>13, <1>6 DEF LoopAborts, Aborted, ExceedMaxSteps, Submit, ResolveError,
                            ResolveInterrupted, NoTaskLeft, Stop
  <1>7. ASSUME UNCHANGED <<chan, hist, saved, runs, result>>, pc' = "saveHit" => pc = "saveHit",
               pc' = "idle" <=> pc = "idle"
        PROVE  FlowAccounted' /\ UNCHANGED Abstract!dfVars
    <2>1. HistoryFlows(chan, hist)' <=> HistoryFlows(chan, hist)
      BY <1>7
    <2>2. HistoryFlows(saved.chan, saved.hist)' <=> HistoryFlows(saved.chan, saved.hist)
      BY <1>7
    <2>3. ReadyChannels(chan)' = ReadyChannels(chan)
      BY <1>7
    <2>4. FlowAccounted'
      BY <1>0, <1>7, <2>1, <2>2, <2>3 DEF FlowAccounted
    <2> QED
      BY <1>12, <1>7, <2>4
  <1>8. CASE SeeCancel \/ CallInterrupt \/ CancelContext \/ UNCHANGED vars
    BY <1>7, <1>8 DEF SeeCancel, CallInterrupt, CancelContext, vars
  <1>9. CASE Expire
    BY <1>0, <1>7, <1>9 DEF Expire, Waiting, Drained, TasksAccounted
  <1>10. ASSUME NEW n \in Node, Receive(n) PROVE FlowAccounted' /\ UNCHANGED Abstract!dfVars
    BY <1>0, <1>7, <1>10 DEF Receive, Waiting, Drained, TasksAccounted
  <1>11. ASSUME NEW n \in Node, Finish(n) PROVE FlowAccounted' /\ UNCHANGED Abstract!dfVars
    BY <1>7, <1>11 DEF Finish
  <1> QED
    BY <1>1, <1>2, <1>3, <1>4, <1>5, <1>6, <1>8, <1>9, <1>10, <1>11 DEF Next, Loop, Stopped

\* A run of an AllPredecessor graph is a run of Dataflow: a node is handed
\* its input once, when each control predecessor has finished or can no
\* longer be led to and one of them has led to it, and its input is exactly
\* what the data predecessors that led to it delivered, whatever fails, is
\* interrupted, given up, resumed or tried again.
THEOREM DataflowCorrect ==
  ASSUME Dag, Unmixed, Ordered, Separate
  PROVE  Spec => ImplementsDataflow
  <1>1. Init => IInv /\ FlowAccounted /\ Abstract!Init
    BY InitType, InitHits, InitTasks, InitFlows DEF IInv
  <1>2. IInv /\ FlowAccounted /\ [Next]_vars => IInv'
    BY NextType, NextHits, NextTasks DEF IInv
  <1>3. IInv /\ FlowAccounted /\ [Next]_vars => FlowAccounted' /\ [Abstract!Next]_(Abstract!dfVars)
    BY FlowSteps
  <1> QED
    BY <1>1, <1>2, <1>3, PTL DEF Spec, ImplementsDataflow, Abstract!Spec
=============================================================================
