------------------------------ MODULE GraphRun ------------------------------
(***************************************************************************)
(* runner.run (src/compose/graph_run.go) with its taskManager              *)
(* (src/compose/graph_manager.go): the loop that submits tasks, waits for  *)
(* them, feeds their outputs to the channels of GraphChannels and, when it *)
(* is interrupted, leaves a checkpoint another call resumes from.          *)
(*                                                                         *)
(* Processes: the goroutine of run (pc), one goroutine per running task    *)
(* (Finish), the caller of WithGraphInterrupt (CallInterrupt), the owner   *)
(* of the context (CancelContext) and the client that calls the graph      *)
(* again with the checkpoint id (Resume).                                  *)
(*                                                                         *)
(* Abstractions.  A task that is executed synchronously by submit is       *)
(* started like the others: nothing else happens in the loop meanwhile.    *)
(* Pre- and post-handler errors and panics are outcomes of the task.  The  *)
(* queue taskManager.done is the set of finished running tasks, because    *)
(* every order of arrival is an order of finishing.  The answer of the     *)
(* branch conditions on an output is drawn when the task finishes.         *)
(***************************************************************************)
EXTENDS GraphChannels

CONSTANTS
  NeedAll,         \* taskManager.needAll = not runner.eager
  InterruptBefore, \* runner.interruptBeforeNodes
  InterruptAfter,  \* runner.interruptAfterNodes
  SubGraph,        \* the nodes that are graphs: their interrupt is a subGraphInterruptError
  MayInterrupt,    \* nodes that may return an interrupt
  MayFail,         \* nodes that may return an error
  MayCancel,       \* the caller uses WithGraphInterrupt
  MayAbort,        \* the context may be cancelled
  RetryAfterError, \* the client calls again after a failed call
  MaxSteps,        \* options.maxRunSteps (pregel only)
  MaxRuns,         \* bound: calls of run on one checkpoint id
  MaxFaults        \* bound: interrupts, errors and cancels over all calls

ASSUME RunAssumption ==
  /\ NeedAll \in BOOLEAN
  /\ InterruptBefore \subseteq Node
  /\ InterruptAfter \subseteq Node
  /\ SubGraph \subseteq Node
  /\ MayInterrupt \subseteq Node
  /\ MayFail \subseteq Node
  /\ MayCancel \in BOOLEAN
  /\ MayAbort \in BOOLEAN
  /\ RetryAfterError \in BOOLEAN
  /\ MaxSteps \in Nat \ {0}
  /\ MaxRuns \in Nat \ {0}
  /\ MaxFaults \in Nat

VARIABLES
  pc,        \* where the goroutine of run is
  result,    \* what run returned
  step,      \* loop counter
  chan,      \* channelManager.channels
  next,      \* nextTasks
  input,     \* task.input, as the set of sources merged into it
  running,   \* taskManager.runningTasks
  out,       \* task.err class once the task is in taskManager.done
  pick,      \* successors the branches select for the output of a task
  canceled,  \* taskManager.canceled
  deadline,  \* taskManager.deadline is set
  cancelCh,  \* content of the graph cancel channel
  ctxDone,   \* ctx.Done() is closed
  got,       \* completedTasks
  more,      \* newCompletedTasks
  timedOut,  \* totalCanceledTasks
  before,    \* tempInfo.interruptBeforeNodes
  after,     \* tempInfo.interruptAfterNodes
  saved,     \* the checkpoint in the store
  runs,      \* calls of run so far
  faults,    \* faults so far
  hist       \* history of the logical run, not part of the code

loopVars   == <<pc, result, step, chan, next, input>>
taskVars   == <<running, out, pick>>
cancelVars == <<canceled, deadline, cancelCh, ctxDone>>
roundVars  == <<got, more, timedOut, before, after>>
callVars   == <<saved, runs, faults, hist>>
vars       == <<loopVars, taskVars, cancelVars, roundVars, callVars>>

Waiting == {"wait", "drainRerun", "drainHit", "drainCtx"}

PC == Waiting \union
      {"idle", "loop", "resolve", "saveRerun", "saveHit", "aborted", "stopped"}

Result == {"none", "end", "interrupt", "error", "noTask", "maxSteps", "ctx"}

\* "ok" and "badBranch" leave task.err nil; a "badBranch" output makes a
\* branch condition fail when it is resolved.
Outcome == {"none", "ok", "badBranch", "err", "interrupt"}

NoCheckpoint == [present |-> FALSE]

(***************************************************************************)
(* The history of a logical run, saved and restored with the checkpoint so *)
(* that a retry from the same checkpoint starts from the same history.     *)
(*   times[n]  how often the output of n was resolved (2 stands for more)  *)
(*   taken     the nodes whose channel has handed out a task               *)
(*   fed[n]    the sources of the input n was last handed                  *)
(*   owed      handed out tasks whose output has not been resolved         *)
(*   chosen[s] the selection of s at its last resolution                   *)
(***************************************************************************)
History == [times  : [Node -> 0 .. 2], taken : SUBSET Node,
            fed    : [Node -> SUBSET Src], owed : SUBSET Node,
            chosen : [Src -> SUBSET Dst]]

NoHistory == [times  |-> [n \in Node |-> 0],
              taken  |-> {},
              fed    |-> [n \in Node |-> {}],
              owed   |-> {},
              chosen |-> [s \in Src |-> {}]]

Record(h, chs, T, tasks) ==
  [times  |-> [n \in Node |-> IF n \in T /\ h.times[n] < 2
                              THEN h.times[n] + 1 ELSE h.times[n]],
   taken  |-> h.taken \union tasks,
   fed    |-> [n \in Node |-> IF n \in tasks THEN Preds(chs.vals, n) ELSE h.fed[n]],
   owed   |-> (h.owed \ T) \union tasks,
   chosen |-> [s \in Src |-> IF s \in T THEN pick[s] ELSE h.chosen[s]]]

-----------------------------------------------------------------------------
Init ==
  /\ pc = "idle" /\ result = "none" /\ step = 0
  /\ chan = InitChannels
  /\ next = {} /\ input = [n \in Node |-> {}]
  /\ running = {} /\ out = [n \in Node |-> "none"]
  /\ pick \in {[s \in Src |-> IF s = START THEN sel ELSE {}] : sel \in Selections(START)}
  /\ canceled = FALSE /\ deadline = FALSE /\ cancelCh = "open" /\ ctxDone = FALSE
  /\ got = {} /\ more = {} /\ timedOut = {} /\ before = {} /\ after = {}
  /\ saved = NoCheckpoint /\ runs = 0 /\ faults = 0 /\ hist = NoHistory

Stop(r) == pc' = "stopped" /\ result' = r

(***************************************************************************)
(* calculateNextTasks for the tasks T: the channels after the update, the  *)
(* ready channels emptied, and a task for each of them.                    *)
(***************************************************************************)
Updated(T) == UpdateChannels(chan, T, pick)

BranchFails(T) == \E t \in T \intersect Node : out[t] = "badBranch"

\* chs is Updated(T) and ready are the channels that hand out a value.
Calculate(T, chs, ready) ==
  /\ chan' = TakeReady(chs)
  /\ input' = [n \in Node |-> IF n \in ready THEN Preds(chs.vals, n) ELSE input[n]]
  /\ hist' = Record(hist, chs, T, ready \ {END})

Checkpoint(chs, tasks, inp, rerun, b, a, h) ==
  [present |-> TRUE, chan |-> chs, inputs |-> tasks, input |-> inp,
   rerun |-> rerun, skipPre |-> rerun \intersect SubGraph,
   before |-> b, after |-> a, hist |-> h]

\* Mutant: only the tasks that hit are saved.
HandleInterruptHits(tasks, b, a) ==
  /\ Stop("interrupt")
  /\ saved' = Checkpoint(chan', tasks \intersect b, input', {}, b, a, hist')

HandleInterrupt(tasks, b, a) ==
  /\ Stop("interrupt")
  /\ saved' = Checkpoint(chan', tasks, input', {}, b, a, hist')

Interrupted(T) == {t \in T : out[t] = "interrupt"}

Succeeded(T) == {t \in T : out[t] \in {"ok", "badBranch"}}

HandleInterruptWithRerun(T) ==
  LET others == Succeeded(T) \ timedOut
  IN  IF BranchFails(others)
      THEN /\ Stop("error")
           /\ UNCHANGED <<chan, input, saved, hist>>
      ELSE /\ Stop("interrupt")
           /\ chan' = Updated(others)
           /\ hist' = Record(hist, chan', others, {})
           /\ saved' = Checkpoint(chan', {}, input, Interrupted(T) \union timedOut,
                                  before, after \union (Succeeded(more) \intersect InterruptAfter),
                                  hist')
           /\ UNCHANGED input

-----------------------------------------------------------------------------
(***************************************************************************)
(* run without a checkpoint: START is a completed task whose output is the *)
(* input of the graph.                                                     *)
(***************************************************************************)
Start ==
  /\ pc = "idle"
  /\ runs' = 1
  /\ LET chs   == Updated({START})
         ready == ReadyChannels(chs)
     IN  /\ Calculate({START}, chs, ready)
         /\ next' = ready \ {END}
         /\ IF END \in ready
            THEN Stop("end") /\ UNCHANGED saved
            ELSE IF ready = {}
            THEN Stop("noTask") /\ UNCHANGED saved
            ELSE IF ready \intersect InterruptBefore # {}
            THEN HandleInterrupt(ready, ready \intersect InterruptBefore, {})
            ELSE pc' = "loop" /\ UNCHANGED <<result, saved>>
  /\ UNCHANGED <<step, taskVars, cancelVars, roundVars, faults>>

\* run with a checkpoint: restoreFromCheckPoint with a new task manager.
\* Nothing deletes the stored checkpoint: a client whose call failed can
\* resume it again.  A client that has its result does not call again.
Resume ==
  /\ pc = "stopped"
  /\ result = "interrupt" \/ (RetryAfterError /\ result # "end")
  /\ saved.present
  /\ runs < MaxRuns
  /\ pc' = "loop" /\ result' = "none" /\ step' = 0
  /\ chan' = saved.chan
  /\ next' = saved.inputs \union saved.rerun
  /\ input' = [n \in Node |-> IF n \in saved.rerun THEN {} ELSE saved.input[n]]
  /\ running' = {} /\ out' = [n \in Node |-> "none"]
  /\ canceled' = FALSE /\ deadline' = FALSE /\ cancelCh' = "open" /\ ctxDone' = FALSE
  /\ got' = {} /\ more' = {} /\ timedOut' = {} /\ before' = {} /\ after' = {}
  /\ runs' = runs + 1
  /\ hist' = saved.hist
  /\ pick' = saved.hist.chosen
  /\ UNCHANGED <<saved, faults>>

(***************************************************************************)
(* The head of the loop.                                                   *)
(***************************************************************************)

\* The context is done: wait for what is running, then fail.
LoopAborts ==
  /\ pc = "loop" /\ ctxDone
  /\ pc' = IF running = {} THEN "aborted" ELSE "drainCtx"
  /\ UNCHANGED <<result, step, chan, next, input, taskVars, cancelVars, roundVars, callVars>>

Aborted ==
  /\ pc = "aborted"
  /\ Stop("ctx")
  /\ UNCHANGED <<step, chan, next, input, taskVars, cancelVars, roundVars, callVars>>

ExceedMaxSteps ==
  /\ pc = "loop" /\ ~ctxDone
  /\ ~Dag /\ step >= MaxSteps
  /\ Stop("maxSteps")
  /\ UNCHANGED <<step, chan, next, input, taskVars, cancelVars, roundVars, callVars>>

\* taskManager.submit
Submit ==
  /\ pc = "loop" /\ ~ctxDone
  /\ Dag \/ step < MaxSteps
  /\ running' = running \union next
  /\ out' = [n \in Node |-> IF n \in next THEN "none" ELSE out[n]]
  /\ next' = {}
  /\ got' = {} /\ more' = {} /\ timedOut' = {} /\ before' = {} /\ after' = {}
  /\ pc' = IF running' = {} THEN "resolve" ELSE "wait"
  /\ UNCHANGED <<result, step, chan, input, pick, cancelVars, callVars>>

(***************************************************************************)
(* The tasks and the callers.                                              *)
(***************************************************************************)

\* taskManager.execute: the node returns, recovers or interrupts, and the
\* task is sent to taskManager.done.
Finish(n) ==
  /\ pc # "stopped"
  /\ n \in running /\ out[n] = "none"
  /\ \/ /\ out' = [out EXCEPT ![n] = "ok"]
        /\ \E sel \in Selections(n) : pick' = [pick EXCEPT ![n] = sel]
        /\ UNCHANGED faults
     \/ /\ faults < MaxFaults
        /\ faults' = faults + 1
        /\ \/ n \in MayFail /\ out' = [out EXCEPT ![n] = "err"]
           \/ n \in MayFail /\ Branches[n] # {} /\ out' = [out EXCEPT ![n] = "badBranch"]
           \/ n \in MayInterrupt /\ out' = [out EXCEPT ![n] = "interrupt"]
        /\ UNCHANGED pick
  /\ UNCHANGED <<loopVars, running, cancelVars, roundVars, saved, runs, hist>>

\* The function WithGraphInterrupt returned: a value, then close.
CallInterrupt ==
  /\ MayCancel /\ faults < MaxFaults
  /\ pc \notin {"idle", "stopped"}
  /\ cancelCh = "open"
  /\ cancelCh' \in {"now", "withTimeout"}
  /\ faults' = faults + 1
  /\ UNCHANGED <<loopVars, taskVars, canceled, deadline, ctxDone, roundVars, saved, runs, hist>>

CancelContext ==
  /\ MayAbort /\ faults < MaxFaults
  /\ pc \notin {"idle", "stopped"} /\ ~ctxDone
  /\ ctxDone' = TRUE
  /\ faults' = faults + 1
  /\ UNCHANGED <<loopVars, taskVars, canceled, deadline, cancelCh, roundVars, saved, runs, hist>>

(***************************************************************************)
(* wait, waitOne and waitAll.                                              *)
(***************************************************************************)
Drained(p) == CASE p = "wait"       -> "resolve"
                [] p = "drainRerun" -> "saveRerun"
                [] p = "drainHit"   -> "saveHit"
                [] OTHER            -> "aborted"

\* Mutant: the received task stays in runningTasks and is counted again.
ReceiveKeeps(n) ==
  /\ pc \in Waiting
  /\ n \in running /\ out[n] # "none"
  /\ UNCHANGED <<loopVars, taskVars, cancelVars, roundVars, callVars>>

\* One task is received.  wait returns at once when tasks are taken one by
\* one and no cancel has been seen; every other wait goes on to the last.
Receive(n) ==
  /\ pc \in Waiting
  /\ n \in running /\ out[n] # "none"
  /\ running' = running \ {n}
  /\ IF pc = "wait"
     THEN got' = got \union {n} /\ UNCHANGED more
     ELSE more' = more \union {n} /\ UNCHANGED got
  /\ pc' = IF running' = {} \/ (pc = "wait" /\ ~NeedAll /\ ~canceled)
           THEN Drained(pc) ELSE pc
  /\ UNCHANGED <<result, step, chan, next, input, out, pick, cancelVars,
                 timedOut, before, after, callVars>>

\* receiveWithListening gets the cancel before a task.
SeeCancel ==
  /\ pc \in Waiting
  /\ ~canceled /\ cancelCh \in {"now", "withTimeout"}
  /\ canceled' = TRUE
  /\ deadline' = (cancelCh = "withTimeout")
  /\ cancelCh' = "closed"
  /\ UNCHANGED <<loopVars, taskVars, ctxDone, roundVars, callVars>>

\* Mutant: the tasks given up while the others are drained are not collected.
ExpireForgets ==
  /\ pc \in Waiting /\ deadline
  /\ timedOut' = IF pc = "wait" THEN running ELSE timedOut
  /\ running' = {}
  /\ pc' = Drained(pc)
  /\ UNCHANGED <<result, step, chan, next, input, out, pick, cancelVars,
                 got, more, before, after, callVars>>

\* The deadline passes: what is still running is given up.
Expire ==
  /\ pc \in Waiting /\ deadline
  /\ timedOut' = timedOut \union running
  /\ running' = {}
  /\ pc' = Drained(pc)
  /\ UNCHANGED <<result, step, chan, next, input, out, pick, cancelVars,
                 got, more, before, after, callVars>>

(***************************************************************************)
(* After wait.                                                             *)
(***************************************************************************)

\* Mutant: the nodes to interrupt after are not looked for.
AfterHitsOfCancel == IF canceled /\ timedOut = {} THEN got ELSE {}

\* A cancel that gave up no task counts as an interrupt after the completed
\* ones.
AfterHits ==
  (IF canceled /\ timedOut = {} THEN got ELSE {})
    \union (Succeeded(got) \intersect InterruptAfter)

ResolveError ==
  /\ pc = "resolve"
  /\ \/ \E n \in got : out[n] = "err"
     \/ timedOut = {} /\ got = Succeeded(got) /\ BranchFails(got)
  /\ Stop("error")
  /\ UNCHANGED <<step, chan, next, input, taskVars, cancelVars, roundVars, callVars>>

ResolveInterrupted ==
  /\ pc = "resolve"
  /\ \A n \in got : out[n] # "err"
  /\ Interrupted(got) \union timedOut # {}
  /\ after' = AfterHits
  /\ pc' = IF running = {} THEN "saveRerun" ELSE "drainRerun"
  /\ UNCHANGED <<result, step, chan, next, input, taskVars, cancelVars,
                 got, more, timedOut, before, callVars>>

NoTaskLeft ==
  /\ pc = "resolve" /\ got = {} /\ timedOut = {}
  /\ Stop("noTask")
  /\ UNCHANGED <<step, chan, next, input, taskVars, cancelVars, roundVars, callVars>>

ResolveCompleted ==
  /\ pc = "resolve" /\ got # {} /\ timedOut = {}
  /\ got = Succeeded(got)
  /\ ~BranchFails(got)
  /\ LET chs   == Updated(got)
         ready == ReadyChannels(chs)
         hits  == ready \intersect InterruptBefore
     IN  /\ Calculate(got, chs, ready)
         /\ next' = ready \ {END}
         /\ before' = hits
         /\ after' = AfterHits
         /\ IF END \in ready
            THEN Stop("end") /\ UNCHANGED step
            ELSE IF hits \union AfterHits # {}
            THEN /\ pc' = IF running = {} THEN "saveHit" ELSE "drainHit"
                 /\ UNCHANGED <<result, step>>
            ELSE /\ pc' = "loop" /\ step' = step + 1
                 /\ UNCHANGED result
  /\ UNCHANGED <<taskVars, cancelVars, got, more, timedOut, saved, runs, faults>>

(***************************************************************************)
(* The two ways an interrupt is written.                                   *)
(***************************************************************************)
SaveRerun ==
  /\ pc = "saveRerun"
  /\ IF \E n \in more : out[n] = "err"
     THEN Stop("error") /\ UNCHANGED <<chan, input, saved, hist>>
     ELSE HandleInterruptWithRerun(got \union more)
  /\ UNCHANGED <<step, next, taskVars, cancelVars, roundVars, runs, faults>>

\* Some tasks were drained after a before- or after-hit.  When one of them
\* was interrupted or given up, the completed tasks that have already been
\* resolved are resolved again and nextTasks is dropped.
SaveHit ==
  /\ pc = "saveHit"
  /\ IF \E n \in more : out[n] = "err"
     THEN Stop("error") /\ UNCHANGED <<chan, next, input, saved, hist>>
     ELSE IF Interrupted(more) \union timedOut # {}
     THEN HandleInterruptWithRerun(got \union more) /\ UNCHANGED next
     ELSE IF BranchFails(more)
     THEN Stop("error") /\ UNCHANGED <<chan, next, input, saved, hist>>
     ELSE LET chs   == Updated(more)
              ready == ReadyChannels(chs)
          IN  /\ Calculate(more, chs, ready)
              /\ next' = next \union (ready \ {END})
              /\ IF END \in ready
                 THEN Stop("end") /\ UNCHANGED saved
                 ELSE HandleInterrupt(next',
                        before \union (ready \intersect InterruptBefore),
                        after \union (more \intersect InterruptAfter))
  /\ UNCHANGED <<step, taskVars, cancelVars, roundVars, runs, faults>>

-----------------------------------------------------------------------------
\* The run has returned and nobody calls it again.
Stopped ==
  /\ pc = "stopped"
  /\ UNCHANGED vars

Loop ==
  \/ Start \/ LoopAborts \/ Aborted \/ ExceedMaxSteps \/ Submit
  \/ ResolveError \/ ResolveInterrupted \/ NoTaskLeft \/ ResolveCompleted
  \/ SaveRerun \/ SaveHit

Next ==
  \/ Loop \/ Resume
  \/ SeeCancel \/ Expire
  \/ \E n \in Node : Receive(n) \/ Finish(n)
  \/ CallInterrupt \/ CancelContext
  \/ Stopped

Spec == Init /\ [][Next]_vars

(***************************************************************************)
(* Fairness: the goroutine of run and the timer are scheduled, and every   *)
(* node returns.  Nobody has to interrupt, cancel or resume.  The steps of *)
(* Loop but Start are exactly those that leave a Computing pc, which is    *)
(* how their fairness is stated: TLC would have to evaluate the channel    *)
(* operators to know that such a step is enabled.                          *)
(***************************************************************************)
Computing == {"loop", "resolve", "saveRerun", "saveHit", "aborted"}

Proceed == pc \in Computing /\ pc' \in PC \ {pc}

Fairness ==
  /\ WF_pc(Proceed)
  /\ WF_vars(\E n \in Node : Receive(n))
  /\ WF_vars(Expire)
  /\ \A n \in Node : WF_vars(Finish(n))

FairSpec == Spec /\ Fairness

-----------------------------------------------------------------------------
Checkpoints ==
  [present : {TRUE}, chan : Channels, inputs : SUBSET Node,
   input : [Node -> SUBSET Src], rerun : SUBSET Node, skipPre : SUBSET Node,
   before : SUBSET Node, after : SUBSET Node, hist : History]

\* The type invariant.
TypeOK ==
  /\ pc \in PC /\ result \in Result /\ step \in Nat
  /\ chan \in Channels
  /\ next \subseteq Node /\ input \in [Node -> SUBSET Src]
  /\ running \subseteq Node /\ out \in [Node -> Outcome]
  /\ pick \in [Src -> SUBSET Dst]
  /\ canceled \in BOOLEAN /\ deadline \in BOOLEAN /\ ctxDone \in BOOLEAN
  /\ cancelCh \in {"open", "now", "withTimeout", "closed"}
  /\ got \subseteq Node /\ more \subseteq Node /\ timedOut \subseteq Node
  /\ before \subseteq Node /\ after \subseteq Node
  /\ saved = NoCheckpoint \/ saved \in Checkpoints
  /\ runs \in Nat /\ faults \in Nat
  /\ hist \in History

\* An interrupt loses no task: the checkpoint holds every task that was
\* handed out and whose output has not been passed on, each of them once,
\* and no task besides.
NoTaskLost ==
  result = "interrupt" =>
    /\ hist.owed = saved.inputs \union saved.rerun
    /\ saved.inputs \intersect saved.rerun = {}

\* When a run gives up with "no tasks to execute", END has been skipped by
\* every branch that could have led to it; a reachable END is reached.
StuckOnlyIfEndSkipped == result = "noTask" => END \in chan.skipped

\* A node of interruptBeforeNodes is only started by a run that resumed an
\* interrupt which named it, as one to interrupt before or to run again.
BeforeHonoured ==
  \A n \in running \intersect InterruptBefore :
    saved.present /\ n \in saved.before \union saved.rerun

\* After a node of interruptAfterNodes has completed, the same run starts
\* no further task.
AfterHonoured ==
  pc = "wait" =>
    \A n \in InterruptAfter :
      hist.times[n] = IF saved.present THEN saved.hist.times[n] ELSE 0

\* Interrupts before and after nodes are honoured: nothing is started that
\* should wait for a resumption (WithInterruptBeforeNodes,
\* WithInterruptAfterNodes).
HitsHonoured == BeforeHonoured /\ AfterHonoured

\* Every call of run returns.
Returns == (pc \notin {"idle", "stopped"}) ~> (pc = "stopped")

\* The steps of a run of an AllPredecessor graph map to those of the
\* abstract data flow, interrupts and resumptions included.
DoneIn(h) == {n \in Node : h.times[n] > 0} \union (IF runs = 0 THEN {} ELSE {START})

\* What the last checkpoint holds of the history.
Kept ==
  LET h == IF saved.present THEN saved.hist ELSE NoHistory
  IN  [fired |-> h.taken, sel |-> h.chosen, fed |-> h.fed,
       done  |-> IF saved.present THEN DoneIn(h) ELSE {}]

Abstract == INSTANCE Dataflow WITH
  fired <- hist.taken,
  done  <- DoneIn(hist),
  sel   <- hist.chosen,
  fed   <- hist.fed,
  ended <- result = "end",
  kept  <- Kept

ImplementsDataflow == Abstract!Spec

\* The steps of a run of a pregel graph map to super steps.
Bsp == INSTANCE Superstep WITH
  left  <- IF runs = 0 THEN {START} ELSE hist.owed,
  inbox <- chan.vals,
  fed   <- hist.fed,
  ended <- result = "end"

ImplementsSupersteps == Bsp!Spec
=============================================================================
