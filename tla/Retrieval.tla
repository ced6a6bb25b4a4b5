----------------------------- MODULE Retrieval -----------------------------
(***************************************************************************)
(* Documents that are split, stored and found again: the parent indexer    *)
(* and the parent retriever (src/flow/indexer/parent, retriever/parent)    *)
(* around a retriever that asks several at once, with several queries      *)
(* (multiquery) or of several sources (router).                            *)
(*                                                                         *)
(* External: the transformer that splits, the generator of identifiers,    *)
(* the store, which keeps one document per identifier, and the retrievers  *)
(* below, which may fail or panic.                                         *)
(***************************************************************************)
EXTENDS Workflow

CONSTANTS
  Original,       \* the documents that are split
  Source,         \* the retrievers of the router, by name
  Named,          \* the names the router may choose
  MaxQueriesNum,  \* MaxQueriesNum
  MaxParts,       \* bound: sub-documents of a Store
  MaxChosen,      \* bound: names one query is routed to
  MaxFound        \* bound: documents one retriever finds

ASSUME RetrievalAssumption == {MaxQueriesNum, MaxParts, MaxChosen, MaxFound} \subseteq Nat

VARIABLES
  split,  \* history: the original of each sub-document, in the order they came
  index,  \* what is stored: identifier, MetaData[parentIDKey], and place in split
  tasks,  \* the RetrieveTasks
  fused,  \* the documents of all tasks
  parents \* what the parent retriever asks OrigDocGetter for

retrievalVars == <<split, index, tasks, fused, parents>>

Retrieves == mode \in {"multi_query", "router"}

RetrievalInit ==
  /\ split = <<>>
  /\ index = {}
  /\ tasks = <<>>
  /\ fused = <<>>
  /\ parents = <<>>

\* Sub-documents of one original that come one after the other are numbered
\* together.
RunStart(s, i) == CHOOSE j \in 1 .. i : /\ \A k \in j .. i : s[k] = s[i]
                                        /\ j > 1 => s[j - 1] # s[i]
SubID(s, i) == <<s[i], i - RunStart(s, i) + 1>>

\* Store of the parent indexer; of two documents with one identifier the
\* store keeps the second.
StoreSplit(s) ==
  /\ pc = "start" /\ index = {}
  /\ split' = s
  /\ index' = {[id |-> SubID(s, i), parent |-> s[i], part |-> i] :
                 i \in {j \in DOMAIN s : \A k \in DOMAIN s : SubID(s, k) = SubID(s, j) => k <= j}}
  /\ UNCHANGED <<pc, runs, tasks, fused, parents>>

\* The transformer or the generator fails, or there is nothing to store.
StoreFailed ==
  /\ pc = "start" /\ index = {}
  /\ pc' = "failed"
  /\ UNCHANGED <<runs, retrievalVars>>

NewTask(name) == [name |-> name, how |-> "running", err |-> FALSE, docs |-> <<>>]

\* Retrieve of the multi-query retriever: excess queries are truncated.
Rewrite(queries) ==
  /\ mode = "multi_query"
  /\ pc = "start" /\ index # {}
  /\ pc' = "fetch"
  /\ tasks' = [i \in 1 .. (IF queries > MaxQueriesNum THEN MaxQueriesNum ELSE queries) |-> NewTask("orig")]
  /\ UNCHANGED <<runs, split, index, fused, parents>>

\* Retrieve of the router, which has to choose something, and registered.
RouteTo(names) ==
  /\ mode = "router"
  /\ pc = "start" /\ index # {}
  /\ IF names # <<>> /\ ToSet(names) \subseteq Source
     THEN pc' = "fetch" /\ tasks' = [i \in DOMAIN names |-> NewTask(names[i])]
     ELSE pc' = "failed" /\ UNCHANGED tasks
  /\ UNCHANGED <<runs, split, index, fused, parents>>

RewriteOrRouteFails ==
  /\ pc = "start" /\ index # {}
  /\ pc' = "failed"
  /\ UNCHANGED <<runs, retrievalVars>>

Results == {d \in SeqOf(index, MaxFound) : IsInjective(d)}

\* The goroutine of a task, up to wg.Done.
EndTask(i, how, err, docs) ==
  /\ pc = "fetch" /\ tasks[i].how = "running"
  /\ tasks' = [tasks EXCEPT ![i] = [name |-> @.name, how |-> how, err |-> err, docs |-> docs]]
  /\ UNCHANGED <<pc, runs, split, index, fused, parents>>

Finds(i, docs) == EndTask(i, "found", FALSE, docs)
TaskFails(i) == EndTask(i, "failed", TRUE, <<>>)

\* Mutant: a panic is recovered from, and not made the error of the task.
TaskPanicsQuietly(i) == EndTask(i, "panicked", FALSE, <<>>)

\* recover makes the panic the error of its task.
TaskPanics(i) == EndTask(i, "panicked", TRUE, <<>>)

AllEnded == pc = "fetch" /\ \A i \in DOMAIN tasks : tasks[i].how # "running"

\* The first error is the answer.
TasksFailed ==
  /\ AllEnded
  /\ \E i \in DOMAIN tasks : tasks[i].err
  /\ pc' = "failed"
  /\ UNCHANGED <<runs, retrievalVars>>

\* deduplicateFusion, and the parents of the documents: each at its first place.
FirstOnly(s) ==
  LET found[k \in 0 .. Len(s)] ==
        IF k = 0 THEN <<>>
        ELSE IF s[k] \in ToSet(found[k - 1]) THEN found[k - 1] ELSE Append(found[k - 1], s[k])
  IN found[Len(s)]
deduplicateFusion == {FirstOnly(FlattenSeq([i \in DOMAIN tasks |-> tasks[i].docs]))}

\* A result of the router is that of the last task with its name.
Counts(i) == mode = "router" => \A j \in DOMAIN tasks : tasks[j].name = tasks[i].name => j <= i
Counted == {i \in DOMAIN tasks : Counts(i)}
FoundIn(i) == ToSet(tasks[i].docs)
AllFound == UNION {FoundIn(i) : i \in Counted}
Place(i, d) == CHOOSE k \in DOMAIN tasks[i].docs : tasks[i].docs[k] = d

\* 1.0 / (place + 60), counted from zero, times what makes it a whole number.
Scale == LET product[k \in 0 .. MaxFound + 1] == IF k = 0 THEN 1 ELSE product[k - 1] * (59 + k)
         IN product[MaxFound + 1]
RankIn(i, d) == Scale \div (59 + Place(i, d))
Rank(d) == SumOf([i \in DOMAIN tasks |-> IF i \in Counted /\ d \in FoundIn(i) THEN RankIn(i, d) ELSE 0])

\* rrf: in the order of the ranks, equal ones in any order; a single result
\* as it is.
rrf ==
  IF Cardinality(Counted) = 1
  THEN {tasks[i].docs : i \in Counted}
  ELSE {s \in SetToSeqs(AllFound) : \A j, k \in DOMAIN s : j < k => Rank(s[j]) >= Rank(s[k])}

Fuse ==
  /\ AllEnded
  /\ \A i \in DOMAIN tasks : ~tasks[i].err
  /\ \E docs \in (IF mode = "router" THEN rrf ELSE deduplicateFusion) :
       /\ fused' = docs
       /\ parents' = FirstOnly([k \in DOMAIN docs |-> docs[k].parent])
  /\ pc' = "done"
  /\ UNCHANGED <<runs, split, index, tasks>>

RetrievalWork ==
  \/ \E s \in SeqOf(Original, MaxParts) \ {<<>>} : StoreSplit(s)
  \/ StoreFailed \/ RewriteOrRouteFails \/ TasksFailed \/ Fuse
  \/ \E n \in 0 .. MaxQueriesNum + 1 : Rewrite(n)
  \/ \E names \in SeqOf(Named, MaxChosen) : RouteTo(names)
  \/ \E i \in DOMAIN tasks : TaskFails(i) \/ TaskPanics(i) \/ \E docs \in Results : Finds(i, docs)

-----------------------------------------------------------------------------
Together(s) == \A i, k \in DOMAIN s : i < k /\ s[i] = s[k] => \A j \in i .. k : s[j] = s[i]

(* In whatever order the retrievers end, an answer has every original of   *)
(* which a part was found, once, and needs all of them to have ended well; *)
(* what all that found it put before another document is before it; and    *)
(* no part is lost in the store if the splitter keeps parts together.      *)
FoundIsAnswered ==
  Retrieves =>
    /\ Together(split) => Cardinality(index) = Len(split)
    /\ pc = "done" =>
         /\ \A i \in DOMAIN tasks : tasks[i].how = "found"
         /\ IsInjective(parents) /\ ToSet(parents) = {d.parent : d \in AllFound}
         /\ \A j, k \in DOMAIN fused :
              (\A i \in Counted : fused[k] \in FoundIn(i) =>
                 fused[j] \in FoundIn(i) /\ Place(i, fused[j]) < Place(i, fused[k])) => j < k

=============================================================================
