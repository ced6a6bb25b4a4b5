----------------------------- MODULE ToolFiles -----------------------------
(***************************************************************************)
(* What two middlewares do with the results of tools                       *)
(* (src/adk/middlewares): filesystem gives the model a file system and     *)
(* moves a large result into it, leaving a notice with its path; reduction *)
(* clears old results before the model is asked again.                     *)
(*                                                                         *)
(* A file is at the path made of the identifier of a call.  The model, the *)
(* other tools and what a Backend may fail at are external.                *)
(***************************************************************************)
EXTENDS Workflow

CONSTANTS
  FileCalls,       \* the messages of the model: sequences of calls
  TokenLimit,      \* LargeToolResultOffloadingTokenLimit
  Threshold,       \* ToolResultTokenThreshold
  KeepRecent,      \* KeepRecentTokens
  ExcludeTools,    \* ExcludeTools
  NoticeSize, PlaceholderSize, CallSize,  \* tokens of a notice, a placeholder, a model's message
  MaxFileRounds    \* bound: messages of the model

ASSUME FilesAssumption ==
  /\ TokenLimit \in Nat /\ Threshold \in Nat /\ KeepRecent \in Nat
  /\ NoticeSize \in Nat /\ PlaceholderSize \in Nat /\ CallSize \in Nat
  /\ \A m \in FileCalls : m \in Seq(ToSet(m)) /\ \A c \in ToSet(m) : c.size \in Nat

VARIABLES
  files,      \* the Backend: what is at a path, and its size
  todoCalls,  \* the calls of the last message
  transcript, \* the messages
  results,    \* history: results so far
  shown,      \* history: the results the model was given
  rewritten   \* history: paths that were written or edited again

fileVars == <<files, todoCalls, transcript, results, shown, rewritten>>

Files == mode = "files"

FilesInit ==
  /\ files = <<>>
  /\ todoCalls = <<>>
  /\ transcript = <<>>
  /\ results = 0
  /\ shown = {}
  /\ rewritten = {}

Tokens(ms) == SumOf([k \in DOMAIN ms |-> ms[k].size])
IsResult(m) == m.role = "tool" /\ m.form # "cleared"
ResultTokens(ms) == SumOf([k \in DOMAIN ms |-> IF IsResult(ms[k]) THEN ms[k].size ELSE 0])

\* The first message that is protected: the budget ends in it.
RecentStart(ms) ==
  LET over == {k \in DOMAIN ms : Tokens(SubSeq(ms, k, Len(ms))) > KeepRecent}
  IN IF over = {} THEN 1 ELSE CHOOSE k \in over : \A l \in over : l <= k

\* reduceByTokens
Reduced(ms) ==
  IF ResultTokens(ms) <= Threshold THEN ms
  ELSE [k \in DOMAIN ms |->
          IF k < RecentStart(ms) /\ IsResult(ms[k]) /\ ms[k].tool \notin ExcludeTools
          THEN [ms[k] EXCEPT !.form = "cleared", !.size = PlaceholderSize] ELSE ms[k]]

Fresh(k) == results + k

\* BeforeChatModel, and the message of the model, which ends the run or calls.
AskModel(message) ==
  /\ pc = "start"
  /\ LET before == Reduced(transcript)
         asking == [role |-> "assistant", size |-> CallSize * Len(message)] IN
       /\ transcript' = Append(before, asking)
       /\ shown' = shown \cup {before[k].result : k \in {l \in DOMAIN before : IsResult(before[l])}}
  /\ todoCalls' = [k \in DOMAIN message |->
                     [call |-> message[k], stage |-> "run", result |-> Fresh(k),
                      form |-> "whole", size |-> 1]]
  /\ results' = Fresh(Len(message))
  /\ pc' = IF message = <<>> THEN "done" ELSE "tools"
  /\ UNCHANGED <<runs, files, rewritten>>

Doing(c, tool) == pc = "tools" /\ todoCalls[c].stage = "run" /\ todoCalls[c].call.tool = tool
Path(c) == todoCalls[c].call.path

\* The tool has returned: handleResult looks at how long the result is.
Returned(c, size) ==
  todoCalls' = [todoCalls EXCEPT ![c].size = size,
                                 ![c].stage = IF size > TokenLimit THEN "offload" ELSE "done"]
CallFails(c) ==
  /\ todoCalls' = [todoCalls EXCEPT ![c].stage = "failed"]
  /\ UNCHANGED <<pc, runs, files, transcript, results, shown, rewritten>>

RunOther(c) ==
  /\ Doing(c, todoCalls[c].call.tool)
  /\ todoCalls[c].call.tool \notin {"read_file", "write_file", "edit_file"}
  /\ Returned(c, todoCalls[c].call.size)
  /\ UNCHANGED <<pc, runs, files, transcript, results, shown, rewritten>>

\* read_file returns as many lines as it is asked for.
ReadFile(c) ==
  /\ Doing(c, "read_file")
  /\ Path(c) \in DOMAIN files
  /\ \E n \in 0 .. files[Path(c)].size : Returned(c, n)
  /\ UNCHANGED <<pc, runs, files, transcript, results, shown, rewritten>>

Put(path, content) ==
  /\ files' = [p \in DOMAIN files \cup {path} |-> IF p = path THEN content ELSE files[p]]
  /\ rewritten' = IF path \in DOMAIN files THEN rewritten \cup {path} ELSE rewritten

Changes(c) ==
  /\ Put(Path(c), [of |-> 0, size |-> todoCalls[c].call.size])
  /\ Returned(c, 1)
  /\ UNCHANGED <<pc, runs, transcript, results, shown>>

WriteFile(c) == Doing(c, "write_file") /\ Changes(c)
EditFile(c) == Doing(c, "edit_file") /\ Path(c) \in DOMAIN files /\ Changes(c)

\* A tool fails: read_file and edit_file if there is no such file, edit_file if
\* the text is not in it or more than once, each as the Backend does.
ToolFails(c) == Doing(c, todoCalls[c].call.tool) /\ CallFails(c)

\* Mutant: a notice without a file, although Write fails.
OffloadFailsUnnoticed(c) ==
  /\ todoCalls[c].stage = "offload"
  /\ todoCalls' = [todoCalls EXCEPT ![c].stage = "done", ![c].form = "notice", ![c].size = NoticeSize]
  /\ UNCHANGED <<pc, runs, files, transcript, results, shown, rewritten>>

\* The path cannot be made, the notice neither, or the Backend does not write.
OffloadFails(c) == todoCalls[c].stage = "offload" /\ CallFails(c)

\* handleResult writes the file and returns the notice.
Offload(c) ==
  /\ todoCalls[c].stage = "offload"
  /\ Put(todoCalls[c].call.id, [of |-> todoCalls[c].result, size |-> todoCalls[c].size])
  /\ todoCalls' = [todoCalls EXCEPT ![c].stage = "done", ![c].form = "notice", ![c].size = NoticeSize]
  /\ UNCHANGED <<pc, runs, transcript, results, shown>>

AskedModel == Cardinality({k \in DOMAIN transcript : transcript[k].role = "assistant"})

\* History: the size it had, and its round.
ToolMessage(c) ==
  [role |-> "tool", tool |-> c.call.tool, id |-> c.call.id, result |-> c.result,
   form |-> c.form, size |-> c.size, was |-> c.size, round |-> AskedModel]

\* The tools node waits for all calls and fails if one does.
CallsEnd ==
  /\ pc = "tools"
  /\ \A c \in DOMAIN todoCalls : todoCalls[c].stage \in {"done", "failed"}
  /\ IF \E c \in DOMAIN todoCalls : todoCalls[c].stage = "failed"
     THEN pc' = "failed" /\ UNCHANGED transcript
     ELSE pc' = "start" /\ transcript' = transcript \o [c \in DOMAIN todoCalls |-> ToolMessage(todoCalls[c])]
  /\ UNCHANGED <<runs, files, todoCalls, results, shown, rewritten>>

FilesWork ==
  \/ \E m \in FileCalls : (AskedModel < MaxFileRounds \/ m = <<>>) /\ AskModel(m)
  \/ CallsEnd
  \/ \E c \in DOMAIN todoCalls :
       \/ RunOther(c) \/ ReadFile(c) \/ WriteFile(c) \/ EditFile(c) \/ ToolFails(c)
       \/ Offload(c) \/ OffloadFails(c)

-----------------------------------------------------------------------------
LaterInRound(m, n) == n.role = "tool" /\ n.round = m.round /\ n.result > m.result
\* What the results after this one in its round had at first.
TokensAfter(m) ==
  SumOf([k \in DOMAIN transcript |-> IF LaterInRound(m, transcript[k]) THEN transcript[k].was ELSE 0])

(* Whatever the calls of a message do to files at once, the model can get  *)
(* at each result: it is there, or the notice names a file that has it, if *)
(* nothing was written there again; or it was cleared, which no result is  *)
(* before the model was given it once, unless those after it in the same   *)
(* round use up the budget for recent ones.                                *)
ResultsInReach ==
  Files =>
    \A k \in {l \in DOMAIN transcript : transcript[l].role = "tool"} :
      LET m == transcript[k] IN
        /\ m.form = "notice" =>
             /\ m.id \in DOMAIN files
             /\ m.id \in rewritten \/ files[m.id].of = m.result
        /\ m.form = "cleared" =>
             /\ m.tool \notin ExcludeTools
             /\ m.result \in shown \/ TokensAfter(m) > KeepRecent

=============================================================================
