------------------------------ MODULE MCAgents ------------------------------
\* A sequence or a loop of three sub-agents, one first, one last and one
\* between; two sub-agents at once; a model with two tools, one of which acts;
\* a supervisor with two agents, one of which always hands back; and a plan.
EXTENDS Agents

CONSTANTS a1, a2

Three == 3
Both == {a1, a2}
AllModes == {"sequential", "loop", "parallel", "adk_react", "flow_react", "flow", "plan", "files",
             "multi_query", "router"}

Team == [a \in {"boss", "wrapped", "free"} |-> "boss"]
HandBack == Supervised("boss", {"wrapped"}, {"free"})

MCTurns ==
  {<<Say("text", "boss"), Say("interrupt", "boss")>>,
   <<Say("interrupt", "boss"), Say("interrupt", "boss")>>,
   <<Say("exit", "boss")>>, <<Say("goto", "free")>>,
   <<Say("calls", "boss"), Say("tool", "boss"), Say("transfer", "boss")>>,
   <<Say("calls", "boss"), Say("transfer", "wrapped")>>}

FileCall(t, i, p, n) == [tool |-> t, id |-> i, path |-> p, size |-> n]
Large(id) == FileCall("search", id, "", 5)
MCFileCalls ==
  {<<>>, <<Large("x"), Large("y")>>, <<Large("x"), FileCall("write_file", "z", "x", 4)>>,
   <<FileCall("search", "y", "", 2), FileCall("exempt", "z", "", 2)>>,
   <<FileCall("read_file", "z", "x", 1), FileCall("edit_file", "w", "x", 3)>>,
   <<FileCall("read_file", "y", "y", 1), FileCall("search", "z", "", 2), FileCall("search", "w", "", 2)>>}
=============================================================================
