---------------------------- MODULE MCStreamCopy ----------------------------
\* Two children, of which one is eager, of a merge of one plain stream and
\* one behind toStream.
EXTENDS StreamCopy
CONSTANTS c1, c2, plain, pumped
Children == {c1, c2}
EagerChildren == {c1}
Sources == {plain, pumped}
PumpedSources == {pumped}
AllKinds == {"keep", "drop", "panic"}
=============================================================================
