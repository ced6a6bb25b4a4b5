\* Two children of a merge of a plain source and a converted one, through
\* streams of one place; only c1 has to receive.
SPECIFICATION Spec
CONSTANTS
  c1 = c1
  c2 = c2
  plain = plain
  pumped = pumped
  Source <- Sources
  Pumped <- PumpedSources
  Child <- Children
  Eager <- EagerChildren
  Cap = 1
  PumpCap = 1
  MaxItems = 2
  MaxTotal = 3
  Kinds <- AllKinds
INVARIANTS
  CopiesAgree
  MergedWhole
PROPERTIES
  Independent
  WriterReleased
CHECK_DEADLOCK FALSE
