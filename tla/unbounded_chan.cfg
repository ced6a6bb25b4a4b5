\* Two senders of two items each and three receivers; anybody may close.
SPECIFICATION Spec
CONSTANTS
  Sender = {s1, s2}
  Receiver = {r1, r2, r3}
  MaxSend = 2
INVARIANTS
  NothingStranded
PROPERTIES
  Delivered
  ImplementsMailbox
