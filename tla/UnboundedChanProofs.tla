------------------------ MODULE UnboundedChanProofs ------------------------
(***************************************************************************)
(* Proofs about UnboundedChan for any senders, receivers and number of     *)
(* calls: the queue is first in first out, no wake-up is lost, and the     *)
(* channel implements Mailbox.                                             *)
(***************************************************************************)
EXTENDS UnboundedChan, FiniteSetTheorems, SequenceTheorems, TLAPS

\* The head of the buffer is the item after the received ones.
LEMMA HeadIsNext ==
  ASSUME NEW q \in Seq(Item), NEW p \in Seq(Item), q # <<>>
  PROVE  /\ Append(p, Head(q)) \o Tail(q) = p \o q
         /\ Len(p) < Len(p \o q)
         /\ Head(q) = (p \o q)[Len(p) + 1]
         /\ Append(p, Head(q)) \in Seq(Item)
         /\ Tail(q) \in Seq(Item)
<1>1. Head(q) \in Item /\ Tail(q) \in Seq(Item) /\ Len(q) \in Nat /\ Len(q) # 0
  BY EmptySeq, HeadTailProperties
<1>2. q = <<Head(q)>> \o Tail(q)
  BY <1>1
<1>3. Append(p, Head(q)) = p \o <<Head(q)>>
  BY <1>1
<1>4. p \o (<<Head(q)>> \o Tail(q)) = (p \o <<Head(q)>>) \o Tail(q)
  BY <1>1
<1> QED BY <1>1, <1>2, <1>3, <1>4

\* What Signal does to the two sets of receivers.
LEMMA SignalWakes ==
  ASSUME TypeOK, Signal
  PROVE  /\ waiting' \in SUBSET Receiver
         /\ woken' \in SUBSET Receiver
         /\ waiting' \intersect woken' = {}
         /\ waiting' # {} => /\ waiting # {}
                             /\ Cardinality(woken') = Cardinality(woken) + 1
<1>1. IsFiniteSet(woken)
  BY ChanAssumption, FS_Subset DEF TypeOK
<1>2. CASE waiting = {}
  BY <1>2 DEF Signal, TypeOK
<1>3. CASE waiting # {}
  <2>1. PICK r \in waiting : waiting' = waiting \ {r} /\ woken' = woken \union {r}
    BY <1>3 DEF Signal
  <2>2. r \notin woken
    BY <2>1 DEF TypeOK
  <2>3. Cardinality(woken \union {r}) = Cardinality(woken) + 1
    BY <1>1, <2>2, FS_AddElement
  <2> QED BY <1>3, <2>1, <2>3 DEF TypeOK
<1> QED BY <1>2, <1>3

-----------------------------------------------------------------------------
\* No step of Send, Receive or Close leaves the types.
LEMMA NextType == TypeOK /\ [Next]_vars => TypeOK'
<1> SUFFICES ASSUME TypeOK, [Next]_vars PROVE TypeOK'
  OBVIOUS
<1>1. ASSUME NEW s \in Sender, Send(s) PROVE TypeOK'
  <2>1. calls' \in [Sender -> Nat]
    BY <1>1 DEF Send, TypeOK
  <2>2. CASE closed
    BY <1>1, <2>1, <2>2 DEF Send, TypeOK
  <2>3. CASE ~closed
    <3>1. <<s, calls[s] + 1>> \in Item
      BY <1>1, ChanAssumption DEF Send, TypeOK, Item
    <3>2. ASSUME NEW q \in Seq(Item), NEW e \in Item PROVE Append(q, e) \in Seq(Item)
      OBVIOUS
    <3>3. buffer' \in Seq(Item) /\ sent' \in Seq(Item) /\ Signal
      BY <1>1, <2>3, <3>1, <3>2 DEF Send, TypeOK
    <3> QED BY <1>1, <2>1, <3>3, SignalWakes DEF Send, TypeOK
  <2> QED BY <2>2, <2>3
<1>2. ASSUME NEW r \in Receiver, Receive(r) PROVE TypeOK'
  <2>1. CASE Wait(r)
    BY <1>2, <2>1 DEF Wait, TypeOK
  <2>2. CASE Take(r)
    <3>1. received' \in Seq(Item) /\ buffer' \in Seq(Item)
      BY <2>2, HeadIsNext DEF Take, TypeOK
    <3> QED BY <2>2, <3>1 DEF Take, TypeOK
  <2>3. CASE Drained(r)
    BY <1>2, <2>3 DEF Drained, TypeOK
  <2> QED BY <1>2, <2>1, <2>2, <2>3 DEF Receive
<1>3. CASE Close
  BY <1>3 DEF Close, Broadcast, TypeOK
<1>4. CASE UNCHANGED vars
  BY <1>4 DEF vars, TypeOK
<1> QED BY <1>1, <1>2, <1>3, <1>4 DEF Next

\* The empty, open queue has its types.
LEMMA InitType == Init => TypeOK
<1>1. <<>> \in Seq(Item)
  BY EmptySeq
<1> SUFFICES ASSUME Init PROVE TypeOK
  OBVIOUS
<1>2. buffer \in Seq(Item) /\ sent \in Seq(Item) /\ received \in Seq(Item)
  BY <1>1, Zenon DEF Init
<1>3. calls \in [Sender -> Nat]
  BY DEF Init
<1> QED BY <1>2, <1>3 DEF Init, TypeOK

\* TypeOK is an invariant.
THEOREM TypeCorrect == Spec => []TypeOK
<1> QED BY InitType, NextType, PTL DEF Spec

-----------------------------------------------------------------------------
\* Send appends to the buffer and Receive takes from its head.
LEMMA NextFifo == TypeOK /\ Fifo /\ [Next]_vars => Fifo'
<1> SUFFICES ASSUME TypeOK, Fifo, [Next]_vars PROVE Fifo'
  OBVIOUS
<1>1. ASSUME NEW s \in Sender, Send(s), ~closed PROVE Fifo'
  <2> DEFINE i == <<s, calls[s] + 1>>
  <2>1. i \in Item
    BY <1>1, ChanAssumption DEF Send, TypeOK, Item
  <2>2. Append(received \o buffer, i) = received \o Append(buffer, i)
    <3>1. received \in Seq(Item) /\ buffer \in Seq(Item)
      BY DEF TypeOK
    <3>2. ASSUME NEW e \in Item, NEW p \in Seq(Item), NEW q \in Seq(Item)
          PROVE  Append(p \o q, e) = p \o Append(q, e)
      OBVIOUS
    <3> QED BY <2>1, <3>1, <3>2
  <2> QED BY <1>1, <2>2 DEF Send, Fifo
<1>2. ASSUME NEW r \in Receiver, Take(r) PROVE Fifo'
  BY <1>2, HeadIsNext DEF Take, Fifo, TypeOK
<1>3. CASE UNCHANGED <<sent, received, buffer>>
  BY <1>3 DEF Fifo
<1>4. CASE Next
  BY <1>1, <1>2, <1>3, <1>4 DEF Next, Receive, Send, Wait, Drained, Close
<1> QED BY <1>3, <1>4 DEF vars

\* Items come out once each, in the order they were accepted.
THEOREM FifoCorrect == Spec => []Fifo
<1>1. Init => Fifo
  BY DEF Init, Fifo
<1> QED BY <1>1, InitType, NextType, NextFifo, PTL DEF Spec

-----------------------------------------------------------------------------
\* Each step keeps somebody awake for the items in the buffer: Send signals
\* whenever it appends, and a receiver that stops being woken takes an item.
LEMMA NextWakeup == TypeOK /\ NoLostWakeup /\ [Next]_vars => NoLostWakeup'
<1> SUFFICES ASSUME TypeOK, NoLostWakeup, [Next]_vars, waiting' # {}
             PROVE  ~closed' /\ Len(buffer') <= Cardinality(woken')
  BY DEF NoLostWakeup
<1>1. IsFiniteSet(woken) /\ Cardinality(woken) \in Nat /\ Len(buffer) \in Nat
  BY ChanAssumption, FS_Subset, FS_CardinalityType, LenProperties DEF TypeOK
<1>2. ASSUME NEW s \in Sender, Send(s)
      PROVE  ~closed' /\ Len(buffer') <= Cardinality(woken')
  <2>1. CASE closed
    BY <1>2, <2>1 DEF Send, NoLostWakeup
  <2>2. CASE ~closed
    <3>1. Cardinality(woken') = Cardinality(woken) + 1 /\ waiting # {}
      BY <1>2, <2>2, SignalWakes DEF Send
    <3>2. Len(buffer') = Len(buffer) + 1
      BY <1>2, <2>2 DEF Send, TypeOK
    <3> QED BY <1>1, <1>2, <2>2, <3>1, <3>2 DEF Send, NoLostWakeup
  <2> QED BY <2>1, <2>2
<1>3. ASSUME NEW r \in Receiver, Wait(r)
      PROVE  ~closed' /\ Len(buffer') <= Cardinality(woken')
  <2>1. IsFiniteSet(woken') /\ Cardinality(woken') \in Nat
    BY <1>1, <1>3, FS_Subset, FS_CardinalityType DEF Wait
  <2> QED BY <1>3, <2>1 DEF Wait
<1>4. ASSUME NEW r \in Receiver, Take(r)
      PROVE  ~closed' /\ Len(buffer') <= Cardinality(woken')
  <2>1. Len(buffer') = Len(buffer) - 1
    BY <1>4 DEF Take, TypeOK
  <2>2. Cardinality(woken') >= Cardinality(woken) - 1
    <3>1. woken' = woken \ {r}
      BY <1>4 DEF Take
    <3>2. CASE r \in woken
      <4>1. Cardinality(woken') = Cardinality(woken) - 1
        BY <1>1, <3>1, <3>2, FS_RemoveElement
      <4> QED BY <1>1, <4>1
    <3>3. CASE r \notin woken
      <4>1. woken' = woken
        BY <3>1, <3>3
      <4> QED BY <1>1, <4>1
    <3> QED BY <3>2, <3>3
  <2>3. Cardinality(woken') \in Nat
    BY <1>1, <1>4, FS_Subset, FS_CardinalityType DEF Take
  <2> QED BY <1>1, <1>4, <2>1, <2>2, <2>3 DEF Take, NoLostWakeup
<1>5. ASSUME NEW r \in Receiver, Drained(r) PROVE FALSE
  BY <1>5 DEF Drained, NoLostWakeup
<1>6. CASE Close
  BY <1>6 DEF Close, Broadcast, NoLostWakeup
<1>7. CASE UNCHANGED vars
  BY <1>7 DEF vars, NoLostWakeup
<1> QED BY <1>2, <1>3, <1>4, <1>5, <1>6, <1>7 DEF Next, Receive

\* While receivers wait, a woken one is on its way for every item.
THEOREM WakeupCorrect == Spec => []NoLostWakeup
<1>1. Init => NoLostWakeup
  BY DEF Init, NoLostWakeup
<1> QED BY <1>1, InitType, NextType, NextWakeup, PTL DEF Spec

-----------------------------------------------------------------------------
\* A receiver is told of the end only when the buffer is empty, and nothing
\* is sent after Close.
LEMMA NextDrained ==
  TypeOK /\ Fifo /\ NothingLeftBehind /\ [Next]_vars => NothingLeftBehind'
<1> SUFFICES ASSUME TypeOK, Fifo, NothingLeftBehind, [Next]_vars
             PROVE  NothingLeftBehind'
  OBVIOUS
<1>1. ASSUME NEW s \in Sender, Send(s) PROVE NothingLeftBehind'
  BY <1>1 DEF Send, NothingLeftBehind
<1>2. ASSUME NEW r \in Receiver, Wait(r) PROVE NothingLeftBehind'
  BY <1>2 DEF Wait, NothingLeftBehind
<1>3. ASSUME NEW r \in Receiver, Take(r) PROVE NothingLeftBehind'
  <2>1. Len(received) < Len(sent)
    BY <1>3, HeadIsNext DEF Take, Fifo, TypeOK
  <2>2. finished = {}
    BY <2>1 DEF NothingLeftBehind, TypeOK
  <2> QED BY <1>3, <2>2 DEF Take, NothingLeftBehind
<1>4. ASSUME NEW r \in Receiver, Drained(r) PROVE NothingLeftBehind'
  BY <1>4 DEF Drained, NothingLeftBehind, Fifo, TypeOK
<1>5. CASE Close
  BY <1>5 DEF Close, NothingLeftBehind
<1>6. CASE UNCHANGED vars
  BY <1>6 DEF vars, NothingLeftBehind
<1> QED BY <1>1, <1>2, <1>3, <1>4, <1>5, <1>6 DEF Next, Receive

\* A receiver is told that the channel is closed only when it is empty.
THEOREM DrainCorrect == Spec => []NothingLeftBehind
<1>1. Init => Fifo /\ NothingLeftBehind
  BY DEF Init, Fifo, NothingLeftBehind
<1> QED BY <1>1, InitType, NextType, NextFifo, NextDrained, PTL DEF Spec

\* No receiver sleeps while there is something for it, and none is told of the
\* end while there is: what the senders gave the channel is never stranded.
THEOREM StrandedCorrect == Spec => []NothingStranded
<1>1. NoLostWakeup /\ NothingLeftBehind => NothingStranded
  BY DEF NothingStranded
<1> QED BY <1>1, WakeupCorrect, DrainCorrect, PTL

-----------------------------------------------------------------------------
\* Every step of the channel is a step of the mailbox, or none.
LEMMA StepSimulation ==
  TypeOK /\ Fifo /\ [Next]_vars => [Queue!Next]_<<sent, received, closed>>
<1> SUFFICES ASSUME TypeOK, Fifo, [Next]_vars
             PROVE  Queue!Next \/ UNCHANGED <<sent, received, closed>>
  OBVIOUS
<1>1. ASSUME NEW s \in Sender, Send(s), ~closed PROVE Queue!Next
  <2>1. <<s, calls[s] + 1>> \in Item
    BY <1>1, ChanAssumption DEF Send, TypeOK, Item
  <2> QED BY <1>1, <2>1 DEF Send, Queue!Next, Queue!Put
<1>2. ASSUME NEW r \in Receiver, Take(r) PROVE Queue!Next
  BY <1>2, HeadIsNext DEF Take, Fifo, TypeOK, Queue!Next, Queue!Get
<1>3. CASE Close
  BY <1>3 DEF Close, Queue!Next, Queue!Shut
<1>4. CASE Next
  BY <1>1, <1>2, <1>3, <1>4 DEF Next, Receive, Send, Wait, Drained
<1> QED BY <1>4 DEF vars

\* The channel implements the mailbox.
THEOREM Implementation == Spec => ImplementsMailbox
<1>1. Init => Queue!Init
  BY DEF Init, Queue!Init
<1>2. Init => Fifo
  BY DEF Init, Fifo
<1> QED
  BY <1>1, <1>2, InitType, NextType, NextFifo, StepSimulation, PTL
  DEF Spec, ImplementsMailbox, Queue!Spec

=============================================================================
