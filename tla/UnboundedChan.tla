--------------------------- MODULE UnboundedChan ---------------------------
(***************************************************************************)
(* internal.UnboundedChan (src/internal/channel.go): the queue without a   *)
(* limit behind taskManager.done, the event iterators of src/adk and the   *)
(* message futures of src/flow/agent/react.                                *)
(*                                                                         *)
(* Every method runs under one mutex, which only notEmpty.Wait releases,   *)
(* so a step is a critical section, or what remains of Receive after Wait  *)
(* has taken the mutex again.  The k-th item of sender s is <<s, k>>.      *)
(***************************************************************************)
EXTENDS Naturals, Sequences, FiniteSets

CONSTANTS
  Sender, Receiver,
  MaxSend  \* bound: calls of Send by one sender

ASSUME ChanAssumption ==
  /\ IsFiniteSet(Receiver)
  /\ MaxSend \in Nat

VARIABLES
  buffer,    \* ch.buffer
  closed,    \* ch.closed
  waiting,   \* receivers in notEmpty.Wait
  woken,     \* receivers that were signalled and have not the mutex yet
  finished,  \* receivers that were told that the channel is closed and empty
  calls,     \* calls of Send that each sender made
  sent,      \* history: the items accepted
  received   \* history: the items returned

vars == <<buffer, closed, waiting, woken, finished, calls, sent, received>>

Item == Sender \X (1 .. MaxSend)

Init ==
  /\ buffer = <<>>
  /\ closed = FALSE
  /\ waiting = {}
  /\ woken = {}
  /\ finished = {}
  /\ calls = [s \in Sender |-> 0]
  /\ sent = <<>>
  /\ received = <<>>

\* Mutant: signals nobody.
SignalNone == UNCHANGED <<waiting, woken>>

\* Mutant: signals only when the buffer was empty.
SignalFirst ==
  IF buffer # <<>> \/ waiting = {}
  THEN UNCHANGED <<waiting, woken>>
  ELSE \E r \in waiting : waiting' = waiting \ {r} /\ woken' = woken \union {r}

\* notEmpty.Signal(): one waiting receiver, if there is any
Signal ==
  \/ waiting = {} /\ UNCHANGED <<waiting, woken>>
  \/ \E r \in waiting : /\ waiting' = waiting \ {r}
                        /\ woken' = woken \union {r}

\* notEmpty.Broadcast()
Broadcast ==
  /\ waiting' = {}
  /\ woken' = woken \union waiting

\* On a closed channel Send panics and changes nothing.
Send(s) ==
  /\ calls[s] < MaxSend
  /\ calls' = [calls EXCEPT ![s] = @ + 1]
  /\ \/ /\ closed
        /\ UNCHANGED <<buffer, sent, waiting, woken>>
     \/ /\ ~closed
        /\ buffer' = Append(buffer, <<s, calls[s] + 1>>)
        /\ sent' = Append(sent, <<s, calls[s] + 1>>)
        /\ Signal
  /\ UNCHANGED <<closed, finished, received>>

\* The loop of Receive found the buffer empty and the channel open.
Wait(r) ==
  /\ buffer = <<>> /\ ~closed
  /\ waiting' = waiting \union {r}
  /\ woken' = woken \ {r}
  /\ UNCHANGED <<buffer, closed, finished, calls, sent, received>>

\* Mutant: takes the newest item.
TakeLast(r) ==
  /\ buffer # <<>>
  /\ received' = Append(received, buffer[Len(buffer)])
  /\ buffer' = SubSeq(buffer, 1, Len(buffer) - 1)
  /\ woken' = woken \ {r}
  /\ UNCHANGED <<closed, waiting, finished, calls, sent>>

Take(r) ==
  /\ buffer # <<>>
  /\ received' = Append(received, Head(buffer))
  /\ buffer' = Tail(buffer)
  /\ woken' = woken \ {r}
  /\ UNCHANGED <<closed, waiting, finished, calls, sent>>

\* Receive returns false.
Drained(r) ==
  /\ buffer = <<>> /\ closed
  /\ finished' = finished \union {r}
  /\ woken' = woken \ {r}
  /\ UNCHANGED <<buffer, closed, waiting, calls, sent, received>>

\* A receiver that is not waiting calls Receive, or goes on in it.
Receive(r) ==
  /\ r \notin waiting \union finished
  /\ Wait(r) \/ Take(r) \/ Drained(r)

Close ==
  /\ closed' = TRUE
  /\ \/ closed /\ UNCHANGED <<waiting, woken>>
     \/ ~closed /\ Broadcast
  /\ UNCHANGED <<buffer, finished, calls, sent, received>>

Next ==
  \/ \E s \in Sender : Send(s)
  \/ \E r \in Receiver : Receive(r)
  \/ Close

\* A mutex hands itself on to every goroutine that keeps waiting for it, so
\* a woken receiver and one that calls again go on.  Nobody has to send or
\* to close.
Fairness == \A r \in Receiver : WF_vars(Receive(r))

Spec == Init /\ [][Next]_vars /\ Fairness

-----------------------------------------------------------------------------
\* Type invariant; a receiver does not wait and run at once.
TypeOK ==
  /\ buffer \in Seq(Item)
  /\ closed \in BOOLEAN
  /\ waiting \in SUBSET Receiver
  /\ woken \in SUBSET Receiver
  /\ finished \in SUBSET Receiver
  /\ calls \in [Sender -> Nat]
  /\ sent \in Seq(Item)
  /\ received \in Seq(Item)
  /\ waiting \intersect woken = {}

\* The items come out once each and in the order Send accepted them,
\* whichever receivers take them (channel.go:45-46, 63-66).
Fifo == sent = received \o buffer

\* No wake-up is lost (channel.go:46, 54-56, 76): while receivers wait, the
\* channel is open and a woken receiver is on its way for every item.  Items
\* may still be taken by receivers that never waited.
NoLostWakeup ==
  waiting # {} => /\ ~closed
                  /\ Len(buffer) <= Cardinality(woken)

\* Receive says that the channel is closed only when nothing was left in it
\* (channel.go:58-62).
NothingLeftBehind == finished # {} => closed /\ received = sent

\* Nobody sleeps, and nobody has left, while there is something to take.
NothingStranded == NoLostWakeup /\ NothingLeftBehind

\* Every accepted item is eventually returned.
Delivered ==
  \A n \in 1 .. MaxSend * Cardinality(Sender) :
    Len(sent) >= n ~> Len(received) >= n

\* What callers rely on: a queue that only its ends touch.
Queue == INSTANCE Mailbox WITH shut <- closed
ImplementsMailbox == Queue!Spec

=============================================================================
