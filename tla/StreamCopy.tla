----------------------------- MODULE StreamCopy -----------------------------
(***************************************************************************)
(* StreamReader.Copy (src/schema/stream.go) of a merged reader, as where   *)
(* the streams of several nodes come together at one that several others   *)
(* read: the children that copyStreamReaders makes, each read in a         *)
(* goroutine of its own, call the recv and close of StreamMerge.           *)
(*                                                                         *)
(* The hidden linked list of cpStreamElement is the sequence list of the   *)
(* items of its elements whose once has run.  subStreamList[c] is the      *)
(* position of the element child c reads next, Nil if the pointer is nil.  *)
(* The element after the last is the tail; inside holds the child in its   *)
(* once.  The reader copied may convert what the merged one returns, with  *)
(* a function that may panic.                                              *)
(***************************************************************************)
EXTENDS StreamMerge

CONSTANTS
  Child,
  Eager      \* children whose consumer receives until EOF

ASSUME CopyAssumption ==
  /\ IsFiniteSet(Child)
  /\ Cardinality(Child) >= 2
  /\ Eager \subseteq Child

Nil == 0
EOF == <<"EOF">>
Zero == <<"zero">>  \* the item of an element whose once panicked

VARIABLES
  list,           \* items of the elements that are set
  inside,         \* the child inside once.Do of the tail, at most one
  subStreamList,
  pc,             \* child: "idle", "recv", "panic" or "closed"
  got,            \* history: what each child was given
  closedNum,
  closes          \* history: how often the merged reader was closed

childVars == <<list, inside, subStreamList, pc, got, closedNum, closes>>
vars == <<mergeVars, childVars>>

Init ==
  /\ MergeInit
  /\ list = <<>>
  /\ inside = {}
  /\ subStreamList = [c \in Child |-> 1]
  /\ pc = [c \in Child |-> "idle"]
  /\ got = [c \in Child |-> <<>>]
  /\ closedNum = 0
  /\ closes = 0

-----------------------------------------------------------------------------
IsSet(c) == subStreamList[c] \in DOMAIN list

\* A consumer calls Recv; on a nil element it gets ErrRecvAfterClosed and
\* nothing changes.
Peek(c) ==
  /\ pc[c] = "idle"
  /\ subStreamList[c] # Nil
  /\ pc' = [pc EXCEPT ![c] = "recv"]
  /\ UNCHANGED <<mergeVars, list, inside, subStreamList, got, closedNum, closes>>

\* Mutant: waits for the children that are behind.
OnceTogether(c) ==
  /\ pc[c] = "recv" /\ ~IsSet(c)
  /\ \A d \in Child : pc[d] = "closed" \/ ~IsSet(d)
  /\ inside = {}
  /\ inside' = {c}
  /\ Recv
  /\ UNCHANGED <<list, subStreamList, pc, got, closedNum, closes>>

\* elem.once.Do: the first child at the tail goes in and receives from the
\* source, the others wait.
Once(c) ==
  /\ pc[c] = "recv" /\ ~IsSet(c)
  /\ inside = {}
  /\ inside' = {c}
  /\ Recv
  /\ UNCHANGED <<list, subStreamList, pc, got, closedNum, closes>>

\* Mutant: the child that ran once does not move on.
AdvanceOthers(c, e) ==
  subStreamList' = [subStreamList EXCEPT ![c] =
                      IF c \in inside \/ e = EOF THEN @ ELSE @ + 1]

\* The pointer of c after it read element e: it stays at EOF, and after an
\* element whose next was never made it is nil.
Advance(c, e) ==
  subStreamList' = [subStreamList EXCEPT ![c] =
                      CASE e = EOF -> @ [] e = Zero -> Nil [] OTHER -> @ + 1]

\* The source has returned e to the child inside, which sets the element,
\* makes the next one and returns.
Fill(c, e) ==
  /\ list' = Append(list, e)
  /\ got' = [got EXCEPT ![c] = Append(@, e)]
  /\ Advance(c, e)
  /\ inside' = {}
  /\ pc' = [pc EXCEPT ![c] = "idle"]
  /\ UNCHANGED <<closedNum, closes>>

FillChunk(c) ==
  /\ inside = {c}
  /\ \E s \in Source : Receive(s) \/ (Ends(s) /\ named)
  /\ Fill(c, Last(delivered'))

FillEOF(c) ==
  /\ inside = {c}
  /\ EndOfAll
  /\ Fill(c, EOF)

\* A stream ended that has no name: the merged reader receives again.
SelectAgain(c) ==
  /\ inside = {c}
  /\ ~named
  /\ \E s \in Source : Ends(s)
  /\ UNCHANGED childVars

\* The convert function panics inside once: once is done all the same, with
\* the element's item zero and its next nil.  The consumer unwinds.
Panic(c) ==
  /\ inside = {c}
  /\ \E s \in Source : Receive(s)
  /\ list' = Append(list, Zero)
  /\ inside' = {}
  /\ pc' = [pc EXCEPT ![c] = "panic"]
  /\ UNCHANGED <<subStreamList, got, closedNum, closes>>

\* An element that is set is read without a lock.
Read(c) ==
  /\ pc[c] = "recv" /\ IsSet(c)
  /\ got' = [got EXCEPT ![c] = Append(@, list[subStreamList[c]])]
  /\ Advance(c, list[subStreamList[c]])
  /\ pc' = [pc EXCEPT ![c] = "idle"]
  /\ UNCHANGED <<mergeVars, list, inside, closedNum, closes>>

\* Mutant: compares the count from before this child.
CloseChildLate(c) ==
  /\ pc[c] \in {"idle", "panic"}
  /\ pc' = [pc EXCEPT ![c] = "closed"]
  /\ subStreamList' = [subStreamList EXCEPT ![c] = Nil]
  /\ closedNum' = closedNum + 1
  /\ IF closedNum = Cardinality(Child)
     THEN Close /\ closes' = closes + 1
     ELSE UNCHANGED <<mergeVars, closes>>
  /\ UNCHANGED <<list, inside, got>>

\* Close of a child; the last one closes the source.  A child may be closed
\* again, which changes nothing.
CloseChild(c) ==
  /\ pc[c] \in {"idle", "panic"}
  /\ pc' = [pc EXCEPT ![c] = "closed"]
  /\ IF subStreamList[c] = Nil
     THEN UNCHANGED <<mergeVars, subStreamList, closedNum, closes>>
     ELSE /\ subStreamList' = [subStreamList EXCEPT ![c] = Nil]
          /\ closedNum' = closedNum + 1
          /\ IF closedNum' = Cardinality(Child)
             THEN Close /\ closes' = closes + 1
             ELSE UNCHANGED <<mergeVars, closes>>
  /\ UNCHANGED <<list, inside, got>>

Ended(c) == got[c] # <<>> /\ Last(got[c]) = EOF

Consume(c) == Peek(c) /\ ~Ended(c)

Filling(c) == FillChunk(c) \/ FillEOF(c) \/ SelectAgain(c)

Next ==
  \/ \E s \in Source : Writing(s) /\ UNCHANGED childVars
  \/ \E s \in Pumped : Pumping(s) /\ UNCHANGED childVars
  \/ \E c \in Child : \/ Consume(c) \/ Once(c) \/ Filling(c) \/ Panic(c)
                      \/ Read(c) \/ CloseChild(c)

\* A goroutine in a call goes on when it can; only the eager consumers have
\* to receive, and nobody has to close.
Fairness ==
  /\ MergeFairness
  /\ \A c \in Child : WF_vars(Once(c) \/ Filling(c) \/ Read(c))
  /\ \A c \in Eager : WF_vars(Consume(c))

Spec == Init /\ [][Next]_vars /\ Fairness

-----------------------------------------------------------------------------
\* A convert function has panicked in the once of an element.
CutOff == Zero \in Range(list)

\* However the children overtake each other, each is given a prefix of one
\* list, and that list is what the merged reader returned, in order and with
\* nothing missing before the EOF (stream.go:728-757).  Only a panic leaves a
\* hole.
ChildrenAgree ==
  /\ \A c \in Child : IsPrefix(got[c], list)
  /\ \A i \in DOMAIN list :
       \/ i <= Len(delivered) /\ list[i] \in {delivered[i], Zero}
       \/ /\ list[i] = EOF
          /\ i = Len(list) /\ i = Len(delivered) + 1
          /\ nonClosed = {}

\* "A nil element represents that the child has been closed"
\* (stream.go:691): no child finds itself cut off, unless a convert function
\* panicked.
NilMeansClosed ==
  \A c \in Child : subStreamList[c] = Nil => pc[c] = "closed" \/ CutOff

\* The source is not closed while a child may still read it, and not twice,
\* because closing a Go channel twice panics (stream.go:759-773, 414-423).
NotClosedEarly ==
  /\ closes <= 1
  /\ reader = "closed" => \A c \in Child : pc[c] = "closed"

\* The children of a copy are as good as the reader that was copied: they
\* see the same, to the same end, and none closes it for the others.
CopiesAgree == ChildrenAgree /\ NilMeansClosed /\ NotClosedEarly

\* A child that keeps receiving comes to the end of the stream or closes,
\* although the others stop receiving without closing ("can read from the
\* original stream independently", stream.go:682).
Independent ==
  \A c \in Eager : <>(Ended(c) \/ pc[c] = "closed" \/ CutOff)

\* Once every child is closed each writer that waits for room is let go, and
\* so is the goroutine that pumps a converted reader (stream.go:561-565,
\* 638-668).
WriterReleased ==
  (\A c \in Child : pc[c] = "closed") /\ ~CutOff ~> AllEnded

=============================================================================
