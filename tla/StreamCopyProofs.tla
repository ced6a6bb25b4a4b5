-------------------------- MODULE StreamCopyProofs --------------------------
(***************************************************************************)
(* The children of a copy agree and a merge is whole, for any number of    *)
(* children and sources and any capacities: CopiesAgree and MergedWhole    *)
(* are invariants of StreamCopy.                                           *)
(***************************************************************************)
EXTENDS StreamCopy, SequenceTheorems, FiniteSetTheorems, TLAPS

IsSeq(q) == q \in Seq(Range(q))

Types ==
  /\ got = [c \in Child |-> got[c]]
  /\ pc \in [Child -> {"idle", "recv", "panic", "closed"}]
  /\ subStreamList \in [Child -> Nat]

\* What is in the elements: what was delivered, and EOF or Zero only last.
Elements ==
  /\ IsSeq(list) /\ IsSeq(delivered)
  /\ Len(delivered) <= Len(list)
  /\ \A i \in 1 .. Len(delivered) : delivered[i] \notin {EOF, Zero}
  /\ \A i \in 1 .. Len(list) : list[i] = Zero => i = Len(list)
  /\ \A i \in 1 .. Len(list) :
       \/ i <= Len(delivered) /\ list[i] \in {delivered[i], Zero}
       \/ /\ list[i] = EOF /\ i = Len(list) /\ i = Len(delivered) + 1
          /\ nonClosed = {} /\ reader \in {"eof", "closed"}

\* Where a child is, and what it has been given.
Place(c) ==
  /\ IsSeq(got[c])
  /\ Len(got[c]) <= Len(list)
  /\ \A i \in 1 .. Len(got[c]) : got[c][i] = list[i]
  /\ subStreamList[c] = Nil =>
       \/ pc[c] = "closed"
       \/ pc[c] = "idle" /\ \E i \in 1 .. Len(list) : list[i] = Zero
  /\ subStreamList[c] # Nil =>
       /\ pc[c] # "closed"
       /\ subStreamList[c] <= Len(list) + 1
       /\ \A i \in 1 .. subStreamList[c] - 1 : list[i] \notin {EOF, Zero}
       /\ \/ Len(got[c]) = subStreamList[c] - 1
          \/ /\ Len(got[c]) = subStreamList[c] /\ pc[c] # "recv"
             /\ list[subStreamList[c]] = EOF

\* One child at a time is in the once of the tail, and only then is the merged
\* reader in a call.
Turn ==
  /\ inside = {} => reader # "recv"
  /\ inside # {} =>
       /\ reader = "recv"
       /\ \E c \in Child : /\ inside = {c} /\ pc[c] = "recv"
                           /\ subStreamList[c] = Len(list) + 1

Closed == {c \in Child : pc[c] = "closed"}

\* closedNum counts closed children, though not all of them after a panic.
Counted ==
  /\ closedNum \in Nat /\ closedNum <= Cardinality(Closed)
  /\ closes \in {0, 1}
  /\ closes = 1 => closedNum = Cardinality(Child)
  /\ reader = "closed" => closes = 1

IInv == Types /\ Elements /\ (\A c \in Child : Place(c)) /\ Turn /\ Counted

-----------------------------------------------------------------------------
\* What Append does to a sequence of anything.
LEMMA AppendIs ==
  ASSUME NEW q, IsSeq(q), NEW e
  PROVE  /\ IsSeq(Append(q, e))
         /\ Len(q) \in Nat
         /\ Len(Append(q, e)) = Len(q) + 1
         /\ \A i \in 1 .. Len(q) : Append(q, e)[i] = q[i]
         /\ Append(q, e)[Len(q) + 1] = e
<1> DEFINE S == Range(q) \union {e}
           r == Append(q, e)
<1>1. q \in Seq(S) /\ e \in S
  BY SeqMonotonic DEF IsSeq
<1>2. /\ r \in Seq(S) /\ Len(r) = Len(q) + 1 /\ Len(q) \in Nat
      /\ \A i \in 1 .. Len(q) : r[i] = q[i]
      /\ r[Len(q) + 1] = e
  BY <1>1, AppendProperties, LenProperties
<1>3. r \in [1 .. Len(r) -> Range(r)] /\ Len(r) \in Nat
  BY <1>1, <1>2, LenProperties DEF Range
<1>4. r \in Seq(Range(r))
  BY <1>3, SeqDef
<1> QED BY <1>2, <1>4 DEF IsSeq

\* The empty sequence is one.
LEMMA EmptyIs == IsSeq(<<>>) /\ Len(<<>>) = 0
  BY EmptySeq DEF IsSeq

\* The initial states satisfy the invariant.
LEMMA InitInv == Init => IInv
<1> SUFFICES ASSUME Init PROVE IInv
  OBVIOUS
<1>1. Types
  BY DEF Init, Types
<1>2. Elements
  BY EmptyIs DEF Init, MergeInit, Elements
<1>3. ASSUME NEW c \in Child PROVE Place(c)
  <2>1. got[c] = <<>> /\ list = <<>> /\ subStreamList[c] = 1 /\ pc[c] = "idle"
    BY DEF Init
  <2> QED BY <2>1, EmptyIs DEF Place, Nil
<1>4. Turn
  BY DEF Init, MergeInit, Turn
<1>5. Counted
  <2>1. Closed = {}
    BY DEF Init, Closed
  <2> QED BY <2>1, FS_EmptySet DEF Init, MergeInit, Counted
<1> QED BY <1>1, <1>2, <1>3, <1>4, <1>5 DEF IInv

-----------------------------------------------------------------------------
\* Nothing ends the list while a child is in its once: it has come past every
\* element there is.
LEMMA NothingEnded ==
  ASSUME IInv, NEW c \in Child, inside = {c}
  PROVE  /\ pc[c] = "recv" /\ subStreamList[c] = Len(list) + 1 /\ reader = "recv"
         /\ Len(list) \in Nat /\ Len(delivered) = Len(list)
         /\ Len(got[c]) = Len(list)
         /\ \A i \in 1 .. Len(list) : list[i] = delivered[i] /\ list[i] \notin {EOF, Zero}
<1>1. /\ pc[c] = "recv" /\ subStreamList[c] = Len(list) + 1 /\ reader = "recv"
  BY DEF IInv, Turn
<1>2. Len(list) \in Nat /\ Len(delivered) \in Nat
  BY AppendIs DEF IInv, Elements
<1>3. \A i \in 1 .. Len(list) : list[i] \notin {EOF, Zero}
  BY <1>1, <1>2 DEF IInv, Place, Nil
<1>4. Len(got[c]) = Len(list)
  BY <1>1, <1>2 DEF IInv, Place, Nil
<1>5. \A i \in 1 .. Len(list) : i <= Len(delivered) /\ list[i] = delivered[i]
  BY <1>2, <1>3 DEF IInv, Elements
<1>6. Len(delivered) = Len(list)
  BY <1>2, <1>5 DEF IInv, Elements
<1> QED BY <1>1, <1>2, <1>3, <1>4, <1>5, <1>6

\* The children that are not concerned keep their place when an element is
\* added.
LEMMA OthersKeep ==
  ASSUME IInv, NEW e, list' = Append(list, e), NEW d \in Child,
         got'[d] = got[d], subStreamList'[d] = subStreamList[d], pc'[d] = pc[d]
  PROVE  Place(d)'
<1>1. /\ Len(list) \in Nat /\ Len(list') = Len(list) + 1
      /\ \A i \in 1 .. Len(list) : list'[i] = list[i]
  BY AppendIs DEF IInv, Elements
<1>2. Len(got[d]) \in Nat /\ subStreamList[d] \in Nat
  BY AppendIs DEF IInv, Place, Types
<1>3. Place(d)
  BY DEF IInv
<1>4. subStreamList[d] # Nil /\ Len(got[d]) = subStreamList[d] =>
        list'[subStreamList[d]] = list[subStreamList[d]]
  BY <1>1, <1>2, <1>3 DEF Place, Nil
<1> QED BY <1>1, <1>2, <1>3, <1>4 DEF Place, Nil

\* Counting is not concerned by steps that close nothing.
LEMMA CountKept ==
  ASSUME Counted, UNCHANGED <<closedNum, closes>>, Closed' = Closed,
         reader' = "closed" => reader = "closed"
  PROVE  Counted'
  BY DEF Counted

-----------------------------------------------------------------------------
\* A step of the goroutines before the reader, which sees nothing of them.
LEMMA SourceStep ==
  ASSUME IInv, UNCHANGED <<childVars, nonClosed, reader, delivered>>
  PROVE  IInv'
<1>1. /\ Types' /\ Elements' /\ Turn'
  BY DEF IInv, Types, Elements, Turn, childVars
<1>2. ASSUME NEW c \in Child PROVE Place(c)'
  BY DEF IInv, Place, childVars
<1>3. Counted'
  BY CountKept DEF IInv, Closed, childVars
<1> QED BY <1>1, <1>2, <1>3 DEF IInv

\* A consumer calls Recv.
LEMMA ConsumeStep ==
  ASSUME IInv, NEW c \in Child, Consume(c)
  PROVE  IInv'
<1>1. /\ pc[c] = "idle" /\ subStreamList[c] # Nil /\ ~Ended(c)
      /\ pc' = [pc EXCEPT ![c] = "recv"]
      /\ UNCHANGED <<mergeVars, list, inside, subStreamList, got, closedNum, closes>>
  BY DEF Consume, Peek
<1>2. /\ pc'[c] = "recv" /\ \A d \in Child : d # c => pc'[d] = pc[d]
      /\ pc' \in [Child -> {"idle", "recv", "panic", "closed"}]
  BY <1>1 DEF IInv, Types
<1>3. Types' /\ Elements'
  BY <1>1, <1>2 DEF IInv, Types, Elements, mergeVars
<1>4. Turn'
  BY <1>1, <1>2 DEF IInv, Turn, mergeVars
<1>5. ASSUME NEW d \in Child PROVE Place(d)'
  <2>1. CASE d # c
    BY <1>1, <1>2, <2>1 DEF IInv, Place
  <2>2. CASE d = c
    <3>1. Len(got[c]) \in Nat /\ subStreamList[c] \in Nat
      BY AppendIs DEF IInv, Place, Types
    <3>2. got[c] # <<>> => got[c][Len(got[c])] # EOF
      BY <1>1 DEF Ended, Last
    <3>3. Len(got[c]) # 0 => got[c] # <<>>
      BY EmptyIs
    <3>4. Len(got[c]) # subStreamList[c] \/ list[subStreamList[c]] # EOF
      BY <1>1, <3>1, <3>2, <3>3 DEF IInv, Place, Nil
    <3> QED BY <1>1, <1>2, <2>2, <3>1, <3>4 DEF IInv, Place
  <2> QED BY <2>1, <2>2
<1>6. Counted'
  <2>1. Closed' = Closed
    BY <1>1, <1>2 DEF Closed
  <2> QED BY <1>1, <2>1, CountKept DEF IInv, mergeVars
<1> QED BY <1>3, <1>4, <1>5, <1>6 DEF IInv

\* A child goes into the once of the tail.
LEMMA OnceStep ==
  ASSUME IInv, NEW c \in Child, Once(c)
  PROVE  IInv'
<1>1. /\ pc[c] = "recv" /\ ~IsSet(c) /\ inside = {} /\ inside' = {c}
      /\ reader = "idle" /\ reader' = "recv"
      /\ UNCHANGED <<nonClosed, delivered, list, subStreamList, pc, got, closedNum, closes>>
  BY DEF Once, Recv, threads
<1>2. Types'
  BY <1>1 DEF IInv, Types
<1>3. Elements'
  BY <1>1 DEF IInv, Elements
<1>4. ASSUME NEW d \in Child PROVE Place(d)'
  BY <1>1 DEF IInv, Place
<1>5. Turn'
  <2>1. DOMAIN list = 1 .. Len(list) /\ Len(list) \in Nat
    BY LenProperties DEF IInv, Elements, IsSeq
  <2>2. subStreamList[c] \in Nat /\ subStreamList[c] # Nil /\ subStreamList[c] <= Len(list) + 1
    BY <1>1 DEF IInv, Types, Place
  <2>3. subStreamList[c] = Len(list) + 1
    BY <1>1, <2>1, <2>2 DEF IsSet, Nil
  <2> QED BY <1>1, <2>3 DEF Turn
<1>6. Counted'
  BY <1>1, CountKept DEF IInv, Closed
<1> QED BY <1>2, <1>3, <1>4, <1>5, <1>6 DEF IInv

\* A stream ended that is not reported: the child stays in the once.
LEMMA SelectAgainStep ==
  ASSUME IInv, NEW c \in Child, SelectAgain(c)
  PROVE  IInv'
<1>1. /\ inside = {c}
      /\ UNCHANGED <<childVars, delivered, reader>>
  BY DEF SelectAgain, Ends
<1>2. Elements'
  BY <1>1, NothingEnded DEF IInv, Elements, childVars
<1>3. Types' /\ Turn'
  BY <1>1 DEF IInv, Types, Turn, childVars
<1>4. ASSUME NEW d \in Child PROVE Place(d)'
  BY <1>1 DEF IInv, Place, childVars
<1>5. Counted'
  BY <1>1, CountKept DEF IInv, Closed, childVars
<1> QED BY <1>2, <1>3, <1>4, <1>5 DEF IInv

-----------------------------------------------------------------------------
\* The child inside sets the tail to what was delivered, or to EOF, and moves
\* on, or stays.
LEMMA FillStep ==
  ASSUME IInv, NEW c \in Child, inside = {c}, NEW e, Fill(c, e),
         reader' # "recv" /\ reader' # "closed",
         \/ /\ delivered' = Append(delivered, e) /\ e \notin {EOF, Zero}
            /\ nonClosed' \subseteq nonClosed
         \/ /\ delivered' = delivered /\ e = EOF
            /\ nonClosed = {} /\ nonClosed' = {} /\ reader' = "eof"
  PROVE  IInv'
<1> DEFINE p == subStreamList[c]
           next == CASE e = EOF -> p [] e = Zero -> Nil [] OTHER -> p + 1
<1>1. /\ list' = Append(list, e) /\ inside' = {}
      /\ got' = [got EXCEPT ![c] = Append(@, e)]
      /\ subStreamList' = [subStreamList EXCEPT ![c] = next]
      /\ pc' = [pc EXCEPT ![c] = "idle"]
      /\ UNCHANGED <<closedNum, closes>>
  BY DEF Fill, Advance
<1>2. /\ pc[c] = "recv" /\ subStreamList[c] = Len(list) + 1 /\ Len(list) \in Nat
      /\ Len(delivered) = Len(list) /\ Len(got[c]) = Len(list)
      /\ \A i \in 1 .. Len(list) : list[i] = delivered[i] /\ list[i] \notin {EOF, Zero}
  BY NothingEnded
<1>3. /\ IsSeq(list') /\ Len(list') = Len(list) + 1 /\ list'[Len(list) + 1] = e
      /\ \A i \in 1 .. Len(list) : list'[i] = list[i]
  BY <1>1, AppendIs DEF IInv, Elements
<1>4. Types'
  <2>1. /\ e = EOF => next = p
        /\ e \notin {EOF, Zero} => next = p + 1
    BY DEF EOF, Zero
  <2>2. next \in Nat
    BY <1>2, <2>1
  <2> HIDE DEF next
  <2> QED BY <1>1, <2>2 DEF IInv, Types
<1>5. /\ got'[c] = Append(got[c], e) /\ pc'[c] = "idle"
      /\ subStreamList'[c] = next
      /\ \A d \in Child : d # c => /\ got'[d] = got[d] /\ pc'[d] = pc[d]
                                   /\ subStreamList'[d] = subStreamList[d]
  BY <1>1, <1>2 DEF IInv, Types
<1>6. Elements'
  <2>1. CASE e = EOF /\ delivered' = delivered /\ nonClosed' = {} /\ reader' = "eof"
    <3>1. \A i \in 1 .. Len(list') : list'[i] # Zero
      BY <1>2, <1>3, <2>1 DEF EOF, Zero
    <3> QED BY <1>2, <1>3, <2>1, <3>1 DEF IInv, Elements
  <2>2. CASE delivered' = Append(delivered, e) /\ e \notin {EOF, Zero}
    <3>1. /\ IsSeq(delivered') /\ Len(delivered') = Len(list) + 1
          /\ delivered'[Len(list) + 1] = e
          /\ \A i \in 1 .. Len(list) : delivered'[i] = delivered[i]
      BY <1>2, <2>2, AppendIs DEF IInv, Elements
    <3> QED BY <1>2, <1>3, <2>2, <3>1 DEF IInv, Elements
  <2> QED BY <2>1, <2>2
<1>7. ASSUME NEW d \in Child PROVE Place(d)'
  <2>1. CASE d # c
    BY <1>1, <1>5, <2>1, OthersKeep
  <2>2. CASE d = c
    <3>1. /\ IsSeq(got'[c]) /\ Len(got'[c]) = Len(list) + 1
          /\ got'[c][Len(list) + 1] = e
          /\ \A i \in 1 .. Len(list) : got'[c][i] = got[c][i]
      BY <1>2, <1>5, AppendIs DEF IInv, Place
    <3>2. \A i \in 1 .. Len(list) : got[c][i] = list[i]
      BY <1>2 DEF IInv, Place
    <3>3. \A i \in 1 .. Len(got'[c]) : got'[c][i] = list'[i]
      BY <1>2, <1>3, <3>1, <3>2
    <3>4. CASE e = EOF
      <4>1. subStreamList'[c] = Len(list) + 1
        BY <1>2, <1>5, <3>4 DEF EOF, Zero
      <4>2. \A i \in 1 .. Len(list) : list'[i] \notin {EOF, Zero}
        BY <1>2, <1>3
      <4>3. pc'[c] = "idle" /\ Len(list) \in Nat
        BY <1>2, <1>5
      <4> QED BY <1>3, <2>2, <3>1, <3>3, <3>4, <4>1, <4>2, <4>3 DEF Place, Nil
    <3>5. CASE e \notin {EOF, Zero}
      <4>1. \A i \in 1 .. Len(list) + 1 : list'[i] \notin {EOF, Zero}
        BY <1>2, <1>3, <3>5
      <4>2. subStreamList'[c] = Len(list) + 2
        BY <1>2, <1>5, <3>5
      <4>3. pc'[c] = "idle" /\ Len(list) \in Nat
        BY <1>2, <1>5
      <4> QED BY <1>3, <2>2, <3>1, <3>3, <4>1, <4>2, <4>3 DEF Place, Nil
    <3> QED BY <3>4, <3>5
  <2> QED BY <2>1, <2>2
<1>8. Turn'
  BY <1>1 DEF Turn
<1>9. Counted'
  <2>1. Closed' = Closed
    BY <1>2, <1>5 DEF Closed
  <2> QED BY <1>1, <2>1, CountKept DEF IInv
<1> QED BY <1>4, <1>6, <1>7, <1>8, <1>9 DEF IInv

\* The convert function panics in the once.
LEMMA PanicStep ==
  ASSUME IInv, NEW c \in Child, Panic(c)
  PROVE  IInv'
<1>1. PICK x : /\ list' = Append(list, Zero) /\ inside = {c} /\ inside' = {}
               /\ pc' = [pc EXCEPT ![c] = "panic"] /\ reader' = "idle"
               /\ delivered' = Append(delivered, x) /\ x \notin {EOF, Zero}
               /\ UNCHANGED <<subStreamList, got, closedNum, closes, nonClosed>>
  BY DEF Panic, Receive, EOF, Zero
<1>2. /\ pc[c] = "recv" /\ subStreamList[c] = Len(list) + 1 /\ Len(list) \in Nat
      /\ Len(delivered) = Len(list) /\ Len(got[c]) = Len(list)
      /\ \A i \in 1 .. Len(list) : list[i] = delivered[i] /\ list[i] \notin {EOF, Zero}
  BY <1>1, NothingEnded
<1>3. /\ IsSeq(list') /\ Len(list') = Len(list) + 1 /\ list'[Len(list) + 1] = Zero
      /\ \A i \in 1 .. Len(list) : list'[i] = list[i]
  BY <1>1, AppendIs DEF IInv, Elements
<1>4. /\ IsSeq(delivered') /\ Len(delivered') = Len(list) + 1
      /\ delivered'[Len(list) + 1] = x
      /\ \A i \in 1 .. Len(list) : delivered'[i] = delivered[i]
  BY <1>1, <1>2, AppendIs DEF IInv, Elements
<1>5. pc'[c] = "panic" /\ \A d \in Child : d # c => pc'[d] = pc[d]
  BY <1>1 DEF IInv, Types
<1>6. Types' /\ Turn'
  BY <1>1 DEF IInv, Types, Turn
<1>7. Elements'
  BY <1>1, <1>2, <1>3, <1>4 DEF IInv, Elements
<1>8. ASSUME NEW d \in Child PROVE Place(d)'
  <2>1. CASE d # c
    BY <1>1, <1>5, <2>1, OthersKeep
  <2>2. CASE d = c
    BY <1>1, <1>2, <1>3, <1>5, <2>2 DEF IInv, Place, Nil
  <2> QED BY <2>1, <2>2
<1>9. Counted'
  <2>1. Closed' = Closed
    BY <1>2, <1>5 DEF Closed
  <2> QED BY <1>1, <2>1, CountKept DEF IInv
<1> QED BY <1>6, <1>7, <1>8, <1>9 DEF IInv

\* A child reads an element that is set.
LEMMA ReadStep ==
  ASSUME IInv, NEW c \in Child, Read(c)
  PROVE  IInv'
<1> DEFINE p == subStreamList[c]
           e == list[p]
           next == CASE e = EOF -> p [] e = Zero -> Nil [] OTHER -> p + 1
<1>1. /\ pc[c] = "recv" /\ p \in DOMAIN list
      /\ got' = [got EXCEPT ![c] = Append(@, e)]
      /\ subStreamList' = [subStreamList EXCEPT ![c] = next]
      /\ pc' = [pc EXCEPT ![c] = "idle"]
      /\ UNCHANGED <<mergeVars, list, inside, closedNum, closes>>
  BY DEF Read, IsSet, Advance
<1>2. Len(list) \in Nat /\ p \in 1 .. Len(list)
  BY <1>1, LenProperties DEF IInv, Elements, IsSeq
<1>3. /\ Len(got[c]) = p - 1
      /\ \A i \in 1 .. p - 1 : got[c][i] = list[i] /\ list[i] \notin {EOF, Zero}
  BY <1>1, <1>2 DEF IInv, Place, Nil
<1>4. /\ got'[c] = Append(got[c], e) /\ pc'[c] = "idle"
      /\ subStreamList'[c] = next
      /\ \A d \in Child : d # c => /\ got'[d] = got[d] /\ pc'[d] = pc[d]
                                   /\ subStreamList'[d] = subStreamList[d]
  BY <1>1 DEF IInv, Types
<1>5. Types'
  <2>1. /\ e = EOF => next = p
        /\ e = Zero => next = Nil
        /\ e \notin {EOF, Zero} => next = p + 1
    BY DEF EOF, Zero
  <2>2. next \in Nat
    BY <1>2, <2>1 DEF Nil
  <2> HIDE DEF next
  <2> QED BY <1>1, <2>2 DEF IInv, Types
<1>6. Elements'
  BY <1>1 DEF IInv, Elements, mergeVars
<1>7. ASSUME NEW d \in Child PROVE Place(d)'
  <2>1. CASE d # c
    BY <1>1, <1>4, <2>1 DEF IInv, Place
  <2>2. CASE d = c
    <3>1. /\ IsSeq(got'[c]) /\ Len(got'[c]) = p /\ got'[c][p] = e
          /\ \A i \in 1 .. p - 1 : got'[c][i] = got[c][i]
      BY <1>2, <1>3, <1>4, AppendIs DEF IInv, Place
    <3>2. \A i \in 1 .. Len(got'[c]) : got'[c][i] = list'[i]
      BY <1>1, <1>2, <1>3, <3>1
    <3>3. CASE e = EOF
      <4>1. subStreamList'[c] = p
        BY <1>4, <3>3 DEF EOF, Zero
      <4> QED BY <1>1, <1>2, <1>3, <1>4, <2>2, <3>1, <3>2, <3>3, <4>1 DEF Place, Nil
    <3>4. CASE e = Zero
      <4>1. subStreamList'[c] = Nil
        BY <1>4, <3>4 DEF EOF, Zero
      <4> QED BY <1>1, <1>2, <1>3, <1>4, <2>2, <3>1, <3>2, <3>4, <4>1 DEF Place, Nil
    <3>5. CASE e \notin {EOF, Zero}
      <4>1. subStreamList'[c] = p + 1
        BY <1>4, <3>5
      <4> QED BY <1>1, <1>2, <1>3, <1>4, <2>2, <3>1, <3>2, <3>5, <4>1 DEF Place, Nil
    <3> QED BY <3>3, <3>4, <3>5
  <2> QED BY <2>1, <2>2
<1>8. Turn'
  <2>1. ASSUME NEW d \in Child, inside = {d} PROVE d # c
    BY <1>2, <2>1, NothingEnded
  <2> QED BY <1>1, <1>4, <2>1 DEF IInv, Turn, mergeVars
<1>9. Counted'
  <2>1. Closed' = Closed
    BY <1>1, <1>4 DEF Closed
  <2> QED BY <1>1, <2>1, CountKept DEF IInv, mergeVars
<1> QED BY <1>5, <1>6, <1>7, <1>8, <1>9 DEF IInv

-----------------------------------------------------------------------------
\* One more child is closed: the count stays below the number of children
\* until the last of them has come.
LEMMA CloseCounts ==
  ASSUME NEW c \in Child, pc \in [Child -> {"idle", "recv", "panic", "closed"}],
         pc[c] # "closed", pc' = [pc EXCEPT ![c] = "closed"]
  PROVE  /\ Cardinality(Closed) \in Nat /\ Cardinality(Child) \in Nat
         /\ Cardinality(Closed') = Cardinality(Closed) + 1
         /\ Cardinality(Closed') <= Cardinality(Child)
<1>1. /\ Closed \subseteq Child /\ IsFiniteSet(Child) /\ IsFiniteSet(Closed)
      /\ Closed' \subseteq Child /\ IsFiniteSet(Closed')
  BY CopyAssumption, FS_Subset DEF Closed
<1>2. Closed' = Closed \union {c} /\ c \notin Closed
  BY DEF Closed
<1>3. Cardinality(Closed') = Cardinality(Closed) + 1
  BY <1>1, <1>2, FS_AddElement
<1> QED BY <1>1, <1>3, FS_Subset, FS_CardinalityType

\* A child is closed, and with the last one the merged reader.
LEMMA CloseStep ==
  ASSUME IInv, NEW c \in Child, CloseChild(c)
  PROVE  IInv'
<1>1. /\ pc[c] \in {"idle", "panic"} /\ pc' = [pc EXCEPT ![c] = "closed"]
      /\ UNCHANGED <<list, inside, got, delivered, nonClosed>>
      /\ \/ subStreamList[c] = Nil /\ UNCHANGED <<subStreamList, closedNum, closes, reader>>
         \/ /\ subStreamList[c] # Nil
            /\ subStreamList' = [subStreamList EXCEPT ![c] = Nil]
            /\ closedNum' = closedNum + 1
            /\ \/ /\ closedNum' = Cardinality(Child) /\ closes' = closes + 1
                  /\ reader \in {"idle", "eof"} /\ reader' = "closed"
               \/ closedNum' # Cardinality(Child) /\ UNCHANGED <<closes, reader>>
  BY DEF CloseChild, Close, threads, mergeVars
<1>2. /\ pc'[c] = "closed" /\ subStreamList'[c] = Nil
      /\ \A d \in Child : d # c => pc'[d] = pc[d] /\ subStreamList'[d] = subStreamList[d]
  BY <1>1 DEF IInv, Types
<1>3. Types'
  BY <1>1 DEF IInv, Types, Nil
<1>4. Elements'
  <2>1. \A i \in 1 .. Len(list) : reader \in {"eof", "closed"} => reader' \in {"eof", "closed"}
    BY <1>1
  <2> QED BY <1>1, <2>1 DEF IInv, Elements
<1>5. ASSUME NEW d \in Child PROVE Place(d)'
  <2>1. CASE d # c
    BY <1>1, <1>2, <2>1 DEF IInv, Place
  <2>2. CASE d = c
    BY <1>1, <1>2, <2>2 DEF IInv, Place
  <2> QED BY <2>1, <2>2
<1>6. Turn'
  <2>1. reader' = reader \/ (reader \in {"idle", "eof"} /\ reader' = "closed")
    BY <1>1
  <2>2. ASSUME NEW d \in Child, inside = {d} PROVE d # c
    BY <1>1, <2>2, NothingEnded
  <2> QED BY <1>1, <1>2, <2>1, <2>2 DEF IInv, Turn
<1>7. Counted'
  <2>1. /\ Cardinality(Closed) \in Nat /\ Cardinality(Child) \in Nat
        /\ Cardinality(Closed') = Cardinality(Closed) + 1
        /\ Cardinality(Closed') <= Cardinality(Child)
    BY <1>1, CloseCounts DEF IInv, Types
  <2> QED BY <1>1, <2>1 DEF IInv, Counted
<1> QED BY <1>3, <1>4, <1>5, <1>6, <1>7 DEF IInv

\* Every step keeps the invariant.
LEMMA NextInv == IInv /\ [Next]_vars => IInv'
<1> SUFFICES ASSUME IInv, [Next]_vars PROVE IInv'
  OBVIOUS
<1>1. ASSUME NEW s \in Source, Writing(s), UNCHANGED childVars PROVE IInv'
  BY <1>1, SourceStep DEF Writing, Send, Select, others
<1>2. ASSUME NEW s \in Pumped, Pumping(s), UNCHANGED childVars PROVE IInv'
  BY <1>2, SourceStep DEF Pumping, PumpRecv, PumpSend, PumpSelect, PumpClose, rest
<1>3. ASSUME NEW c \in Child, FillChunk(c) PROVE IInv'
  <2>1. PICK s \in Source : Receive(s) \/ (Ends(s) /\ named)
    BY <1>3 DEF FillChunk
  <2>2. PICK e : /\ delivered' = Append(delivered, e) /\ e \notin {EOF, Zero}
                 /\ nonClosed' \subseteq nonClosed /\ reader' = "idle"
    BY <2>1 DEF Receive, Ends, EOF, Zero
  <2>3. Last(delivered') = e
    BY <2>2, AppendIs DEF IInv, Elements, Last
  <2> QED BY <1>3, <2>2, <2>3, FillStep DEF FillChunk
<1>4. ASSUME NEW c \in Child, FillEOF(c) PROVE IInv'
  BY <1>4, FillStep DEF FillEOF, EndOfAll
<1>5. ASSUME NEW c \in Child,
             Consume(c) \/ Once(c) \/ SelectAgain(c) \/ Panic(c) \/ Read(c) \/ CloseChild(c)
      PROVE  IInv'
  BY <1>5, ConsumeStep, OnceStep, SelectAgainStep, PanicStep, ReadStep, CloseStep
<1>6. CASE UNCHANGED vars
  BY <1>6, SourceStep DEF vars, mergeVars
<1> QED BY <1>1, <1>2, <1>3, <1>4, <1>5, <1>6 DEF Next, Filling

\* The invariant says what the property does.
LEMMA InvAgrees == IInv => CopiesAgree
<1> SUFFICES ASSUME IInv PROVE CopiesAgree
  OBVIOUS
<1>1. DOMAIN list = 1 .. Len(list) /\ Len(list) \in Nat
  BY LenProperties DEF IInv, Elements, IsSeq
<1>2. ASSUME NEW c \in Child PROVE IsPrefix(got[c], list)
  <2>1. /\ Len(got[c]) \in Nat /\ Len(got[c]) <= Len(list)
        /\ \A i \in 1 .. Len(got[c]) : got[c][i] = list[i] /\ list[i] \in Range(list)
    BY <1>1, AppendIs DEF IInv, Place, Range
  <2>2. /\ SubSeq(got[c], 1, Len(got[c])) \in Seq(Range(list))
        /\ SubSeq(list, 1, Len(got[c])) \in Seq(Range(list))
        /\ Len(SubSeq(got[c], 1, Len(got[c]))) = Len(got[c])
        /\ Len(SubSeq(list, 1, Len(got[c]))) = Len(got[c])
        /\ \A i \in 1 .. Len(got[c]) : /\ SubSeq(got[c], 1, Len(got[c]))[i] = got[c][i]
                                       /\ SubSeq(list, 1, Len(got[c]))[i] = list[i]
    BY <2>1, SubSeqProperties
  <2>3. SubSeq(got[c], 1, Len(got[c])) = SubSeq(list, 1, Len(got[c]))
    BY <2>1, <2>2, SeqEqual
  <2> QED BY <2>1, <2>3 DEF IsPrefix
<1>3. ChildrenAgree
  BY <1>1, <1>2 DEF ChildrenAgree, IInv, Elements
<1>4. NilMeansClosed
  BY <1>1 DEF NilMeansClosed, CutOff, Range, IInv, Place
<1>5. NotClosedEarly
  <2>1. Closed \subseteq Child /\ IsFiniteSet(Child)
    BY CopyAssumption DEF Closed
  <2>2. /\ Cardinality(Closed) \in Nat /\ Cardinality(Child) \in Nat
        /\ Cardinality(Closed) <= Cardinality(Child)
        /\ Cardinality(Closed) = Cardinality(Child) => Closed = Child
    BY <2>1, FS_Subset, FS_CardinalityType
  <2>3. reader = "closed" => Closed = Child
    BY <2>2 DEF IInv, Counted
  <2> QED BY <2>3 DEF NotClosedEarly, IInv, Counted, Closed
<1> QED BY <1>3, <1>4, <1>5 DEF CopiesAgree

\* Every child of a copy sees the same list, that list is what the merged
\* reader returned, no child is cut off by another, and the reader is closed
\* once, when nobody can read it, whatever the children, sources, capacities
\* and however the goroutines interleave.
THEOREM CopiesCorrect == Spec => []CopiesAgree
<1>1. Init /\ [][Next]_vars => []IInv
  BY InitInv, NextInv, PTL
<1> QED BY <1>1, InvAgrees, PTL DEF Spec

-----------------------------------------------------------------------------
(* The merge. *)

AnyItem == [n : Nat, kind : {"keep", "drop", "panic", "error", "eof"}]
AnyStream == [items : Seq(AnyItem), ended : BOOLEAN, closed : BOOLEAN]

MergeTypes ==
  /\ raw \in [Source -> AnyStream]
  /\ merged \in [Pumped -> AnyStream]
  /\ writer \in [Source -> {"idle", "select", "done"}]
  /\ sent \in [Source -> Seq(AnyItem)]
  /\ pump \in [Pumped -> {"recv", "send", "report", "select", "lastselect", "close", "done"}]
  /\ holding \in [Pumped -> AnyItem]
  /\ nonClosed \subseteq Source
  /\ delivered \in Seq(Source \X AnyItem)

\* Items that left the stream of the writer.
Taken(s) == Len(sent[s]) - Len(raw[s].items)

\* A writer numbers its items, and they stay in their order.
Written(s) ==
  /\ \A k \in 1 .. Len(sent[s]) :
       /\ sent[s][k].n = k /\ sent[s][k].kind \in {"keep", "drop", "panic"}
       /\ s \notin Pumped => sent[s][k].kind = "keep"
  /\ Len(raw[s].items) <= Len(sent[s])
  /\ \A j \in 1 .. Len(raw[s].items) : raw[s].items[j] = sent[s][Taken(s) + j]
  /\ raw[s].ended => writer[s] = "done"
  /\ s \in Pumped =>
       /\ merged[s].ended => pump[s] = "done"
       /\ merged[s].closed => reader = "closed"

\* Item k has been delivered or is among the first n of the stream.
Passed(s, k, n) ==
  \/ Came(s, k, Len(delivered))
  \/ \E j \in 1 .. n : stream(s).items[j] = Converted(s, k)

AllPassed(s) == \A k \in Due(s) : Passed(s, k, Len(stream(s).items))

\* No more items of this source come out.
NoMore(s) ==
  raw[s].ended \/ (s \in Pumped /\ \E k \in 1 .. Len(sent[s]) : sent[s][k].kind = "panic")

\* The stream the reader selects from has the items that are due next.
Queued(s) ==
  \A i \in 1 .. Len(stream(s).items) :
    \E k \in Due(s) : /\ stream(s).items[i] = Converted(s, k)
                      /\ \A l \in Due(s) : l < k <=> Passed(s, l, i - 1)

\* How far the goroutine of toStream is.
PumpAt(s) ==
  /\ pump[s] = "recv" =>
       /\ \A k \in 1 .. Taken(s) : sent[s][k].kind # "panic"
       /\ \A k \in Due(s) : k <= Taken(s) <=> Passed(s, k, Len(stream(s).items))
  /\ pump[s] \in {"send", "select", "report", "lastselect"} =>
       /\ Taken(s) \in Due(s) /\ holding[s] = Converted(s, Taken(s))
       /\ pump[s] \in {"send", "select"} => sent[s][Taken(s)].kind = "keep"
       /\ pump[s] \in {"report", "lastselect"} => sent[s][Taken(s)].kind = "panic"
       /\ \A k \in Due(s) : k < Taken(s) <=> Passed(s, k, Len(stream(s).items))
  /\ pump[s] \in {"close", "done"} => merged[s].closed \/ (AllPassed(s) /\ NoMore(s))

Flows(s) ==
  /\ Written(s)
  /\ Queued(s)
  /\ s \in Pumped => PumpAt(s)
  /\ s \notin Pumped => AllPassed(s)
  /\ s \notin nonClosed => NoMore(s)

MergeInv == MergeTypes /\ MergedWhole /\ \A s \in Source : Flows(s)

\* What the steps of StreamCopy do to the merge.
MergeNext ==
  \/ \E s \in Source : Writing(s)
  \/ \E s \in Pumped : Pumping(s)
  \/ \E s \in Source : Receive(s) \/ Ends(s)
  \/ Recv \/ EndOfAll \/ Close
  \/ UNCHANGED mergeVars

\* A step of the copy is a step of the merge, or leaves it alone.
LEMMA StepsOfMerge == [Next]_vars => MergeNext
<1> SUFFICES ASSUME [Next]_vars PROVE MergeNext
  OBVIOUS
<1>1. CASE \E s \in Source : Writing(s) /\ UNCHANGED childVars
  BY <1>1 DEF MergeNext
<1>2. CASE \E s \in Pumped : Pumping(s) /\ UNCHANGED childVars
  BY <1>2 DEF MergeNext
<1>3. ASSUME NEW c \in Child, Consume(c) \/ Read(c)
      PROVE  MergeNext
  BY <1>3 DEF MergeNext, Consume, Peek, Read
<1>4. ASSUME NEW c \in Child, Once(c) \/ Filling(c) \/ Panic(c)
      PROVE  MergeNext
  BY <1>4 DEF MergeNext, Once, Filling, FillChunk, FillEOF, SelectAgain, Panic
<1>5. ASSUME NEW c \in Child, CloseChild(c)
      PROVE  MergeNext
  <2>1. Close \/ UNCHANGED mergeVars
    BY <1>5 DEF CloseChild
  <2> QED BY <2>1 DEF MergeNext
<1>6. CASE UNCHANGED vars
  BY <1>6 DEF MergeNext, vars
<1> QED BY <1>1, <1>2, <1>3, <1>4, <1>5, <1>6 DEF Next

\* What the operations on a stream do to its parts.
LEMMA StreamParts ==
  ASSUME NEW q \in AnyStream, NEW i \in AnyItem
  PROVE  /\ Sent(q, i) \in AnyStream
         /\ Sent(q, i).items = Append(q.items, i)
         /\ Sent(q, i).ended = q.ended /\ Sent(q, i).closed = q.closed
         /\ closeSend(q) \in AnyStream /\ closeRecv(q) \in AnyStream
         /\ closeSend(q).items = q.items /\ closeRecv(q).items = q.items
         /\ closeSend(q).ended /\ closeSend(q).closed = q.closed
         /\ closeRecv(q).closed /\ closeRecv(q).ended = q.ended
         /\ HasItem(q) => /\ Received(q) \in AnyStream
                          /\ Received(q).items = Tail(q.items)
                          /\ Received(q).ended = q.ended
                          /\ Received(q).closed = q.closed
<1>1. PICK a \in Seq(AnyItem), e \in BOOLEAN, c \in BOOLEAN :
        q = [items |-> a, ended |-> e, closed |-> c]
  BY DEF AnyStream
<1>2. Sent(q, i) = [items |-> Append(a, i), ended |-> e, closed |-> c]
  BY <1>1 DEF Sent
<1>3. closeSend(q) = [items |-> a, ended |-> TRUE, closed |-> c]
  <2>1. closeSend(q) = [[items |-> a, ended |-> e, closed |-> c] EXCEPT !.ended = TRUE]
    BY <1>1 DEF closeSend
  <2> QED BY <2>1
<1>4. closeRecv(q) = [items |-> a, ended |-> e, closed |-> TRUE]
  <2>1. closeRecv(q) = [[items |-> a, ended |-> e, closed |-> c] EXCEPT !.closed = TRUE]
    BY <1>1 DEF closeRecv
  <2> QED BY <2>1
<1>5. Received(q) = [items |-> Tail(a), ended |-> e, closed |-> c]
  <2>1. Received(q) = [[items |-> a, ended |-> e, closed |-> c] EXCEPT !.items = Tail(a)]
    BY <1>1 DEF Received
  <2> QED BY <2>1
<1>6. Append(a, i) \in Seq(AnyItem)
  OBVIOUS
<1>7. a # <<>> => Tail(a) \in Seq(AnyItem)
  OBVIOUS
<1>8. HasItem(q) <=> a # <<>>
  BY <1>1 DEF HasItem
<1>9. /\ Sent(q, i) \in AnyStream /\ closeSend(q) \in AnyStream /\ closeRecv(q) \in AnyStream
      /\ HasItem(q) => Received(q) \in AnyStream
  BY <1>2, <1>3, <1>4, <1>5, <1>6, <1>7, <1>8 DEF AnyStream
<1>10. /\ Sent(q, i).items = Append(q.items, i)
       /\ Sent(q, i).ended = q.ended /\ Sent(q, i).closed = q.closed
  BY <1>1, <1>2
<1>11. /\ closeSend(q).items = q.items
       /\ closeSend(q).ended /\ closeSend(q).closed = q.closed
  BY <1>1, <1>3
<1>12. /\ closeRecv(q).items = q.items
       /\ closeRecv(q).closed /\ closeRecv(q).ended = q.ended
  BY <1>1, <1>4
<1>13. /\ Received(q).items = Tail(q.items)
       /\ Received(q).ended = q.ended /\ Received(q).closed = q.closed
  BY <1>1, <1>5
<1> QED BY <1>9, <1>10, <1>11, <1>12, <1>13

\* What a pump receives is an item of the writer, the next that was sent.
LEMMA HeadKind ==
  ASSUME MergeTypes, NEW s \in Source, Written(s), HasItem(raw[s])
  PROVE  /\ Taken(s) + 1 \in 1 .. Len(sent[s])
         /\ Head(raw[s].items) = sent[s][Taken(s) + 1]
         /\ Head(raw[s].items).kind \in {"keep", "drop", "panic"}
<1>1. raw[s].items \in Seq(AnyItem) /\ sent[s] \in Seq(AnyItem)
  BY DEF MergeTypes, AnyStream
<1>2. raw[s].items # <<>>
  BY DEF HasItem
<1>3. Len(raw[s].items) \in Nat \ {0} /\ Len(sent[s]) \in Nat
      /\ Head(raw[s].items) = raw[s].items[1]
  BY <1>1, <1>2
<1>4. Taken(s) + 1 \in 1 .. Len(sent[s])
  <2>1. Len(raw[s].items) <= Len(sent[s])
    BY DEF Written
  <2>2. \A a, b \in Nat : a <= b /\ a # 0 => (b - a) + 1 \in 1 .. b
    OBVIOUS
  <2> QED BY <1>3, <2>1, <2>2 DEF Taken
<1>5. raw[s].items[1] = sent[s][Taken(s) + 1]
  BY <1>3 DEF Written
<1> QED BY <1>3, <1>4, <1>5 DEF Written

\* The variables of the merge keep their types.
LEMMA MergeTypesNext ==
  MergeTypes /\ (\A s \in Source : Written(s)) /\ MergeNext => MergeTypes'
<1> SUFFICES ASSUME MergeTypes, \A s \in Source : Written(s), MergeNext PROVE MergeTypes'
  OBVIOUS
<1> USE MergeAssumption
<1>0. Failure \in AnyItem /\ SourceEOF \in AnyItem
  BY DEF Failure, SourceEOF, AnyItem
<1>1. ASSUME NEW s \in Source, Send(s) PROVE MergeTypes'
  <2>1. closeSend(raw[s]) \in AnyStream
    BY <1>0, StreamParts DEF MergeTypes
  <2>2. raw' \in [Source -> AnyStream]
    BY ZenonT(60), <1>1, <2>1 DEF Send, MergeTypes
  <2>3. writer' \in [Source -> {"idle", "select", "done"}]
    BY <1>1 DEF Send, MergeTypes
  <2> QED BY <1>1, <2>2, <2>3 DEF Send, others, MergeTypes
<1>2. ASSUME NEW s \in Source, Select(s) PROVE MergeTypes'
  <2>1. closeSend(raw[s]) \in AnyStream /\ \A i \in AnyItem : Sent(raw[s], i) \in AnyStream
    BY <1>0, StreamParts DEF MergeTypes
  <2>2. sent[s] \in Seq(AnyItem) /\ Len(sent[s]) + 1 \in Nat
    BY DEF MergeTypes
  <2>3. \A k \in {"keep", "drop", "panic"} : [n |-> Len(sent[s]) + 1, kind |-> k] \in AnyItem
    BY <2>2 DEF AnyItem
  <2>4. \A i \in AnyItem : Append(sent[s], i) \in Seq(AnyItem)
    BY <2>2
  <2>5. CASE /\ raw' = [raw EXCEPT ![s] = closeSend(@)]
             /\ writer' = [writer EXCEPT ![s] = "done"]
             /\ UNCHANGED sent
    BY <1>2, <2>1, <2>5 DEF Select, others, MergeTypes
  <2>6. ASSUME NEW k \in {"keep", "drop", "panic"},
               raw' = [raw EXCEPT ![s] = Sent(@, [n |-> Len(sent[s]) + 1, kind |-> k])],
               sent' = [sent EXCEPT ![s] = Append(@, [n |-> Len(sent[s]) + 1, kind |-> k])],
               writer' = [writer EXCEPT ![s] = "idle"]
        PROVE  MergeTypes'
    BY <1>2, <2>1, <2>3, <2>4, <2>6 DEF Select, others, MergeTypes
  <2> QED BY <1>2, <2>5, <2>6 DEF Select
<1>3. ASSUME NEW s \in Pumped, PumpRecv(s) PROVE MergeTypes'
  <2>0. raw[s] \in AnyStream
    BY DEF MergeTypes
  <2>1. HasItem(raw[s]) => Received(raw[s]) \in AnyStream /\ Head(raw[s].items) \in AnyItem
    <3>1. HasItem(raw[s]) => Received(raw[s]) \in AnyStream
      BY <1>0, <2>0, StreamParts
    <3>2. HasItem(raw[s]) => Head(raw[s].items) \in AnyItem
      BY <2>0 DEF AnyStream, HasItem
    <3> QED BY <3>1, <3>2
  <2>2. CASE HasItem(raw[s]) /\ raw' = [raw EXCEPT ![s] = Received(@)]
    <3>1. holding' \in [Pumped -> AnyItem]
      BY <1>3, <2>1, <2>2, <1>0 DEF PumpRecv, MergeTypes, HasItem, AtEnd
    <3>2. pump' \in [Pumped -> {"recv", "send", "report", "select", "lastselect", "close", "done"}]
      <4> DEFINE P == {"recv", "send", "report", "select", "lastselect", "close", "done"}
      <4>1. PICK p \in P : pump' = [pump EXCEPT ![s] = p]
        BY <1>3, <2>2, HeadKind DEF PumpRecv, HasItem, AtEnd
      <4> QED BY <4>1 DEF MergeTypes
    <3> QED BY <1>3, <2>1, <2>2, <3>1, <3>2 DEF PumpRecv, MergeTypes, rest
  <2> QED BY <1>3, <2>2 DEF PumpRecv, MergeTypes, rest
<1>4. ASSUME NEW s \in Pumped, PumpSend(s) PROVE MergeTypes'
  BY <1>4 DEF PumpSend, MergeTypes, rest
<1>5. ASSUME NEW s \in Pumped, PumpSelect(s) PROVE MergeTypes'
  <2>1. Sent(merged[s], holding[s]) \in AnyStream
    BY StreamParts DEF MergeTypes
  <2> QED BY ZenonT(60), <1>0, <1>5, <2>1 DEF PumpSelect, MergeTypes, rest
<1>6. ASSUME NEW s \in Pumped, PumpClose(s) PROVE MergeTypes'
  <2>1. closeSend(merged[s]) \in AnyStream /\ closeRecv(raw[s]) \in AnyStream
    BY <1>0, StreamParts DEF MergeTypes
  <2> QED BY <1>6, <2>1 DEF PumpClose, MergeTypes, rest
<1>7. ASSUME NEW s \in Source, Receive(s) PROVE MergeTypes'
  <2>1. stream(s) \in AnyStream /\ HasItem(stream(s))
    BY <1>7 DEF MergeTypes, stream, Receive
  <2>2. Received(stream(s)) \in AnyStream /\ Head(stream(s).items) \in AnyItem
    BY SMTT(30), <1>0, <2>1, StreamParts DEF AnyStream, HasItem
  <2>3. delivered' \in Seq(Source \X AnyItem)
    BY <1>7, <2>2 DEF Receive, MergeTypes
  <2>4. raw' \in [Source -> AnyStream] /\ merged' \in [Pumped -> AnyStream]
    BY <1>7, <2>2 DEF Receive, Takes, stream, MergeTypes
  <2> QED BY <1>7, <2>3, <2>4 DEF Receive, MergeTypes, threads
<1>8. ASSUME NEW s \in Source, Ends(s) PROVE MergeTypes'
  <2>1. delivered' \in Seq(Source \X AnyItem)
    <3>1. <<s, SourceEOF>> \in Source \X AnyItem
      BY <1>0
    <3>2. Append(delivered, <<s, SourceEOF>>) \in Seq(Source \X AnyItem)
      BY <3>1 DEF MergeTypes
    <3> QED BY <1>8, <3>2 DEF Ends, MergeTypes
  <2> QED BY <1>8, <2>1 DEF Ends, MergeTypes, threads
<1>9. CASE Close
  <2>1. \A q \in AnyStream : closeRecv(q) \in AnyStream
    BY <1>0, StreamParts
  <2> QED BY <1>9, <2>1 DEF Close, MergeTypes, threads
<1>10. CASE Recv \/ EndOfAll \/ UNCHANGED mergeVars
  BY <1>10 DEF Recv, EndOfAll, mergeVars, threads, MergeTypes
<1> QED
  BY <1>1, <1>2, <1>3, <1>4, <1>5, <1>6, <1>7, <1>8, <1>9, <1>10
  DEF MergeNext, Writing, Pumping

\* The items that are due come out as items, none of them an end.
LEMMA ComesOut ==
  ASSUME MergeTypes, NEW s \in Source, NEW k \in Due(s), Written(s)
  PROVE  /\ k \in 1 .. Len(sent[s])
         /\ Converted(s, k) \in AnyItem
         /\ Converted(s, k) # SourceEOF
<1>1. sent[s] \in Seq(AnyItem)
  BY DEF MergeTypes
<1>2. k \in 1 .. Len(sent[s])
  BY <1>1 DEF Due
<1>3. sent[s][k] \in AnyItem /\ sent[s][k].kind # "eof"
  BY <1>1, <1>2 DEF Written
<1>4. Failure \in AnyItem /\ Failure.kind # "eof" /\ SourceEOF.kind = "eof"
  BY DEF Failure, SourceEOF, AnyItem
<1> QED BY <1>2, <1>3, <1>4 DEF Converted

\* Two of them are never the same: a writer numbers its items, and one panic
\* at most is due.
LEMMA Distinct ==
  ASSUME MergeTypes, NEW s \in Source, NEW k \in Due(s), NEW l \in Due(s), Written(s),
         Converted(s, k) = Converted(s, l)
  PROVE  k = l
<1>1. k \in 1 .. Len(sent[s]) /\ l \in 1 .. Len(sent[s])
  BY ComesOut
<1>2. sent[s][k].n = k /\ sent[s][l].n = l /\ Failure.n = 0
  BY <1>1 DEF Written, Failure
<1>3. (sent[s][k].kind = "panic") <=> (sent[s][l].kind = "panic")
  BY <1>1, <1>2 DEF Converted
<1>4. CASE sent[s][k].kind # "panic"
  BY <1>2, <1>3, <1>4 DEF Converted
<1>5. CASE sent[s][k].kind = "panic"
  <2>1. s \in Pumped
    BY <1>1, <1>5 DEF Written
  <2>2. ~(k < l) /\ ~(l < k)
    BY <1>1, <1>3, <1>5, <2>1 DEF Due
  <2> QED BY <1>1, <2>2
<1> QED BY <1>4, <1>5

\* A step that leaves what source t sent and what the reader selects from as
\* they are, and gives nobody an item of t.
Framed(t) ==
  /\ sent'[t] = sent[t]
  /\ stream(t)'.items = stream(t).items
  /\ raw[t].ended => raw'[t].ended
  /\ \A x \in AnyItem \ {SourceEOF} :
       (\E j \in 1 .. Len(delivered') : delivered'[j] = <<t, x>>)
         <=> (\E j \in 1 .. Len(delivered) : delivered[j] = <<t, x>>)

\* What is due, where it is and how it comes out stay the same.
LEMMA FrameFacts ==
  ASSUME MergeTypes, NEW t \in Source, Written(t), Framed(t)
  PROVE  /\ Due(t)' = Due(t)
         /\ NoMore(t) => NoMore(t)'
         /\ \A k \in Due(t) : Converted(t, k)' = Converted(t, k)
         /\ \A n : \A k \in Due(t) : Passed(t, k, n)' <=> Passed(t, k, n)
         /\ AllPassed(t)' <=> AllPassed(t)
<1>1. Due(t)' = Due(t)
  BY DEF Due, Framed
<1>2. NoMore(t) => NoMore(t)'
  BY DEF NoMore, Framed
<1>3. \A k \in Due(t) : Converted(t, k)' = Converted(t, k)
  BY DEF Converted, Framed
<1>4. \A k \in Due(t) : Came(t, k, Len(delivered))' <=> Came(t, k, Len(delivered))
  <2> SUFFICES ASSUME NEW k \in Due(t)
               PROVE  Came(t, k, Len(delivered))' <=> Came(t, k, Len(delivered))
    OBVIOUS
  <2>1. Converted(t, k) \in AnyItem \ {SourceEOF} /\ Converted(t, k)' = Converted(t, k)
    BY <1>3, ComesOut
  <2> QED BY <2>1 DEF Came, Framed
<1>5. \A n : \A k \in Due(t) : Passed(t, k, n)' <=> Passed(t, k, n)
  BY <1>3, <1>4 DEF Passed, Framed
<1>6. AllPassed(t)' <=> AllPassed(t)
  BY <1>1, <1>5 DEF AllPassed, Framed
<1> QED BY <1>1, <1>2, <1>3, <1>5, <1>6

\* Then all that is known of the source is still so, if its pump is where it
\* should be.
LEMMA FrameFlows ==
  ASSUME MergeTypes, NEW t \in Source, Flows(t), Framed(t),
         Written(t)',
         t \in Pumped => PumpAt(t)',
         t \notin nonClosed' => NoMore(t)
  PROVE  Flows(t)'
<1>1. Written(t)
  BY DEF Flows
<1>2. Queued(t)'
  BY <1>1, FrameFacts DEF Queued, Flows, Framed
<1>3. t \notin Pumped => AllPassed(t)'
  BY <1>1, FrameFacts DEF Flows
<1>4. t \notin nonClosed' => NoMore(t)'
  BY <1>1, FrameFacts
<1> QED BY <1>2, <1>3, <1>4 DEF Flows

\* A source a step does not touch.
Untouched(t) ==
  /\ Framed(t)
  /\ raw'[t].items = raw[t].items
  /\ raw'[t].ended => raw[t].ended \/ writer'[t] = "done"
  /\ writer[t] = "done" => writer'[t] = "done"
  /\ t \in nonClosed => t \in nonClosed'
  /\ t \in Pumped =>
       /\ pump'[t] = pump[t]
       /\ holding'[t] = holding[t]
       /\ merged'[t].ended = merged[t].ended
       /\ merged[t].closed => merged'[t].closed
       /\ merged'[t].closed => merged[t].closed \/ reader' = "closed"
       /\ reader = "closed" => reader' = "closed"

\* What was written stays what it is.
LEMMA UntouchedWritten ==
  ASSUME MergeTypes, NEW t \in Source, Written(t), Untouched(t)
  PROVE  Written(t)' /\ Taken(t)' = Taken(t)
<1>1. Taken(t)' = Taken(t)
  BY DEF Taken, Untouched, Framed
<1> QED BY <1>1 DEF Written, Untouched, Framed

\* Untouched, a source is in order still.
LEMMA UntouchedFlows ==
  ASSUME MergeTypes, NEW t \in Source, Flows(t), Untouched(t)
  PROVE  Flows(t)'
<1>1. Written(t) /\ Framed(t)
  BY DEF Flows, Untouched
<1>2. Written(t)' /\ Taken(t)' = Taken(t)
  BY <1>1, UntouchedWritten
<1>3. ASSUME t \in Pumped PROVE PumpAt(t)'
  <2>1. PumpAt(t)
    BY <1>3 DEF Flows
  <2>2. pump'[t] = pump[t] /\ holding'[t] = holding[t] /\ sent'[t] = sent[t]
        /\ (merged[t].closed => merged'[t].closed)
        /\ stream(t)'.items = stream(t).items
    BY <1>3 DEF Untouched, Framed
  <2> QED BY <1>1, <1>2, <2>1, <2>2, FrameFacts DEF PumpAt
<1>4. t \notin nonClosed' => NoMore(t)
  BY DEF Flows, Untouched
<1> QED BY <1>1, <1>2, <1>3, <1>4, FrameFlows

\* An item of another source, an end, or nothing adds nothing to what came of a
\* source.
LEMMA NoneOf ==
  ASSUME MergeTypes, NEW t \in Source, NEW s \in Source, NEW y,
         \/ delivered' = delivered
         \/ (s # t \/ y = SourceEOF) /\ delivered' = Append(delivered, <<s, y>>)
  PROVE  \A x \in AnyItem \ {SourceEOF} :
           (\E j \in 1 .. Len(delivered') : delivered'[j] = <<t, x>>)
             <=> (\E j \in 1 .. Len(delivered) : delivered[j] = <<t, x>>)
<1>1. CASE delivered' = delivered
  BY <1>1
<1>2. CASE (s # t \/ y = SourceEOF) /\ delivered' = Append(delivered, <<s, y>>)
  <2>1. delivered \in Seq(Source \X AnyItem) /\ Len(delivered) \in Nat
    BY DEF MergeTypes
  <2>2. Len(delivered') = Len(delivered) + 1
    BY <1>2, <2>1
  <2>3. \A j \in 1 .. Len(delivered) : delivered'[j] = delivered[j]
    BY <1>2, <2>1
  <2>4. delivered'[Len(delivered) + 1] = <<s, y>>
    BY <1>2, <2>1
  <2>5. \A x \in AnyItem \ {SourceEOF} : <<s, y>> # <<t, x>>
    BY <1>2
  <2>6. 1 .. Len(delivered') = (1 .. Len(delivered)) \union {Len(delivered) + 1}
    BY <2>1, <2>2
  <2> QED BY <2>3, <2>4, <2>5, <2>6
<1> QED BY <1>1, <1>2

\* A step of one source leaves the others alone.
LEMMA OthersUntouched ==
  ASSUME MergeTypes, NEW s \in Source, NEW t \in Source \ {s},
         \/ Writing(s)
         \/ s \in Pumped /\ Pumping(s)
         \/ Receive(s) \/ Ends(s)
  PROVE  Untouched(t)
<1>1. CASE Writing(s)
  <2>1. delivered' = delivered /\ nonClosed' = nonClosed /\ pump' = pump
        /\ holding' = holding /\ merged' = merged /\ reader' = reader
    BY <1>1 DEF Writing, Send, Select, others
  <2>2. raw'[t] = raw[t] /\ writer'[t] = writer[t] /\ sent'[t] = sent[t]
    BY <1>1 DEF Writing, Send, Select, MergeTypes
  <2>3. stream(t)'.items = stream(t).items
    BY <2>1, <2>2 DEF stream
  <2> QED BY <2>1, <2>2, <2>3, NoneOf DEF Untouched, Framed
<1>2. CASE s \in Pumped /\ Pumping(s)
  <2>1. delivered' = delivered /\ nonClosed' = nonClosed /\ writer' = writer
        /\ sent' = sent /\ reader' = reader
    BY <1>2 DEF Pumping, PumpRecv, PumpSend, PumpSelect, PumpClose, rest
  <2>2. raw'[t] = raw[t] /\ (t \in Pumped => pump'[t] = pump[t] /\ holding'[t] = holding[t]
                                             /\ merged'[t] = merged[t])
    BY <1>2 DEF Pumping, PumpRecv, PumpSend, PumpSelect, PumpClose, MergeTypes
  <2>3. stream(t)'.items = stream(t).items
    BY <2>1, <2>2 DEF stream
  <2> QED BY <2>1, <2>2, <2>3, NoneOf DEF Untouched, Framed
<1>3. CASE Receive(s) \/ Ends(s)
  <2>1. writer' = writer /\ sent' = sent /\ pump' = pump /\ holding' = holding
        /\ (t \in nonClosed => t \in nonClosed')
        /\ (reader = "closed" => reader' = "closed")
    BY <1>3 DEF Receive, Ends, threads
  <2>2. raw'[t] = raw[t] /\ (t \in Pumped => merged'[t] = merged[t])
    BY <1>3 DEF Receive, Ends, Takes, MergeTypes
  <2>3. stream(t)'.items = stream(t).items
    BY <2>1, <2>2 DEF stream
  <2>4. delivered' = delivered \/ \E y : delivered' = Append(delivered, <<s, y>>)
    BY <1>3 DEF Receive, Ends
  <2> QED BY <2>1, <2>2, <2>3, <2>4, NoneOf DEF Untouched, Framed
<1> QED BY <1>1, <1>2, <1>3

\* The reader's own steps leave every source alone.
LEMMA AllUntouched ==
  ASSUME MergeTypes, NEW t \in Source, Recv \/ EndOfAll \/ Close \/ UNCHANGED mergeVars
  PROVE  Untouched(t)
<1>1. /\ delivered' = delivered /\ nonClosed' = nonClosed /\ writer' = writer
      /\ sent' = sent /\ pump' = pump /\ holding' = holding
      /\ (reader = "closed" => reader' = "closed")
  BY DEF Recv, EndOfAll, Close, mergeVars, threads
<1>2. CASE Recv \/ EndOfAll \/ UNCHANGED mergeVars
  <2>1. raw' = raw /\ merged' = merged
    BY <1>2 DEF Recv, EndOfAll, mergeVars
  <2> QED BY <1>1, <2>1, NoneOf DEF Untouched, Framed, stream
<1>3. CASE Close
  <2>1. Failure \in AnyItem
    BY DEF Failure, AnyItem
  <2>2. \A q \in AnyStream : /\ closeRecv(q).items = q.items
                             /\ closeRecv(q).ended = q.ended /\ closeRecv(q).closed
    BY <2>1, StreamParts
  <2>3. t \in Pumped => raw'[t] = raw[t] /\ merged'[t] = closeRecv(merged[t])
    BY <1>3 DEF Close
  <2>4. t \notin Pumped => raw'[t] = closeRecv(raw[t])
    BY <1>3 DEF Close
  <2>5. raw[t] \in AnyStream /\ (t \in Pumped => merged[t] \in AnyStream) /\ reader' = "closed"
    BY <1>3 DEF MergeTypes, Close
  <2>6. stream(t)'.items = stream(t).items /\ raw'[t].items = raw[t].items
        /\ raw'[t].ended = raw[t].ended
        /\ (t \in Pumped => merged'[t].ended = merged[t].ended /\ merged'[t].closed)
    BY <2>2, <2>3, <2>4, <2>5 DEF stream
  <2> QED BY <1>1, <2>5, <2>6, NoneOf DEF Untouched, Framed
<1> QED BY <1>2, <1>3

\* What was delivered before stays, whatever a step adds to it.
LEMMA CameKept ==
  ASSUME MergeTypes, NEW s \in Source, NEW y,
         delivered' = delivered \/ delivered' = Append(delivered, <<s, y>>)
  PROVE  /\ Len(delivered) \in Nat
         /\ \/ delivered' = delivered
            \/ /\ Len(delivered') = Len(delivered) + 1
               /\ delivered'[Len(delivered) + 1] = <<s, y>>
         /\ \A j \in 1 .. Len(delivered) : delivered'[j] = delivered[j]
<1>1. delivered \in Seq(Source \X AnyItem) /\ Len(delivered) \in Nat
  BY DEF MergeTypes
<1>2. CASE delivered' = delivered
  BY <1>1, <1>2
<1>3. CASE delivered' = Append(delivered, <<s, y>>)
  BY <1>1, <1>3
<1> QED BY <1>2, <1>3

\* The writer of s puts item i, the mth, into its stream.
Adds(s, m, i) ==
  /\ writer[s] = "select" /\ writer' = [writer EXCEPT ![s] = "idle"]
  /\ m = Len(sent[s]) + 1
  /\ i.n = m /\ i.kind \in {"keep", "drop", "panic"}
  /\ s \notin Pumped => i.kind = "keep"
  /\ raw' = [raw EXCEPT ![s] = Sent(@, i)]
  /\ sent' = [sent EXCEPT ![s] = Append(@, i)]
  /\ UNCHANGED others

\* A writer puts its next item into its stream, or changes nothing that
\* matters to who reads it.
LEMMA WritingCases ==
  ASSUME MergeTypes, NEW s \in Source, Writing(s)
  PROVE  Untouched(s) \/ \E m \in Nat, i \in AnyItem : Adds(s, m, i)
<1> USE MergeAssumption
<1>1. raw[s] \in AnyStream /\ sent[s] \in Seq(AnyItem) /\ Len(sent[s]) + 1 \in Nat
  BY DEF MergeTypes
<1>2. closeSend(raw[s]).items = raw[s].items /\ closeSend(raw[s]).ended
  <2>1. Failure \in AnyItem
    BY DEF Failure, AnyItem
  <2> QED BY <1>1, <2>1, StreamParts
<1>3. CASE \/ raw' = raw /\ writer'[s] # "done" /\ writer[s] # "done"
           \/ raw' = [raw EXCEPT ![s] = closeSend(@)] /\ writer' = [writer EXCEPT ![s] = "done"]
  <2>1. CASE sent' = sent /\ UNCHANGED others
    <3>1. raw'[s].items = raw[s].items /\ (raw[s].ended => raw'[s].ended)
          /\ (raw'[s].ended => raw[s].ended \/ writer'[s] = "done")
          /\ (writer[s] = "done" => writer'[s] = "done")
      BY <1>2, <1>3 DEF MergeTypes
    <3>2. stream(s)'.items = stream(s).items
      BY <2>1, <3>1 DEF others, stream
    <3> QED BY <2>1, <3>1, <3>2, NoneOf DEF Untouched, Framed, others
  <2>2. CASE Send(s)
    BY <2>1, <2>2 DEF Send
  <2>3. CASE Select(s)
    <3>1. CASE sent' = sent
      BY <2>1, <2>3, <3>1 DEF Select
    <3>2. CASE sent' # sent
      <4>1. writer' = [writer EXCEPT ![s] = "idle"] /\ writer[s] = "select"
            /\ \E k \in {"keep", "drop", "panic"} :
                 raw' = [raw EXCEPT ![s] = Sent(@, [n |-> Len(sent[s]) + 1, kind |-> k])]
        BY <2>3, <3>2 DEF Select
      <4>2. \A k \in {"keep", "drop", "panic"} : [n |-> Len(sent[s]) + 1, kind |-> k] \in AnyItem
        BY <1>1 DEF AnyItem
      <4>3. \A k \in AnyItem : Sent(raw[s], k).items = Append(raw[s].items, k)
        BY <1>1, StreamParts
      <4>4. \A k \in AnyItem : Append(raw[s].items, k) # raw[s].items
        BY <1>1 DEF AnyStream
      <4>5. raw' # raw
        <5>1. PICK x \in AnyItem : raw' = [raw EXCEPT ![s] = Sent(@, x)]
          BY <4>1, <4>2
        <5>2. raw'[s] = Sent(raw[s], x)
          BY <5>1 DEF MergeTypes
        <5> QED BY <4>3, <4>4, <5>2
      <4>6. writer'[s] = "idle"
        BY <4>1 DEF MergeTypes
      <4> QED BY <1>3, <4>5, <4>6 DEF MergeTypes
    <3> QED BY <3>1, <3>2
  <2> QED BY <2>2, <2>3 DEF Writing
<1>4. CASE ~ \/ raw' = raw /\ writer'[s] # "done" /\ writer[s] # "done"
             \/ raw' = [raw EXCEPT ![s] = closeSend(@)] /\ writer' = [writer EXCEPT ![s] = "done"]
  <2>1. ~Send(s)
    BY <1>4 DEF Send, MergeTypes
  <2>2. PICK k \in IF s \in Pumped THEN Kinds ELSE {"keep"} :
          LET i == [n |-> Len(sent[s]) + 1, kind |-> k]
          IN  /\ raw' = [raw EXCEPT ![s] = Sent(@, i)]
              /\ sent' = [sent EXCEPT ![s] = Append(@, i)]
    BY <1>4, <2>1 DEF Writing, Select
  <2>3. writer[s] = "select" /\ writer' = [writer EXCEPT ![s] = "idle"] /\ UNCHANGED others
    BY <1>4, <2>1 DEF Writing, Select
  <2>4. k \in {"keep", "drop", "panic"} /\ (s \notin Pumped => k = "keep")
    OBVIOUS
  <2>5. PICK i \in AnyItem : i = [n |-> Len(sent[s]) + 1, kind |-> k]
    BY <1>1, <2>4 DEF AnyItem
  <2>6. i.n = Len(sent[s]) + 1 /\ i.kind = k
    BY <2>5
  <2>7. PICK m \in Nat : m = Len(sent[s]) + 1
    BY <1>1
  <2>8. Adds(s, m, i)
    BY <2>2, <2>3, <2>4, <2>5, <2>6, <2>7 DEF Adds
  <2> QED BY <2>8
<1> QED BY <1>3, <1>4

\* The new item is the last, is like none before it, and is not due where
\* nothing more comes.
LEMMA AddsFacts ==
  ASSUME MergeTypes, NEW s \in Source, NEW m \in Nat, NEW i \in AnyItem, Adds(s, m, i),
         Written(s), InOrder
  PROVE  /\ raw'[s].items = Append(raw[s].items, i) /\ raw'[s].ended = raw[s].ended
         /\ Len(sent'[s]) = m /\ sent'[s][m] = i
         /\ \A k \in 1 .. Len(sent[s]) : sent'[s][k] = sent[s][k]
         /\ Due(s) \subseteq Due(s)' /\ Due(s)' \subseteq Due(s) \union {m}
         /\ \A k \in Due(s) : k < m /\ Converted(s, k)' = Converted(s, k)
         /\ NoMore(s) => NoMore(s)' /\ Due(s)' = Due(s)
         /\ s \notin Pumped => m \in Due(s)' /\ Converted(s, m)' = i
         /\ m \in Due(s)' =>
              /\ \A k \in Due(s) : Converted(s, k) # Converted(s, m)'
              /\ \A j \in 1 .. Len(delivered) : delivered[j] # <<s, Converted(s, m)'>>
<1>1. sent[s] \in Seq(AnyItem) /\ Len(sent[s]) \in Nat /\ raw[s] \in AnyStream
      /\ delivered \in Seq(Source \X AnyItem)
  BY SMTT(30) DEF MergeTypes
<1>2. sent'[s] = Append(sent[s], i) /\ raw'[s] = Sent(raw[s], i)
  BY DEF Adds, MergeTypes
<1>3. raw'[s].items = Append(raw[s].items, i) /\ raw'[s].ended = raw[s].ended
  BY SMTT(30), <1>1, <1>2, StreamParts
<1>4. Len(sent'[s]) = m /\ sent'[s][m] = i /\ DOMAIN sent[s] = 1 .. Len(sent[s])
      /\ DOMAIN sent'[s] = 1 .. m
  BY <1>1, <1>2 DEF Adds
<1>5. \A k \in 1 .. Len(sent[s]) : sent'[s][k] = sent[s][k]
  BY <1>1, <1>2
<1>6. m = Len(sent[s]) + 1 /\ 1 .. m = (1 .. Len(sent[s])) \union {m}
  BY <1>1 DEF Adds
<1>7. \A k \in Due(s) : k \in 1 .. Len(sent[s])
  BY ComesOut
<1>8. \A k \in Due(s) : k < m /\ Converted(s, k)' = Converted(s, k)
  BY <1>5, <1>6, <1>7 DEF Converted
<1>9. Due(s) \subseteq Due(s)' /\ Due(s)' \subseteq Due(s) \union {m}
  <2>1. \A k \in 1 .. Len(sent[s]) : \A l \in 1 .. (k - 1) : l \in 1 .. Len(sent[s])
    BY <1>1
  <2>2. \A k \in 1 .. Len(sent[s]) : k \in Due(s) <=> k \in Due(s)'
    BY <1>4, <1>5, <1>6, <2>1 DEF Due
  <2>3. Due(s)' \subseteq 1 .. m
    BY <1>4 DEF Due
  <2> QED BY <1>6, <1>7, <2>2, <2>3
<1>10. ~raw[s].ended
  BY DEF Adds, Written
<1>11. NoMore(s) => NoMore(s)' /\ Due(s)' = Due(s)
  <2>1. NoMore(s) => s \in Pumped /\ \E k \in 1 .. Len(sent[s]) : sent[s][k].kind = "panic"
    BY <1>10 DEF NoMore
  <2>2. NoMore(s) => NoMore(s)'
    BY <1>4, <1>5, <1>6, <2>1 DEF NoMore
  <2>3. NoMore(s) => m \notin Due(s)'
    <3>1. 1 .. (m - 1) = 1 .. Len(sent[s])
      BY <1>1, <1>6
    <3> QED BY <1>5, <2>1, <3>1 DEF Due
  <2> QED BY <1>9, <2>2, <2>3
<1>12. s \notin Pumped => m \in Due(s)' /\ Converted(s, m)' = i
  BY <1>4, <1>6 DEF Due, Converted, Adds
<1>13. ASSUME m \in Due(s)', NEW k \in Due(s)
       PROVE  Converted(s, k) # Converted(s, m)'
  <2>1. k \in 1 .. Len(sent[s]) /\ sent[s][k].n = k /\ Failure.n = 0
    BY <1>7 DEF Written, Failure
  <2>2. CASE i.kind = "panic"
    <3>1. s \in Pumped /\ k \in 1 .. (m - 1)
      BY <1>1, <1>6, <2>1, <2>2 DEF Adds
    <3>2. sent[s][k].kind # "panic"
      BY <1>5, <1>13, <2>1, <3>1 DEF Due
    <3> QED BY <1>4, <2>1, <2>2, <3>2 DEF Converted
  <2>3. CASE i.kind # "panic"
    <3>1. Converted(s, m)' = i /\ i.n = m /\ m # k /\ m # 0
      BY <1>4, <1>6, <1>8, <2>3 DEF Converted, Adds
    <3> QED BY <2>1, <3>1 DEF Converted
  <2> QED BY <2>2, <2>3
<1>14. ASSUME m \in Due(s)', NEW j \in 1 .. Len(delivered)
       PROVE  delivered[j] # <<s, Converted(s, m)'>>
  <2>1. Converted(s, m)' # SourceEOF
    BY <1>4 DEF Converted, Adds, Failure, SourceEOF
  <2>2. delivered[j][1] = s /\ delivered[j][2] # SourceEOF =>
          \E k \in Due(s) : delivered[j][2] = Converted(s, k)
    BY <1>1 DEF InOrder
  <2> QED BY <1>13, <1>14, <2>1, <2>2
<1> QED BY <1>3, <1>4, <1>5, <1>8, <1>9, <1>11, <1>12, <1>13, <1>14

\* What has passed of a source that a new item was added to.
LEMMA AddsPassed ==
  ASSUME MergeTypes, NEW s \in Source, NEW m \in Nat, NEW i \in AnyItem, Adds(s, m, i),
         Flows(s), InOrder
  PROVE  /\ s \in Pumped => stream(s)'.items = stream(s).items
         /\ s \notin Pumped => stream(s)'.items = Append(stream(s).items, i)
         /\ stream(s).items \in Seq(AnyItem)
         /\ \A k \in Due(s), n \in 0 .. Len(stream(s).items) :
              Passed(s, k, n)' <=> Passed(s, k, n)
         /\ m \in Due(s)' => \A n \in 0 .. Len(stream(s).items) : ~Passed(s, m, n)'
<1> DEFINE q == stream(s).items
<1>0. Written(s) /\ Queued(s)
  BY DEF Flows
<1>1. s \in Pumped => stream(s)'.items = stream(s).items
  BY DEF Adds, others, stream
<1>2. s \notin Pumped => stream(s)'.items = Append(stream(s).items, i)
  BY <1>0, AddsFacts DEF stream
<1>3. q \in Seq(AnyItem) /\ Len(q) \in Nat
  BY DEF MergeTypes, AnyStream, stream
<1>4. \A j \in 1 .. Len(q) : stream(s)'.items[j] = q[j]
  BY <1>1, <1>2, <1>3
<1>5. delivered' = delivered
  BY DEF Adds, others
<1>6. ASSUME NEW k \in Due(s), NEW n \in 0 .. Len(stream(s).items)
      PROVE  Passed(s, k, n)' <=> Passed(s, k, n)
  <2>1. Converted(s, k)' = Converted(s, k)
    BY <1>0, AddsFacts
  <2>2. \A j \in 1 .. n : j \in 1 .. Len(q)
    BY <1>3
  <2> QED BY <1>4, <1>5, <2>1, <2>2 DEF Passed, Came
<1>7. ASSUME m \in Due(s)', NEW n \in 0 .. Len(stream(s).items)
      PROVE  ~Passed(s, m, n)'
  <2>1. \A j \in 1 .. n : j \in 1 .. Len(q)
    BY <1>3
  <2>2. \A j \in 1 .. Len(q) : q[j] # Converted(s, m)'
    <3>1. \A k \in Due(s) : Converted(s, k) # Converted(s, m)'
      BY <1>0, <1>7, AddsFacts
    <3>2. \A j \in 1 .. Len(q) : \E k \in Due(s) : q[j] = Converted(s, k)
      BY <1>0 DEF Queued
    <3> HIDE DEF q
    <3> QED BY <3>1, <3>2
  <2>3. \A j \in 1 .. Len(delivered) : delivered[j] # <<s, Converted(s, m)'>>
    BY <1>0, <1>7, AddsFacts
  <2> QED BY <1>4, <1>5, <2>1, <2>2, <2>3 DEF Passed, Came
<1> QED BY <1>1, <1>2, <1>3, <1>6, <1>7

\* With one more item delivered its source is in order.
LEMMA AddsFlows ==
  ASSUME MergeTypes, NEW s \in Source, NEW m \in Nat, NEW i \in AnyItem, Adds(s, m, i),
         Flows(s), InOrder
  PROVE  Flows(s)'
<1> USE MergeAssumption
<1> DEFINE q == stream(s).items
<1>w. Written(s) /\ Queued(s)
  BY DEF Flows
<1>q. q \in Seq(AnyItem) /\ Len(q) \in Nat
  BY DEF MergeTypes, AnyStream, stream
<1>0. Written(s) /\ Queued(s) /\ q \in Seq(AnyItem) /\ Len(q) \in Nat
  BY <1>w, <1>q
<1>f. /\ raw'[s].items = Append(raw[s].items, i) /\ raw'[s].ended = raw[s].ended
      /\ Len(sent'[s]) = m /\ sent'[s][m] = i
      /\ \A k \in 1 .. Len(sent[s]) : sent'[s][k] = sent[s][k]
      /\ writer[s] = "select" /\ writer'[s] = "idle"
  <2>1. writer[s] = "select" /\ writer'[s] = "idle"
    BY DEF Adds, MergeTypes
  <2> QED BY <1>w, <2>1, AddsFacts
<1>1. Len(sent[s]) \in Nat /\ raw[s].items \in Seq(AnyItem) /\ Len(raw[s].items) \in Nat
      /\ m = Len(sent[s]) + 1
  BY DEF MergeTypes, AnyStream, Adds
<1>2. Len(raw'[s].items) = Len(raw[s].items) + 1
      /\ raw'[s].items[Len(raw[s].items) + 1] = i
      /\ \A j \in 1 .. Len(raw[s].items) : raw'[s].items[j] = raw[s].items[j]
  BY <1>1, <1>f
<1>3. Taken(s)' = Taken(s) /\ Taken(s) \in 0 .. Len(sent[s])
  <2>1. Len(raw[s].items) <= Len(sent[s])
    BY <1>0 DEF Written
  <2>2. \A a, b \in Nat : a <= b => (b + 1) - (a + 1) = b - a /\ b - a \in 0 .. b
    OBVIOUS
  <2>3. Len(sent'[s]) = Len(sent[s]) + 1
    BY <1>1, <1>f
  <2> QED BY <1>1, <1>2, <2>1, <2>2, <2>3 DEF Taken
<1>4. Written(s)'
  <2>1. \A k \in 1 .. m :
          /\ sent'[s][k].n = k /\ sent'[s][k].kind \in {"keep", "drop", "panic"}
          /\ s \notin Pumped => sent'[s][k].kind = "keep"
    <3>1. \A k \in 1 .. m : k \in 1 .. Len(sent[s]) \/ k = m
      BY <1>1
    <3>2. i.n = m /\ i.kind \in {"keep", "drop", "panic"} /\ (s \notin Pumped => i.kind = "keep")
      BY DEF Adds
    <3> QED BY <1>w, <1>f, <3>1, <3>2 DEF Written
  <2>2. \A j \in 1 .. Len(raw'[s].items) : raw'[s].items[j] = sent'[s][Taken(s) + j]
    <3>1. \A j \in 1 .. Len(raw[s].items) : Taken(s) + j \in 1 .. Len(sent[s])
      <4>1. \A a, b \in Nat : \A j \in 1 .. a : a <= b => (b - a) + j \in 1 .. b
        OBVIOUS
      <4> QED BY <1>w, <1>1, <4>1 DEF Taken, Written
    <3>2. Taken(s) + (Len(raw[s].items) + 1) = m
      <4>1. \A a, b \in Nat : (b - a) + (a + 1) = b + 1
        OBVIOUS
      <4> QED BY <1>1, <4>1 DEF Taken
    <3>3. \A j \in 1 .. Len(raw'[s].items) : j \in 1 .. Len(raw[s].items) \/ j = Len(raw[s].items) + 1
      BY <1>1, <1>2
    <3> QED BY <1>w, <1>f, <1>2, <3>1, <3>2, <3>3 DEF Written
  <2>3. Len(raw'[s].items) <= Len(sent'[s])
    BY <1>w, <1>f, <1>1, <1>2 DEF Written
  <2>4. ~raw'[s].ended
    BY <1>w, <1>f DEF Written
  <2>5. s \in Pumped => /\ merged'[s].ended => pump'[s] = "done"
                        /\ merged'[s].closed => reader' = "closed"
    BY <1>0 DEF Written, Adds, others
  <2> QED BY <1>f, <1>3, <2>1, <2>2, <2>3, <2>4, <2>5 DEF Written
<1>5. ASSUME s \in Pumped PROVE Queued(s)' /\ PumpAt(s)'
  <2>1. PumpAt(s) /\ stream(s)'.items = stream(s).items /\ pump' = pump
        /\ holding' = holding /\ merged' = merged
    BY <1>5, AddsPassed DEF Flows, Adds, others
  <2>2. \A l \in Due(s)' : l \in Due(s) \/ l = m
    BY <1>0, AddsFacts
  <2>3. \A k \in Due(s) : ~(m < k) /\ ~(m <= Taken(s)) /\ ~(m < Taken(s)) /\ k \in Due(s)'
                          /\ Converted(s, k)' = Converted(s, k)
    BY <1>0, <1>1, <1>3, AddsFacts, ComesOut
  <2>4. ~(m <= Taken(s)) /\ ~(m < Taken(s))
    BY <1>1, <1>3
  <2>5. Queued(s)'
    <3>1. \A j \in 1 .. Len(q) : j - 1 \in 0 .. Len(q)
      BY <1>0
    <3> QED BY <1>0, <2>1, <2>2, <2>3, <3>1, AddsPassed DEF Queued
  <2>6. Len(q) \in 0 .. Len(q)
    BY <1>0
  <2>7. (AllPassed(s) /\ NoMore(s)) => (AllPassed(s) /\ NoMore(s))'
    BY <1>0, <2>1, <2>6, AddsFacts, AddsPassed DEF AllPassed
  <2>8. \A k \in 1 .. Taken(s) : sent'[s][k] = sent[s][k]
    BY <1>0, <1>1, <1>3, AddsFacts
  <2>9. Taken(s) \in Due(s) => sent'[s][Taken(s)] = sent[s][Taken(s)]
    BY <1>0, AddsFacts, ComesOut
  <2>10. PumpAt(s)'
    <3>1. CASE pump[s] = "recv"
      BY SMTT(30), <1>3, <2>1, <2>2, <2>4, <2>6, <2>8, <3>1, AddsPassed DEF PumpAt
    <3>2. CASE pump[s] \in {"send", "select", "report", "lastselect"}
      BY <1>3, <2>1, <2>2, <2>3, <2>4, <2>6, <2>9, <3>2, AddsPassed DEF PumpAt
    <3>3. CASE pump[s] \in {"close", "done"}
      BY <2>1, <2>7, <3>3 DEF PumpAt
    <3> QED BY <1>5, <3>1, <3>2, <3>3 DEF MergeTypes
  <2> QED BY <2>5, <2>10
<1>6. ASSUME s \notin Pumped PROVE Queued(s)' /\ AllPassed(s)'
  <2>1. PICK n \in Nat : n = Len(q)
    BY <1>0
  <2>2. AllPassed(s) /\ stream(s)'.items = Append(q, i)
    BY <1>6, AddsPassed DEF Flows
  <2>3. Len(stream(s)'.items) = n + 1 /\ stream(s)'.items[n + 1] = i
        /\ \A j \in 1 .. n : stream(s)'.items[j] = q[j]
    BY <1>0, <2>1, <2>2
  <2>4. Due(s)' = Due(s) \union {m} /\ m \in Due(s)' /\ Converted(s, m)' = i
    BY <1>0, <1>6, AddsFacts
  <2>5. \A k \in Due(s) : Converted(s, k)' = Converted(s, k) /\ k < m /\ ~(m < k)
    BY <1>0, <1>1, AddsFacts, ComesOut
  <2>6. n \in 0 .. n /\ (\A j \in 1 .. n : j - 1 \in 0 .. n) /\ (n + 1) - 1 = n /\ ~(m < m)
    BY <1>1
  <2>7. /\ \A k \in Due(s), j \in 0 .. n : Passed(s, k, j)' <=> Passed(s, k, j)
        /\ \A j \in 0 .. n : ~Passed(s, m, j)'
    BY <2>1, <2>4, AddsPassed
  <2>8. \A k \in Due(s) : Passed(s, k, n)'
    BY <2>1, <2>2, <2>6, <2>7 DEF AllPassed
  <2>9. \A j \in 1 .. n + 1 : j \in 1 .. n \/ j = n + 1
    OBVIOUS
  <2>10. ASSUME NEW j \in 1 .. n
         PROVE  \E k \in Due(s)' : /\ stream(s)'.items[j] = Converted(s, k)'
                                   /\ \A l \in Due(s)' : l < k <=> Passed(s, l, j - 1)'
    <3>1. PICK k \in Due(s) : /\ q[j] = Converted(s, k)
                              /\ \A l \in Due(s) : l < k <=> Passed(s, l, j - 1)
      BY <1>0, <2>1 DEF Queued
    <3>2. \A l \in Due(s) : l < k <=> Passed(s, l, j - 1)'
      BY <2>6, <2>7, <3>1
    <3>3. ~Passed(s, m, j - 1)'
      BY <2>6, <2>7
    <3> QED BY <2>3, <2>4, <2>5, <3>1, <3>2, <3>3
  <2>11. \A l \in Due(s)' : l < m <=> Passed(s, l, n)'
    BY <2>4, <2>5, <2>6, <2>7, <2>8
  <2>12. Queued(s)'
    <3>1. \E k \in Due(s)' : /\ stream(s)'.items[n + 1] = Converted(s, k)'
                             /\ \A l \in Due(s)' : l < k <=> Passed(s, l, (n + 1) - 1)'
      BY <2>3, <2>4, <2>6, <2>11
    <3>2. \A j \in 1 .. n + 1 :
            \E k \in Due(s)' : /\ stream(s)'.items[j] = Converted(s, k)'
                               /\ \A l \in Due(s)' : l < k <=> Passed(s, l, j - 1)'
      BY <2>9, <2>10, <3>1
    <3> QED BY <2>3, <3>2 DEF Queued
  <2>13. \A k \in Due(s)' : Passed(s, k, n + 1)'
    <3>1. (\A j \in 1 .. n : j \in 1 .. n + 1) /\ n + 1 \in 1 .. n + 1
      OBVIOUS
    <3> QED BY <2>3, <2>4, <2>8, <3>1 DEF Passed
  <2>14. AllPassed(s)'
    BY <2>3, <2>13 DEF AllPassed
  <2> QED BY <2>12, <2>14
<1>7. s \notin nonClosed' => NoMore(s)'
  BY <1>0, AddsFacts DEF Flows, Adds, others
<1> QED BY <1>4, <1>5, <1>6, <1>7 DEF Flows

\* The pump takes an item from the stream of its writer.
LEMMA PumpTakes ==
  ASSUME MergeTypes, NEW s \in Pumped, Flows(s), PumpRecv(s), HasItem(raw[s])
  PROVE  Flows(s)'
<1> USE MergeAssumption
<1>0. Written(s) /\ Queued(s) /\ PumpAt(s)
  BY DEF Flows
<1>1. raw[s].items \in Seq(AnyItem) /\ raw[s].items # <<>> /\ Len(raw[s].items) \in Nat
      /\ Len(sent[s]) \in Nat /\ raw[s] \in AnyStream
  BY DEF MergeTypes, AnyStream, HasItem
<1>2. /\ Taken(s) + 1 \in 1 .. Len(sent[s])
      /\ Head(raw[s].items) = sent[s][Taken(s) + 1]
      /\ Head(raw[s].items).kind \in {"keep", "drop", "panic"}
  BY <1>0, HeadKind
<1>3. PICK m \in 1 .. Len(sent[s]) : m = Taken(s) + 1
  BY <1>2
<1>4. PICK i : i = sent[s][m]
  OBVIOUS
<1>5. /\ raw' = [raw EXCEPT ![s] = Received(@)]
      /\ pump[s] = "recv"
      /\ i.kind = "keep" => pump'[s] = "send" /\ holding'[s] = i
      /\ i.kind = "drop" => pump'[s] = "recv"
      /\ i.kind = "panic" => pump'[s] = "report" /\ holding'[s] = Failure
      /\ i.kind \in {"keep", "drop", "panic"}
  BY <1>1, <1>2, <1>3, <1>4 DEF PumpRecv, MergeTypes, HasItem, AtEnd
<1>6. merged' = merged /\ delivered' = delivered /\ sent' = sent /\ nonClosed' = nonClosed
      /\ writer' = writer /\ reader' = reader
  BY DEF PumpRecv, rest
<1>7. raw'[s].items = Tail(raw[s].items) /\ raw'[s].ended = raw[s].ended
  <2>1. Failure \in AnyItem
    BY DEF Failure, AnyItem
  <2> QED BY <1>1, <1>5, <2>1, StreamParts DEF MergeTypes
<1>8. Len(raw'[s].items) = Len(raw[s].items) - 1
      /\ \A j \in 1 .. Len(raw[s].items) - 1 : raw'[s].items[j] = raw[s].items[j + 1]
  BY <1>1, <1>7
<1>9. Taken(s) \in Nat /\ Taken(s)' = m /\ m = Taken(s) + 1
  <2>1. Len(raw[s].items) <= Len(sent[s]) /\ Len(raw[s].items) # 0
    BY <1>0, <1>1 DEF Written
  <2>2. \A a, b \in Nat : a <= b => b - a \in Nat /\ b - (a - 1) = (b - a) + 1
    OBVIOUS
  <2> QED BY <1>1, <1>3, <1>6, <1>8, <2>1, <2>2 DEF Taken
<1>10. Framed(s)
  <2>1. stream(s)'.items = stream(s).items
    BY <1>6 DEF stream
  <2> QED BY <1>6, <1>7, <2>1, NoneOf DEF Framed
<1>11. Written(s)'
  <2>1. \A j \in 1 .. Len(raw'[s].items) :
          j + 1 \in 1 .. Len(raw[s].items) /\ j \in 1 .. Len(raw[s].items) - 1
          /\ Taken(s) + (j + 1) = m + j
    BY SMTT(30), <1>1, <1>8, <1>9
  <2>2. \A j \in 1 .. Len(raw'[s].items) : raw'[s].items[j] = sent[s][m + j]
    BY <1>0, <1>8, <2>1 DEF Written
  <2>3. Len(raw'[s].items) <= Len(sent[s])
    BY <1>0, <1>1, <1>8 DEF Written
  <2>4. pump[s] # "done"
    BY <1>5
  <2> QED BY <1>0, <1>6, <1>7, <1>9, <2>2, <2>3, <2>4 DEF Written
<1>12. m \in Due(s) <=> i.kind # "drop"
  <2>1. \A l \in 1 .. m - 1 : l \in 1 .. Taken(s)
    BY <1>9
  <2>2. m \in DOMAIN sent[s]
    BY <1>3 DEF MergeTypes
  <2> QED BY <1>0, <1>4, <1>5, <2>1, <2>2 DEF Due, PumpAt
<1>13. \A k \in Due(s) : /\ k \in Nat
                         /\ k <= Taken(s) <=> Passed(s, k, Len(stream(s).items))
  BY <1>0, <1>5, ComesOut DEF PumpAt
<1>14. PumpAt(s)'
  <2>1. \A k \in Due(s) : /\ Passed(s, k, Len(stream(s).items))' <=> Passed(s, k, Len(stream(s).items))
                          /\ Converted(s, k)' = Converted(s, k)
    BY <1>0, <1>10, FrameFacts DEF Framed
  <2>2. Due(s)' = Due(s)
    BY <1>0, <1>10, FrameFacts
  <2>3. CASE i.kind = "drop"
    <3>1. \A k \in Due(s) : k <= m <=> k <= Taken(s)
      BY <1>9, <1>12, <1>13, <2>3
    <3>2. \A k \in 1 .. m : sent'[s][k].kind # "panic"
      <4>1. \A k \in 1 .. m : k \in 1 .. Taken(s) \/ k = m
        BY <1>9
      <4> QED BY <1>0, <1>4, <1>5, <1>6, <2>3, <4>1 DEF PumpAt
    <3> QED BY <1>5, <1>9, <1>13, <2>1, <2>2, <2>3, <3>1, <3>2 DEF PumpAt
  <2>4. CASE i.kind # "drop"
    <3>1. \A k \in Due(s) : k < m <=> k <= Taken(s)
      BY <1>9, <1>13
    <3>2. m \in Due(s)' /\ \A k \in Due(s)' : k < m <=> Passed(s, k, Len(stream(s).items))'
      BY <1>12, <1>13, <2>1, <2>2, <2>4, <3>1
    <3>3. Converted(s, m)' = IF i.kind = "panic" THEN Failure ELSE i
      BY <1>4, <1>6 DEF Converted
    <3>4. \/ pump'[s] = "send" /\ i.kind = "keep"
          \/ pump'[s] = "report" /\ i.kind = "panic"
      BY <1>5, <2>4
    <3> QED BY <1>4, <1>5, <1>6, <1>9, <3>2, <3>3, <3>4 DEF PumpAt
  <2> QED BY <2>3, <2>4
<1>15. s \notin nonClosed' => NoMore(s)
  BY <1>6 DEF Flows
<1> QED BY <1>10, <1>11, <1>14, <1>15, FrameFlows

\* The pump sends what it holds.
LEMMA PumpGives ==
  ASSUME MergeTypes, NEW s \in Pumped, Flows(s), PumpSelect(s),
         merged' = [merged EXCEPT ![s] = Sent(@, holding[s])],
         pump' = [pump EXCEPT ![s] = IF @ = "select" THEN "recv" ELSE "close"]
  PROVE  Flows(s)'
<1> USE MergeAssumption
<1> DEFINE q == merged[s].items
<1>0. Written(s) /\ Queued(s) /\ PumpAt(s)
  BY DEF Flows
<1>1. q \in Seq(AnyItem) /\ Len(q) \in Nat /\ merged[s] \in AnyStream /\ holding[s] \in AnyItem
  BY DEF MergeTypes, AnyStream
<1>2. merged'[s].items = Append(q, holding[s])
      /\ merged'[s].ended = merged[s].ended /\ merged'[s].closed = merged[s].closed
  BY <1>1, StreamParts DEF MergeTypes
<1>3. Len(merged'[s].items) = Len(q) + 1 /\ merged'[s].items[Len(q) + 1] = holding[s]
      /\ \A j \in 1 .. Len(q) : merged'[s].items[j] = q[j]
  BY <1>1, <1>2
<1>4. PICK n \in Nat : n = Len(q)
  BY <1>1
<1>5. raw' = raw /\ delivered' = delivered /\ sent' = sent /\ nonClosed' = nonClosed
      /\ writer' = writer /\ reader' = reader
  BY DEF PumpSelect, rest
<1>6. \/ pump[s] = "select" /\ pump'[s] = "recv"
      \/ pump[s] = "lastselect" /\ pump'[s] = "close"
  BY DEF PumpSelect, MergeTypes
<1>7. PICK m : m = Taken(s)
  OBVIOUS
<1>8. /\ m \in Due(s) /\ holding[s] = Converted(s, m)
      /\ pump[s] = "select" => sent[s][m].kind = "keep"
      /\ pump[s] = "lastselect" => sent[s][m].kind = "panic"
      /\ \A k \in Due(s) : k < m <=> Passed(s, k, n)
  BY <1>0, <1>4, <1>6, <1>7 DEF PumpAt, stream
<1>9. Due(s)' = Due(s) /\ Taken(s)' = m /\ \A k : Converted(s, k)' = Converted(s, k)
  BY <1>5, <1>7 DEF Due, Taken, Converted
<1>10. \A k \in Due(s) : \A j \in 0 .. n : Passed(s, k, j)' <=> Passed(s, k, j)
  <2>1. \A j \in 0 .. n : \A h \in 1 .. j : h \in 1 .. Len(q)
    BY <1>4
  <2> QED BY <1>3, <1>5, <1>9, <2>1 DEF Passed, Came, stream
<1>11. \A k \in Due(s) : Passed(s, k, n + 1)' <=> Passed(s, k, n) \/ k = m
  <2>1. 1 .. (n + 1) = (1 .. n) \union {n + 1}
    OBVIOUS
  <2>2. \A k \in Due(s) : holding[s] = Converted(s, k) <=> k = m
    BY <1>0, <1>8, Distinct
  <2> QED BY <1>3, <1>4, <1>5, <1>9, <2>1, <2>2 DEF Passed, Came, stream
<1>12. Written(s)'
  BY <1>0, <1>2, <1>5, <1>6, <1>7, <1>9 DEF Written
<1>13. Queued(s)'
  <2>1. \A j \in 1 .. n : j - 1 \in 0 .. n
    OBVIOUS
  <2>2. ASSUME NEW j \in 1 .. n
        PROVE  \E k \in Due(s) : /\ merged'[s].items[j] = Converted(s, k)
                                 /\ \A l \in Due(s) : l < k <=> Passed(s, l, j - 1)'
    BY <1>0, <1>3, <1>4, <1>10, <2>1 DEF Queued, stream
  <2>3. merged'[s].items[n + 1] = Converted(s, m)
        /\ \A l \in Due(s) : l < m <=> Passed(s, l, (n + 1) - 1)'
    <3>1. (n + 1) - 1 = n /\ n \in 0 .. n
      OBVIOUS
    <3> QED BY <1>3, <1>4, <1>8, <1>10, <3>1
  <2>4. \A j \in 1 .. n + 1 : j \in 1 .. n \/ j = n + 1
    OBVIOUS
  <2>5. \A j \in 1 .. n + 1 :
          \E k \in Due(s) : /\ merged'[s].items[j] = Converted(s, k)
                            /\ \A l \in Due(s) : l < k <=> Passed(s, l, j - 1)'
    BY <1>8, <2>2, <2>3, <2>4
  <2> QED BY <1>3, <1>4, <1>9, <2>5 DEF Queued, stream
<1>14. \A k \in Due(s) : k \in Nat
  BY <1>0, ComesOut
<1>15. PumpAt(s)'
  <2>1. CASE pump'[s] = "recv"
    <3>1. \A k \in Due(s) : k <= m <=> k < m \/ k = m
      BY <1>8, <1>14
    <3>2. \A k \in Due(s) : k <= m <=> Passed(s, k, n + 1)'
      BY <1>8, <1>11, <3>1
    <3>3. \A k \in 1 .. m : sent'[s][k].kind # "panic"
      <4>1. \A k \in 1 .. m : k \in 1 .. (m - 1) \/ k = m
        BY <1>8, <1>14
      <4>2. sent[s][m].kind = "keep"
        BY <1>6, <1>8, <2>1
      <4> QED BY <1>5, <1>8, <4>1, <4>2 DEF Due
    <3> QED BY <1>3, <1>4, <1>9, <2>1, <3>2, <3>3 DEF PumpAt, stream
  <2>2. CASE pump'[s] = "close"
    <3>1. sent[s][m].kind = "panic" /\ m \in 1 .. Len(sent[s])
      BY <1>0, <1>6, <1>8, <2>2, ComesOut
    <3>2. \A k \in Due(s) : k < m \/ k = m
      <4>1. \A k \in Due(s) : ~(m < k)
        <5> SUFFICES ASSUME NEW k \in Due(s), m < k PROVE FALSE
          OBVIOUS
        <5>1. m \in 1 .. (k - 1)
          BY <1>14, <3>1
        <5> QED BY <3>1, <5>1 DEF Due
      <4> QED BY <1>8, <1>14, <4>1
    <3>3. \A k \in Due(s) : Passed(s, k, n + 1)'
      BY <1>8, <1>11, <3>2
    <3>4. AllPassed(s)'
      BY <1>3, <1>4, <1>9, <3>3 DEF AllPassed, stream
    <3>5. NoMore(s)'
      BY <1>5, <3>1 DEF NoMore
    <3> QED BY <2>2, <3>4, <3>5 DEF PumpAt
  <2> QED BY <1>6, <2>1, <2>2
<1>16. s \notin nonClosed' => NoMore(s)'
  BY <1>5 DEF Flows, NoMore
<1> QED BY <1>12, <1>13, <1>15, <1>16 DEF Flows

\* The other steps of a pump move no item.
LEMMA PumpMoves ==
  ASSUME MergeTypes, NEW s \in Pumped, Flows(s),
         \/ PumpRecv(s) /\ ~HasItem(raw[s])
         \/ PumpSend(s)
         \/ PumpSelect(s) /\ merged' = merged
         \/ PumpClose(s)
  PROVE  Flows(s)'
<1> USE MergeAssumption
<1>0. Written(s) /\ PumpAt(s)
  BY DEF Flows
<1>1. delivered' = delivered /\ nonClosed' = nonClosed /\ writer' = writer /\ sent' = sent
      /\ reader' = reader
  BY DEF PumpRecv, PumpSend, PumpSelect, PumpClose, rest
<1>2. raw[s] \in AnyStream /\ merged[s] \in AnyStream /\ Failure \in AnyItem
  BY DEF MergeTypes, Failure, AnyItem
<1>3. /\ raw'[s].items = raw[s].items /\ raw'[s].ended = raw[s].ended
      /\ merged'[s].items = merged[s].items /\ merged'[s].closed = merged[s].closed
      /\ merged'[s].ended => merged[s].ended \/ pump'[s] = "done"
      /\ pump[s] # "done"
  <2>1. CASE PumpClose(s)
    <3>1. raw'[s] = closeRecv(raw[s]) /\ merged'[s] = closeSend(merged[s]) /\ pump'[s] = "done"
          /\ pump[s] = "close"
      BY <2>1 DEF PumpClose, MergeTypes
    <3> QED BY <1>2, <3>1, StreamParts
  <2>2. CASE ~PumpClose(s)
    <3>1. raw' = raw /\ merged' = merged /\ pump[s] # "done"
      BY <2>2 DEF PumpRecv, PumpSend, PumpSelect
    <3> QED BY <3>1
  <2> QED BY <2>1, <2>2
<1>4. Framed(s)
  <2>1. stream(s)'.items = stream(s).items
    BY <1>3 DEF stream
  <2> QED BY <1>1, <1>3, <2>1, NoneOf DEF Framed
<1>5. Taken(s)' = Taken(s)
  BY <1>1, <1>3 DEF Taken
<1>6. Written(s)'
  BY <1>0, <1>1, <1>3, <1>5 DEF Written
<1>7. /\ Due(s)' = Due(s)
      /\ NoMore(s) => NoMore(s)'
      /\ \A k \in Due(s) : Converted(s, k)' = Converted(s, k)
      /\ \A n : \A k \in Due(s) : Passed(s, k, n)' <=> Passed(s, k, n)
      /\ AllPassed(s)' <=> AllPassed(s)
  BY <1>0, <1>4, FrameFacts
<1>8. PumpAt(s)'
  <2>1. CASE PumpRecv(s) /\ ~HasItem(raw[s])
    <3>1. pump[s] = "recv" /\ pump'[s] = "close" /\ raw[s].items = <<>> /\ raw[s].ended
      BY <2>1 DEF PumpRecv, MergeTypes, HasItem, AtEnd
    <3>2. Taken(s) = Len(sent[s])
      BY <3>1 DEF Taken, MergeTypes
    <3>3. \A k \in Due(s) : k <= Len(sent[s])
      BY <1>0, ComesOut DEF MergeTypes
    <3>4. AllPassed(s)
      BY <1>0, <3>1, <3>2, <3>3 DEF PumpAt, AllPassed
    <3>5. NoMore(s)
      BY <3>1 DEF NoMore
    <3> QED BY <1>7, <3>1, <3>4, <3>5 DEF PumpAt
  <2>2. CASE PumpSend(s)
    <3>1. /\ pump[s] \in {"send", "report"} /\ holding' = holding
          /\ \/ pump'[s] = "close" /\ merged'[s].closed
             \/ pump[s] = "send" /\ pump'[s] = "select"
             \/ pump[s] = "report" /\ pump'[s] = "lastselect"
      BY <2>2 DEF PumpSend, MergeTypes, rest
    <3>2. CASE pump'[s] = "close" /\ merged'[s].closed
      BY <3>2 DEF PumpAt
    <3>3. CASE pump'[s] # "close"
      <4>1. \A k \in Due(s)' : k < Taken(s)' <=> Passed(s, k, Len(stream(s).items))'
        BY <1>0, <1>4, <1>5, <1>7, <3>1, <3>3 DEF PumpAt, Framed
      <4> QED BY <1>0, <1>1, <1>5, <1>7, <3>1, <3>3, <4>1 DEF PumpAt
    <3> QED BY <3>1, <3>2, <3>3
  <2>3. CASE PumpSelect(s) /\ merged' = merged
    <3>1. merged[s].closed
      <4>1. merged[s].items \in Seq(AnyItem) /\ holding[s] \in AnyItem
        BY <1>2 DEF AnyStream, MergeTypes
      <4>2. Append(merged[s].items, holding[s]) # merged[s].items
        BY <4>1
      <4>3. Sent(merged[s], holding[s]).items = Append(merged[s].items, holding[s])
        BY <1>2, <4>1, StreamParts
      <4>4. merged' # [merged EXCEPT ![s] = Sent(@, holding[s])]
        BY <2>3, <4>2, <4>3 DEF MergeTypes
      <4> QED BY <2>3, <4>4 DEF PumpSelect
    <3>2. pump'[s] = "close" \/ merged' = [merged EXCEPT ![s] = Sent(@, holding[s])]
      BY <2>3 DEF PumpSelect, MergeTypes
    <3>3. pump'[s] \in {"recv", "close"}
      BY <2>3 DEF PumpSelect, MergeTypes
    <3>4. pump'[s] = "close"
      <4>1. merged[s].items \in Seq(AnyItem) /\ holding[s] \in AnyItem
        BY <1>2 DEF AnyStream, MergeTypes
      <4>2. Append(merged[s].items, holding[s]) # merged[s].items
        BY <4>1
      <4>3. Sent(merged[s], holding[s]).items = Append(merged[s].items, holding[s])
        BY <1>2, <4>1, StreamParts
      <4> QED BY <2>3, <3>2, <4>2, <4>3 DEF MergeTypes
    <3> QED BY <1>3, <3>1, <3>4 DEF PumpAt
  <2>4. CASE PumpClose(s)
    <3>1. pump[s] = "close" /\ pump'[s] = "done"
      BY <2>4 DEF PumpClose, MergeTypes
    <3> QED BY <1>0, <1>3, <1>7, <3>1 DEF PumpAt
  <2> QED BY <2>1, <2>2, <2>3, <2>4
<1>9. s \notin nonClosed' => NoMore(s)
  BY <1>1 DEF Flows
<1> QED BY <1>4, <1>6, <1>8, <1>9, FrameFlows

\* The reader receives the first item of a stream.
LEMMA ReceiveFlows ==
  ASSUME MergeTypes, NEW s \in Source, Flows(s), Receive(s)
  PROVE  Flows(s)'
<1> USE MergeAssumption
<1> DEFINE q == stream(s).items
<1>0. Written(s) /\ Queued(s)
  BY DEF Flows
<1>1. q \in Seq(AnyItem) /\ q # <<>> /\ Len(q) \in Nat /\ stream(s) \in AnyStream
  BY DEF MergeTypes, AnyStream, stream, Receive, HasItem
<1>2. PICK n \in Nat : Len(q) = n + 1
  <2>1. Len(q) # 0
    BY <1>1
  <2>2. Len(q) - 1 \in Nat /\ Len(q) = (Len(q) - 1) + 1
    BY <1>1, <2>1
  <2> QED BY <2>2
<1>3. sent' = sent /\ nonClosed' = nonClosed /\ writer' = writer /\ pump' = pump
      /\ holding' = holding /\ reader = "recv" /\ reader' = "idle"
  BY DEF Receive, threads
<1>4. stream(s)'.items = Tail(q) /\ stream(s)'.ended = stream(s).ended
      /\ stream(s)'.closed = stream(s).closed
      /\ (s \in Pumped => raw'[s] = raw[s])
  <2>1. Failure \in AnyItem
    BY DEF Failure, AnyItem
  <2>2. stream(s)' = Received(stream(s)) /\ (s \in Pumped => raw' = raw)
    BY DEF Receive, Takes, stream, MergeTypes
  <2> QED BY <1>1, <2>1, <2>2, StreamParts DEF Receive
<1>5. Len(stream(s)'.items) = n /\ \A j \in 1 .. n : stream(s)'.items[j] = q[j + 1]
  BY <1>1, <1>2, <1>4
<1>6. PICK d \in Nat : d = Len(delivered)
  BY DEF MergeTypes
<1>7. Len(delivered') = d + 1 /\ delivered'[d + 1] = <<s, q[1]>>
      /\ \A j \in 1 .. d : delivered'[j] = delivered[j]
  <2>1. delivered' = Append(delivered, <<s, q[1]>>)
    BY <1>1 DEF Receive
  <2> QED BY <1>6, <2>1 DEF MergeTypes
<1>8. Due(s)' = Due(s) /\ \A k : Converted(s, k)' = Converted(s, k)
  BY <1>3 DEF Due, Converted
<1>9. \A k \in Due(s) : \A j \in 0 .. n : Passed(s, k, j)' <=> Passed(s, k, j + 1)
  <2> SUFFICES ASSUME NEW k \in Due(s), NEW j \in 0 .. n
               PROVE  Passed(s, k, j)' <=> Passed(s, k, j + 1)
    OBVIOUS
  <2>1. Came(s, k, Len(delivered))' <=> Came(s, k, d) \/ q[1] = Converted(s, k)
    <3>1. 1 .. (d + 1) = (1 .. d) \union {d + 1}
      OBVIOUS
    <3>2. <<s, q[1]>> = <<s, Converted(s, k)>> <=> q[1] = Converted(s, k)
      OBVIOUS
    <3> QED BY <1>7, <1>8, <3>1, <3>2 DEF Came
  <2>2. (\E h \in 1 .. j : stream(s)'.items[h] = Converted(s, k))
          <=> \E h \in 2 .. (j + 1) : q[h] = Converted(s, k)
    <3>1. \A h \in 1 .. j : h \in 1 .. n /\ h + 1 \in 2 .. (j + 1)
      OBVIOUS
    <3>2. \A h \in 2 .. (j + 1) : h - 1 \in 1 .. j /\ (h - 1) + 1 = h
      OBVIOUS
    <3> QED BY <1>5, <3>1, <3>2
  <2>3. 1 .. (j + 1) = {1} \union 2 .. (j + 1)
    OBVIOUS
  <2> QED BY <1>6, <1>8, <2>1, <2>2, <2>3 DEF Passed
<1>10. Queued(s)'
  <2>1. \A j \in 1 .. n : j + 1 \in 1 .. Len(q) /\ j - 1 \in 0 .. n
                          /\ (j + 1) - 1 = j /\ (j - 1) + 1 = j
    BY <1>2
  <2>2. ASSUME NEW j \in 1 .. n
        PROVE  \E k \in Due(s) : /\ stream(s)'.items[j] = Converted(s, k)
                                 /\ \A l \in Due(s) : l < k <=> Passed(s, l, j - 1)'
    <3>1. PICK k \in Due(s) : /\ q[j + 1] = Converted(s, k)
                              /\ \A l \in Due(s) : l < k <=> Passed(s, l, (j + 1) - 1)
      <4>1. j + 1 \in 1 .. Len(q)
        BY <2>1
      <4> QED BY <1>0, <4>1 DEF Queued
    <3>2. \A l \in Due(s) : Passed(s, l, j - 1)' <=> Passed(s, l, (j + 1) - 1)
      <4>1. j - 1 \in 0 .. n /\ (j - 1) + 1 = (j + 1) - 1
        BY <2>1
      <4>2. \A l \in Due(s) : Passed(s, l, j - 1)' <=> Passed(s, l, (j - 1) + 1)
        BY <1>9, <4>1
      <4> QED BY <4>1, <4>2
    <3>3. stream(s)'.items[j] = q[j + 1]
      BY <1>5
    <3> QED BY <3>1, <3>2, <3>3
  <2> QED BY <1>5, <1>8, <2>2 DEF Queued
<1>11. \A k \in Due(s) : Passed(s, k, n)' <=> Passed(s, k, n + 1)
  BY <1>9
<1>12. AllPassed(s) => AllPassed(s)'
  BY <1>2, <1>5, <1>8, <1>11 DEF AllPassed
<1>13. ASSUME s \in Pumped
       PROVE  Written(s)' /\ PumpAt(s)' /\ (NoMore(s) => NoMore(s)')
  <2>1. PumpAt(s) /\ raw'[s] = raw[s]
        /\ merged'[s].ended = merged[s].ended /\ merged'[s].closed = merged[s].closed
    BY <1>4, <1>13 DEF Flows, stream
  <2>2. Taken(s)' = Taken(s)
    BY <1>3, <2>1 DEF Taken
  <2>3. Written(s)'
    BY <1>0, <1>3, <2>1, <2>2 DEF Written
  <2>4. NoMore(s) => NoMore(s)'
    BY <1>3, <2>1 DEF NoMore
  <2>5. \A k \in Due(s) : Passed(s, k, Len(stream(s).items))' <=> Passed(s, k, Len(stream(s).items))
    BY <1>2, <1>5, <1>11
  <2>6. PumpAt(s)'
    BY <1>3, <1>8, <1>12, <2>1, <2>2, <2>4, <2>5 DEF PumpAt
  <2> QED BY <2>3, <2>4, <2>6
<1>14. ASSUME s \notin Pumped
       PROVE  Written(s)' /\ AllPassed(s)' /\ (NoMore(s) => NoMore(s)')
  <2>1. raw'[s].items = Tail(raw[s].items) /\ raw'[s].ended = raw[s].ended
        /\ q = raw[s].items
    BY <1>4, <1>14 DEF stream
  <2>2. AllPassed(s)'
    BY <1>12, <1>14 DEF Flows
  <2>3. NoMore(s) => NoMore(s)'
    BY <1>14, <2>1 DEF NoMore
  <2>4. Len(raw[s].items) = n + 1 /\ Len(raw'[s].items) = n
        /\ \A j \in 1 .. n : raw'[s].items[j] = raw[s].items[j + 1]
    BY <1>2, <1>5, <1>14, <2>1 DEF stream
  <2>5. Written(s)'
    <3>1. Len(sent[s]) \in Nat
      BY DEF MergeTypes
    <3>2. Taken(s)' = Taken(s) + 1 /\ \A j \in Nat : Taken(s) + (j + 1) = (Taken(s) + 1) + j
      <4>1. \A b \in Nat : b - n = (b - (n + 1)) + 1
        OBVIOUS
      <4>2. \A b, j \in Nat : (b - (n + 1)) + (j + 1) = ((b - (n + 1)) + 1) + j
        OBVIOUS
      <4>3. Taken(s) = Len(sent[s]) - (n + 1) /\ Taken(s)' = Len(sent[s]) - n
        BY <1>3, <2>4 DEF Taken
      <4> QED BY ZenonT(60), <3>1, <4>1, <4>2, <4>3
    <3>3. \A j \in 1 .. n : raw'[s].items[j] = sent[s][Taken(s)' + j]
      <4>1. \A j \in 1 .. n : j + 1 \in 1 .. (n + 1) /\ j \in Nat
        OBVIOUS
      <4>2. \A j \in 1 .. (n + 1) : raw[s].items[j] = sent[s][Taken(s) + j]
        BY <1>0, <2>4 DEF Written
      <4>3. \A j \in 1 .. n : raw'[s].items[j] = sent[s][Taken(s) + (j + 1)]
        BY <2>4, <4>1, <4>2
      <4> QED BY <3>2, <4>1, <4>3
    <3>4. n <= Len(sent[s])
      BY <1>0, <2>4, <3>1 DEF Written
    <3> QED BY <1>0, <1>3, <1>14, <2>1, <2>4, <3>3, <3>4 DEF Written
  <2> QED BY <2>2, <2>3, <2>5
<1>15. s \notin nonClosed' => NoMore(s)'
  BY <1>3, <1>13, <1>14 DEF Flows
<1> QED BY <1>10, <1>13, <1>14, <1>15 DEF Flows

\* A stream the reader finds ended has given all that is due.
LEMMA EndsDone ==
  ASSUME MergeTypes, NEW s \in Source, Flows(s), Ends(s)
  PROVE  NoMore(s) /\ \A k \in Due(s) : Came(s, k, Len(delivered))
<1>1. stream(s).items = <<>> /\ stream(s).ended /\ reader = "recv"
  BY DEF Ends, AtEnd
<1>2. AllPassed(s) /\ NoMore(s)
  <2>1. CASE s \in Pumped
    <3>1. pump[s] = "done" /\ ~merged[s].closed
      BY <1>1, <2>1 DEF Flows, Written, stream
    <3> QED BY <2>1, <3>1 DEF Flows, PumpAt
  <2>2. CASE s \notin Pumped
    BY <1>1, <2>2 DEF Flows, NoMore, stream
  <2> QED BY <2>1, <2>2
<1> QED BY <1>1, <1>2 DEF AllPassed, Passed

\* With its end delivered a source is in order.
LEMMA EndsFlows ==
  ASSUME MergeTypes, NEW s \in Source, Flows(s), Ends(s)
  PROVE  Flows(s)'
<1> USE MergeAssumption
<1>1. /\ raw' = raw /\ merged' = merged /\ writer' = writer /\ sent' = sent
      /\ pump' = pump /\ holding' = holding /\ reader = "recv"
  BY DEF Ends, threads
<1>2. Framed(s)
  <2>1. delivered' = delivered \/ delivered' = Append(delivered, <<s, SourceEOF>>)
    BY DEF Ends
  <2> QED BY <1>1, <2>1, NoneOf DEF Framed, stream
<1>3. Written(s) /\ Taken(s)' = Taken(s)
  BY <1>1 DEF Flows, Taken
<1>4. Written(s)'
  <2>1. s \in Pumped => ~merged[s].closed
    BY <1>1, <1>3 DEF Written
  <2> QED BY <1>1, <1>3, <2>1 DEF Written
<1>5. ASSUME s \in Pumped PROVE PumpAt(s)'
  <2>1. PumpAt(s) /\ stream(s)' = stream(s)
    BY <1>1, <1>5 DEF Flows, stream
  <2> QED BY <1>1, <1>2, <1>3, <2>1, FrameFacts DEF PumpAt
<1>6. NoMore(s)
  BY EndsDone
<1> QED BY <1>2, <1>4, <1>5, <1>6, FrameFlows

\* Every source flows on.
LEMMA FlowsNext ==
  ASSUME MergeTypes, InOrder, \A s \in Source : Flows(s), MergeNext
  PROVE  \A t \in Source : Flows(t)'
<1> USE MergeAssumption
<1>1. ASSUME NEW s \in Source, Writing(s), NEW t \in Source PROVE Flows(t)'
  <2>1. CASE t # s
    BY <1>1, <2>1, OthersUntouched, UntouchedFlows
  <2>2. CASE Untouched(s)
    BY <2>1, <2>2, UntouchedFlows
  <2>3. ASSUME NEW m \in Nat, NEW i \in AnyItem, Adds(s, m, i) PROVE Flows(s)'
    BY <2>3, AddsFlows
  <2> QED BY <1>1, <2>1, <2>2, <2>3, WritingCases
<1>2. ASSUME NEW s \in Pumped, Pumping(s), NEW t \in Source PROVE Flows(t)'
  <2>1. CASE t # s
    BY <1>2, <2>1, OthersUntouched, UntouchedFlows
  <2>2. CASE PumpRecv(s) /\ HasItem(raw[s])
    BY <2>1, <2>2, PumpTakes
  <2>3. CASE (PumpRecv(s) /\ ~HasItem(raw[s])) \/ PumpSend(s) \/ PumpClose(s)
    BY <2>1, <2>3, PumpMoves
  <2>4. CASE PumpSelect(s)
    <3>1. CASE merged' = merged
      BY <2>1, <2>4, <3>1, PumpMoves
    <3>2. CASE merged' # merged
      <4>1. merged' = [merged EXCEPT ![s] = Sent(@, holding[s])]
            /\ pump' = [pump EXCEPT ![s] = IF @ = "select" THEN "recv" ELSE "close"]
        BY <2>4, <3>2 DEF PumpSelect
      <4> QED BY <2>1, <2>4, <4>1, PumpGives
    <3> QED BY <3>1, <3>2
  <2> QED BY <1>2, <2>2, <2>3, <2>4 DEF Pumping
<1>3. ASSUME NEW s \in Source, Receive(s) \/ Ends(s), NEW t \in Source PROVE Flows(t)'
  <2>1. CASE t # s
    BY <1>3, <2>1, OthersUntouched, UntouchedFlows
  <2> QED BY <1>3, <2>1, ReceiveFlows, EndsFlows
<1>4. ASSUME Recv \/ EndOfAll \/ Close \/ UNCHANGED mergeVars, NEW t \in Source PROVE Flows(t)'
  BY <1>4, AllUntouched, UntouchedFlows
<1> QED BY <1>1, <1>2, <1>3, <1>4 DEF MergeNext

\* What a step delivers, if anything: the item that is due next, or an end.
LEMMA Delivers ==
  ASSUME MergeTypes, \A s \in Source : Flows(s), MergeNext
  PROVE  \/ delivered' = delivered
         \/ /\ sent' = sent
            /\ \E s \in Source, y \in AnyItem :
                 /\ delivered' = Append(delivered, <<s, y>>)
                 /\ y # SourceEOF =>
                      \E k \in Due(s) : /\ y = Converted(s, k)
                                        /\ \A l \in Due(s) : l < k <=> Came(s, l, Len(delivered))
<1>1. ASSUME NEW s \in Source, Receive(s)
      PROVE  /\ sent' = sent
             /\ \E y \in AnyItem :
                  /\ delivered' = Append(delivered, <<s, y>>)
                  /\ \E k \in Due(s) : /\ y = Converted(s, k)
                                       /\ \A l \in Due(s) : l < k <=> Came(s, l, Len(delivered))
  <2>1. stream(s).items \in Seq(AnyItem) /\ stream(s).items # <<>>
    BY <1>1, MergeAssumption DEF MergeTypes, AnyStream, stream, Receive, HasItem
  <2>2. 1 \in 1 .. Len(stream(s).items) /\ 1 - 1 = 0
    BY <2>1
  <2>3. PICK k \in Due(s) : /\ stream(s).items[1] = Converted(s, k)
                            /\ \A l \in Due(s) : l < k <=> Passed(s, l, 1 - 1)
    BY <2>2 DEF Flows, Queued
  <2>4. \A l \in Due(s) : Passed(s, l, 0) <=> Came(s, l, Len(delivered))
    BY DEF Passed
  <2>5. PICK y \in AnyItem : y = stream(s).items[1]
    BY <2>1, <2>2
  <2>6. delivered' = Append(delivered, <<s, y>>)
    BY <1>1, <2>1, <2>5 DEF Receive
  <2>7. sent' = sent
    BY <1>1 DEF Receive, threads
  <2> QED BY <2>2, <2>3, <2>4, <2>5, <2>6, <2>7
<1>2. ASSUME NEW s \in Source, Ends(s)
      PROVE  \/ delivered' = delivered
             \/ sent' = sent /\ delivered' = Append(delivered, <<s, SourceEOF>>)
  BY <1>2 DEF Ends, threads
<1>3. SourceEOF \in AnyItem
  BY DEF SourceEOF, AnyItem
<1>4. ASSUME NEW s \in Source, Writing(s) PROVE delivered' = delivered
  BY <1>4 DEF Writing, Send, Select, others
<1>5. ASSUME NEW s \in Pumped, Pumping(s) PROVE delivered' = delivered
  BY <1>5 DEF Pumping, PumpRecv, PumpSend, PumpSelect, PumpClose, rest
<1>6. CASE Recv \/ EndOfAll \/ Close \/ UNCHANGED mergeVars
  BY <1>6 DEF Recv, EndOfAll, Close, mergeVars
<1> QED BY <1>1, <1>2, <1>3, <1>4, <1>5, <1>6 DEF MergeNext

\* What a step adds to what was sent does not change what is due of a source
\* that gives no more, nor the place of what was due.
LEMMA Adding ==
  ASSUME MergeTypes, InOrder, \A s \in Source : Flows(s), MergeNext, NEW t \in Source
  PROVE  /\ Due(t) \subseteq Due(t)'
         /\ \A k \in Due(t) : Converted(t, k)' = Converted(t, k)
         /\ NoMore(t) => Due(t)' = Due(t)
         /\ \A l \in Due(t)' \ Due(t) :
              /\ \A k \in Due(t) : ~(l < k)
              /\ \A j \in 1 .. Len(delivered) : delivered[j] # <<t, Converted(t, l)'>>
<1>1. CASE sent'[t] = sent[t]
  BY <1>1 DEF Due, Converted
<1>2. CASE sent'[t] # sent[t]
  <2>1. ASSUME NEW s \in Pumped, Pumping(s) PROVE FALSE
    BY <1>2, <2>1 DEF Pumping, PumpRecv, PumpSend, PumpSelect, PumpClose, rest
  <2>2. ASSUME NEW s \in Source, Receive(s) \/ Ends(s) PROVE FALSE
    BY <1>2, <2>2 DEF Receive, Ends, threads
  <2>3. ~(Recv \/ EndOfAll \/ Close \/ UNCHANGED mergeVars)
    BY <1>2 DEF Recv, EndOfAll, Close, threads, mergeVars
  <2>4. PICK s \in Source : Writing(s)
    BY <2>1, <2>2, <2>3 DEF MergeNext
  <2>5. s = t
    BY <1>2, <2>4, OthersUntouched DEF Untouched, Framed
  <2>6. ~Untouched(t)
    BY <1>2 DEF Untouched, Framed
  <2>7. PICK m \in Nat, i \in AnyItem : Adds(t, m, i)
    BY <2>4, <2>5, <2>6, WritingCases
  <2>8. Written(t)
    BY DEF Flows
  <2>9. \A k \in Due(t) : k \in Nat
    BY <2>8, ComesOut
  <2> QED BY <2>7, <2>8, <2>9, AddsFacts
<1> QED BY <1>1, <1>2

\* The order of what is delivered is kept.
LEMMA OrderNext ==
  ASSUME MergeTypes, InOrder, \A s \in Source : Flows(s), MergeNext
  PROVE  InOrder'
<1>1. delivered \in Seq(Source \X AnyItem) /\ Len(delivered) \in Nat
      /\ DOMAIN delivered = 1 .. Len(delivered)
  BY DEF MergeTypes
<1>2. \A i \in 1 .. Len(delivered) : delivered[i][1] \in Source
  BY <1>1
<1>3. /\ \A i \in 1 .. Len(delivered) : delivered'[i] = delivered[i]
      /\ DOMAIN delivered' = 1 .. Len(delivered')
      /\ Len(delivered') \in {Len(delivered), Len(delivered) + 1}
  BY <1>1, Delivers
<1>4. ASSUME NEW i \in 1 .. Len(delivered), NEW s \in Source, delivered[i][1] = s,
             delivered[i][2] # SourceEOF
      PROVE  \E k \in Due(s)' : /\ delivered'[i][2] = Converted(s, k)'
                                /\ \A l \in Due(s)' : l < k <=> Came(s, l, i - 1)'
  <2>1. PICK k \in Due(s) : /\ delivered[i][2] = Converted(s, k)
                            /\ \A l \in Due(s) : l < k <=> Came(s, l, i - 1)
    BY <1>1, <1>4 DEF InOrder
  <2>2. \A j \in 1 .. (i - 1) : j \in 1 .. Len(delivered)
    BY <1>1
  <2>3. \A l \in Due(s) : Came(s, l, i - 1)' <=> Came(s, l, i - 1)
    BY <1>3, <2>2, Adding DEF Came
  <2>4. \A l \in Due(s)' \ Due(s) : ~(l < k) /\ ~Came(s, l, i - 1)'
    BY <1>3, <2>2, Adding DEF Came
  <2>5. k \in Due(s)' /\ Converted(s, k)' = Converted(s, k)
    BY Adding
  <2> QED BY <1>3, <2>1, <2>3, <2>4, <2>5
<1>5. ASSUME NEW i \in 1 .. Len(delivered'), i \notin 1 .. Len(delivered), NEW s \in Source,
             delivered'[i][1] = s, delivered'[i][2] # SourceEOF
      PROVE  \E k \in Due(s)' : /\ delivered'[i][2] = Converted(s, k)'
                                /\ \A l \in Due(s)' : l < k <=> Came(s, l, i - 1)'
  <2>1. i = Len(delivered) + 1 /\ delivered' # delivered /\ i - 1 = Len(delivered)
    <3>1. PICK d \in Nat : d = Len(delivered)
      BY <1>1
    <3>2. PICK e \in {d, d + 1} : e = Len(delivered')
      BY <1>3, <3>1
    <3>3. \A h \in 1 .. e : h \notin 1 .. d => h = d + 1 /\ h - 1 = d /\ e # d
      OBVIOUS
    <3> QED BY <1>5, <3>1, <3>2, <3>3
  <2>2. sent' = sent
    BY <2>1, Delivers
  <2>3. PICK r \in Source, y \in AnyItem :
          /\ delivered' = Append(delivered, <<r, y>>)
          /\ y # SourceEOF =>
               \E k \in Due(r) : /\ y = Converted(r, k)
                                 /\ \A l \in Due(r) : l < k <=> Came(r, l, Len(delivered))
    BY <2>1, Delivers
  <2>4. delivered'[i] = <<r, y>>
    <3>1. <<r, y>> \in Source \X AnyItem
      OBVIOUS
    <3>2. Append(delivered, <<r, y>>)[Len(delivered) + 1] = <<r, y>>
      BY <1>1, <3>1
    <3> QED BY <2>1, <2>3, <3>2
  <2>5. r = s /\ delivered'[i][2] = y /\ y # SourceEOF
    BY <1>5, <2>4
  <2>6. PICK k \in Due(s) : /\ y = Converted(s, k)
                            /\ \A l \in Due(s) : l < k <=> Came(s, l, Len(delivered))
    BY <2>3, <2>5
  <2>7. Due(s)' = Due(s) /\ \A l : Converted(s, l)' = Converted(s, l)
    BY <2>2 DEF Due, Converted
  <2>8. \A l : Came(s, l, i - 1)' <=> Came(s, l, Len(delivered))
    BY <1>3, <2>1, <2>7 DEF Came
  <2> QED BY <2>5, <2>6, <2>7, <2>8
<1>6. \A i \in 1 .. Len(delivered') : delivered'[i][1] \in Source
  <2>1. \A i \in 1 .. Len(delivered') : i \in 1 .. Len(delivered) \/ i = Len(delivered) + 1
    <3>1. PICK d \in Nat : d = Len(delivered)
      BY <1>1
    <3>2. PICK e \in {d, d + 1} : e = Len(delivered')
      BY <1>3, <3>1
    <3>3. \A h \in 1 .. e : h \in 1 .. d \/ h = d + 1
      OBVIOUS
    <3> QED BY <3>1, <3>2, <3>3
  <2>2. delivered' # delivered => delivered'[Len(delivered) + 1][1] \in Source
    BY <1>1, Delivers
  <2> QED BY <1>2, <1>3, <2>1, <2>2
<1> QED BY <1>3, <1>4, <1>5, <1>6 DEF InOrder

\* A source that ended has had all its items delivered.
LEMMA EndsNext ==
  ASSUME MergeTypes, MergedWhole, \A s \in Source : Flows(s), MergeNext
  PROVE  EndsAfterAll'
<1> SUFFICES ASSUME NEW s \in Source, s \notin nonClosed', NEW k \in Due(s)'
             PROVE  Came(s, k, Len(delivered))'
  BY DEF EndsAfterAll
<1>0. InOrder /\ EndsAfterAll
  BY DEF MergedWhole
<1>1. \A j \in 1 .. Len(delivered) : delivered'[j] = delivered[j] /\ j \in 1 .. Len(delivered')
  <2>1. delivered \in Seq(Source \X AnyItem) /\ Len(delivered) \in Nat
    BY DEF MergeTypes
  <2> QED BY <2>1, Delivers
<1>2. NoMore(s) /\ (k \in Due(s) => Came(s, k, Len(delivered)))
  <2>1. CASE s \notin nonClosed
    BY <1>0, <2>1 DEF Flows, EndsAfterAll
  <2>2. CASE s \in nonClosed
    <3>1. Ends(s)
      BY <2>2 DEF MergeNext, Writing, Send, Select, Pumping, PumpRecv, PumpSend, PumpSelect,
           PumpClose, Receive, Ends, Recv, EndOfAll, Close, others, rest, threads, mergeVars
    <3> QED BY <3>1, EndsDone
  <2> QED BY <2>1, <2>2
<1>3. k \in Due(s) /\ Converted(s, k)' = Converted(s, k)
  BY <1>0, <1>2, Adding
<1> QED BY <1>1, <1>2, <1>3 DEF Came

\* Nothing is sent at first.
LEMMA MergeInitInv == Init => MergeInv
<1> SUFFICES ASSUME Init PROVE MergeInv
  OBVIOUS
<1> USE MergeAssumption
<1>1. newStream \in AnyStream /\ Failure \in AnyItem /\ newStream.items = <<>>
      /\ ~newStream.ended /\ ~newStream.closed
  BY DEF newStream, AnyStream, Failure, AnyItem
<1>2. MergeTypes
  BY <1>1 DEF Init, MergeInit, MergeTypes
<1>3. \A s \in Source : /\ sent[s] = <<>> /\ stream(s).items = <<>> /\ raw[s].items = <<>>
                        /\ ~raw[s].ended /\ writer[s] = "idle" /\ s \in nonClosed
                        /\ s \in Pumped => pump[s] = "recv" /\ ~merged[s].ended /\ ~merged[s].closed
  BY <1>1 DEF Init, MergeInit, stream
<1>4. delivered = <<>> /\ nonClosed = Source
  BY DEF Init, MergeInit
<1>5. MergedWhole
  BY <1>4 DEF MergedWhole, InOrder, EndsAfterAll
<1>6. ASSUME NEW s \in Source PROVE Flows(s)
  <2>1. Due(s) = {} /\ Len(sent[s]) = 0 /\ Len(stream(s).items) = 0 /\ Taken(s) = 0
    BY <1>3 DEF Due, Taken
  <2>2. Written(s)
    BY <1>3, <2>1 DEF Written
  <2>3. Queued(s) /\ AllPassed(s)
    BY <2>1 DEF Queued, AllPassed
  <2>4. s \in Pumped => PumpAt(s)
    BY <1>3, <2>1 DEF PumpAt
  <2> QED BY <1>3, <2>2, <2>3, <2>4 DEF Flows
<1> QED BY <1>2, <1>5, <1>6 DEF MergeInv

\* Every step keeps what is merged in order.
LEMMA MergeNextInv == MergeInv /\ [Next]_vars => MergeInv'
<1> SUFFICES ASSUME MergeInv, [Next]_vars PROVE MergeInv'
  OBVIOUS
<1>1. MergeTypes /\ MergedWhole /\ (\A s \in Source : Flows(s)) /\ InOrder
  BY DEF MergeInv, MergedWhole
<1>2. MergeNext
  BY StepsOfMerge
<1>3. MergeTypes'
  BY <1>1, <1>2, MergeTypesNext DEF Flows
<1>4. MergedWhole'
  BY <1>1, <1>2, OrderNext, EndsNext DEF MergedWhole
<1>5. \A s \in Source : Flows(s)'
  BY <1>1, <1>2, FlowsNext
<1> QED BY <1>3, <1>4, <1>5 DEF MergeInv

\* Whatever the writers send, the convert functions do, the pumps have come to
\* and the select chooses, and whenever the readers are closed: what a merge
\* returns is, of every source, the chunks due in order and without a gap, and
\* a source ends only after the last of them (stream.go:513-549, 642-665).
THEOREM MergeCorrect == Spec => []MergedWhole
<1>1. MergeInv => MergedWhole
  BY DEF MergeInv
<1>2. Init => MergeInv
  BY MergeInitInv
<1>3. MergeInv /\ [Next]_vars => MergeInv'
  BY MergeNextInv
<1> QED BY <1>1, <1>2, <1>3, PTL DEF Spec

=============================================================================
