----------------------------- MODULE ChatProofs -----------------------------
(***************************************************************************)
(* The conversation of examples/simple-chatbot is kept, and a bubble of    *)
(* the page shows one answer, for any number of sessions, sockets,         *)
(* messages and chunks: ConversationKept and OneAnswerPerBubble are        *)
(* invariants of ChatApp.                                                  *)
(***************************************************************************)
EXTENDS ChatApp, SequenceTheorems, FiniteSetTheorems, TLAPS

TurnRecord ==
  [pc : {"new", "get", "NOT_JOINED", "CHAT_ERROR", "read", "stream", "append", "done", "end"},
   socket : Socket \union {None}, session : Session \union {None},
   loaded : SUBSET {"array", "length"}, array : Seq(Message), length : Nat,
   chunks : Nat, due : SUBSET Turn]

Types ==
  /\ sessions \subseteq created /\ created \subseteq Session
  /\ history \in [Session -> Seq(Message)]
  /\ turn \in [Turn -> TurnRecord]
  /\ told \in [Session -> SUBSET Turn]
  /\ forgotten \in [Session -> SUBSET Turn]

\* The first n messages of a history have every turn of a set.
Has(h, n, D) == \A t \in D : \E i \in 1 .. n : h[i][2] = t

Prefix(a, h) == Len(a) <= Len(h) /\ \A i \in 1 .. Len(a) : a[i] = h[i]

\* Where a turn is, and that it is in no history before it was appended.
Begun(t) ==
  /\ turn[t].pc = "new" => turn[t].session = None
  /\ turn[t].pc \in {"new", "get"} => turn[t].loaded = {} /\ turn[t].due = {}
  /\ turn[t].session # None => turn[t].session \in created
  /\ turn[t].pc \in {"get", "read", "stream", "append", "done"} => turn[t].session # None
  /\ \A s \in Session : \A i \in 1 .. Len(history[s]) :
       history[s][i][2] = t => turn[t].session = s /\ turn[t].pc \in {"done", "end"}

\* A turn that is about to be reported is in the history unless somebody
\* cleared it.
Reported(t) ==
  LET s == turn[t].session IN
    turn[t].pc = "done" /\ s \in sessions /\ t \notin forgotten[s]
      => Has(history[s], Len(history[s]), {t})

\* What a turn has read has the turns that were done when it began.
Due(t) ==
  LET s == turn[t].session
      h == history[s]
  IN turn[t].due # {} =>
       /\ s \in Session
       /\ Has(h, Len(h), turn[t].due)
       /\ "array" \in turn[t].loaded =>
            Prefix(turn[t].array, h) /\ Has(h, Len(turn[t].array), turn[t].due)
       /\ "length" \in turn[t].loaded =>
            turn[t].length <= Len(h) /\ Has(h, turn[t].length, turn[t].due)

\* What clients were told is in the histories.
Told(s) ==
  /\ s \in sessions => Has(history[s], Len(history[s]), told[s])
  /\ s \notin created => told[s] = {}

\* What the handlers of a socket have of sessions was created.
Stored ==
  /\ socketSessions \in [Socket -> created \union {None}]
  /\ joining \in [Socket -> [pc : {"idle", "store", "joined", "SESSION_NOT_FOUND"},
                              session : created \union {None}]]
  /\ clearing \in [Socket -> [pc : {"idle", "clear", "cleared", "NOT_JOINED", "SESSION_ERROR"},
                               session : created \union {None}]]

\* What the page sends.
Page ==
  /\ conn \in Nat /\ conn <= Len(Connection) /\ online \subseteq Socket
  /\ typed \in Nat /\ typed <= Len(Chats)
  /\ up \in Seq({"join", "chat", "clear"})
  /\ typed = 0 => \A i \in 1 .. Len(up) : up[i] # "chat"

Kept ==
  /\ Types
  /\ \A t \in Turn : Begun(t) /\ Reported(t) /\ Due(t)
  /\ \A s \in Session : Told(s)
  /\ WholeTurns

core == <<created, sessions, history, turn, told, forgotten>>

-----------------------------------------------------------------------------
(* Histories. *)

\* The two messages of a turn.
LEMMA PairTwo ==
  \A t \in Turn : /\ Pair(t) \in Seq(Message) /\ Len(Pair(t)) = 2
                  /\ Pair(t)[1] = <<"user", t>> /\ Pair(t)[2] = <<"assistant", t>>
BY DEF Pair, Message

\* A history and the two messages of a turn (AppendHistory).
LEMMA PairAppended ==
  ASSUME NEW h \in Seq(Message), NEW t \in Turn
  PROVE  /\ h \o Pair(t) \in Seq(Message) /\ Len(h \o Pair(t)) = Len(h) + 2
         /\ \A i \in 1 .. Len(h) : (h \o Pair(t))[i] = h[i]
         /\ (h \o Pair(t))[Len(h) + 1] = <<"user", t>>
         /\ (h \o Pair(t))[Len(h) + 2] = <<"assistant", t>>
<1>. DEFINE p == Pair(t)
            g == h \o p
<1>1. p \in Seq(Message) /\ Len(p) = 2 /\ p[1] = <<"user", t>> /\ p[2] = <<"assistant", t>>
  BY PairTwo
<1>. HIDE DEF p
<1>2. /\ g \in Seq(Message) /\ Len(g) = Len(h) + Len(p)
      /\ \A i \in 1 .. Len(h) + Len(p) : g[i] = IF i <= Len(h) THEN h[i] ELSE p[i - Len(h)]
  BY <1>1, ConcatProperties, Zenon
<1>. HIDE DEF g
<1>3. /\ Len(g) = Len(h) + 2 /\ \A i \in 1 .. Len(h) : g[i] = h[i]
      /\ g[Len(h) + 1] = <<"user", t>> /\ g[Len(h) + 2] = <<"assistant", t>>
  <2>1. Len(g) = Len(h) + 2 /\ Len(h) \in Nat
    BY <1>1, <1>2
  <2>2. \A i \in 1 .. Len(h) : g[i] = h[i]
    BY <1>1, <1>2, <2>1
  <2>3. \A i \in 1 .. Len(h) + 2 : g[i] = IF i <= Len(h) THEN h[i] ELSE p[i - Len(h)]
    BY <1>1, <1>2
  <2>4. g[Len(h) + 1] = p[1]
    BY <2>1, <2>3
  <2>5. g[Len(h) + 2] = p[2]
    BY <2>1, <2>3
  <2>. QED
    BY <1>1, <2>1, <2>4, <2>5, <2>2
<1>. QED
  BY <1>2, <1>3 DEF g, p

\* Sequences of two.
LEMMA TwoEqual ==
  ASSUME NEW p \in Seq(Message), NEW q \in Seq(Message), Len(p) = 2, Len(q) = 2,
         p[1] = q[1], p[2] = q[2]
  PROVE  p = q
BY SeqEqual

\* A history of whole turns to which a new turn is appended has whole turns.
LEMMA WholeStays ==
  ASSUME NEW h \in Seq(Message), NEW t \in Turn,
         Len(h) % 2 = 0, IsInjective(h),
         \A i \in 1 .. Len(h) \div 2 : \E u \in Turn : SubSeq(h, 2 * i - 1, 2 * i) = Pair(u),
         \A i \in 1 .. Len(h) : h[i][2] # t
  PROVE  LET g == h \o Pair(t) IN
           /\ Len(g) % 2 = 0 /\ IsInjective(g)
           /\ \A i \in 1 .. Len(g) \div 2 : \E u \in Turn : SubSeq(g, 2 * i - 1, 2 * i) = Pair(u)
<1>. DEFINE g == h \o Pair(t)
            n == Len(h)
<1>1. /\ g \in Seq(Message) /\ Len(g) = n + 2 /\ n \in Nat
      /\ \A i \in 1 .. n : g[i] = h[i]
      /\ g[n + 1] = <<"user", t>> /\ g[n + 2] = <<"assistant", t>>
  BY PairAppended
<1>. HIDE DEF g
<1>2. Len(g) % 2 = 0
  BY <1>1
<1>3. IsInjective(g)
  <2>. SUFFICES ASSUME NEW i \in 1 .. n + 2, NEW j \in 1 .. n + 2, g[i] = g[j]
               PROVE  i = j
    BY <1>1 DEF IsInjective
  <2>1. g[n + 1][1] # g[n + 2][1] /\ g[n + 1][2] = t /\ g[n + 2][2] = t
    BY <1>1
  <2>2. CASE i \in 1 .. n /\ j \in 1 .. n
    BY <1>1, <2>2 DEF IsInjective
  <2>3. CASE i \in 1 .. n /\ j \in {n + 1, n + 2}
    BY <1>1, <2>1, <2>3
  <2>4. CASE j \in 1 .. n /\ i \in {n + 1, n + 2}
    BY <1>1, <2>1, <2>4
  <2>5. CASE i \in {n + 1, n + 2} /\ j \in {n + 1, n + 2}
    BY <2>1, <2>5
  <2>6. \A k \in 1 .. n + 2 : k \in 1 .. n \/ k \in {n + 1, n + 2}
    <3>1. n \in Nat
      BY <1>1
    <3>. QED
      BY <3>1
  <2>. QED
    BY <2>2, <2>3, <2>4, <2>5, <2>6
<1>4. ASSUME NEW i \in 1 .. Len(g) \div 2
      PROVE  \E u \in Turn : SubSeq(g, 2 * i - 1, 2 * i) = Pair(u)
  <2>1. Len(SubSeq(g, 2 * i - 1, 2 * i)) = 2 /\ SubSeq(g, 2 * i - 1, 2 * i) \in Seq(Message)
        /\ SubSeq(g, 2 * i - 1, 2 * i)[1] = g[2 * i - 1]
        /\ SubSeq(g, 2 * i - 1, 2 * i)[2] = g[2 * i]
    BY <1>1
  <2>2. CASE i \in 1 .. n \div 2
    <3>1. PICK u \in Turn : SubSeq(h, 2 * i - 1, 2 * i) = Pair(u)
      BY <2>2
    <3>2. 2 * i - 1 \in 1 .. n /\ 2 * i \in 1 .. n /\ 2 * i - 1 \in Int /\ 2 * i \in Int
      <4>1. n \in Nat /\ i \in Nat /\ 1 <= i /\ i <= n \div 2
        BY <1>1, <2>2
      <4>2. 2 * i <= n
        BY <4>1
      <4>. QED
        BY <4>1, <4>2
    <3>3. SubSeq(h, 2 * i - 1, 2 * i)[1] = h[2 * i - 1]
          /\ SubSeq(h, 2 * i - 1, 2 * i)[2] = h[2 * i]
      <4>1. ASSUME NEW m \in 1 .. Len(h), m + 1 \in 1 .. Len(h)
            PROVE  SubSeq(h, m, m + 1)[1] = h[m] /\ SubSeq(h, m, m + 1)[2] = h[m + 1]
        BY <4>1
      <4>2. (2 * i - 1) + 1 = 2 * i
        BY <3>2
      <4>. QED
        BY <3>2, <4>1, <4>2
    <3>4. g[2 * i - 1] = h[2 * i - 1] /\ g[2 * i] = h[2 * i]
      BY <1>1, <3>2
    <3>5. SubSeq(g, 2 * i - 1, 2 * i) = Pair(u)
      BY ZenonT(60), <2>1, <3>1, <3>3, <3>4, PairTwo, TwoEqual
    <3>. QED
      BY <3>5
  <2>3. CASE i \notin 1 .. n \div 2
    <3>1. 2 * i = n + 2
      BY <1>1, <2>3
    <3>2. 2 * i - 1 = n + 1
      BY <1>1, <3>1
    <3>3. SubSeq(g, 2 * i - 1, 2 * i)[1] = <<"user", t>>
          /\ SubSeq(g, 2 * i - 1, 2 * i)[2] = <<"assistant", t>>
      BY <1>1, <2>1, <3>1, <3>2
    <3>4. SubSeq(g, 2 * i - 1, 2 * i) = Pair(t)
      BY <2>1, <3>3, PairTwo, TwoEqual
    <3>. QED
      BY <3>4
  <2>. QED
    BY <2>2, <2>3
<1>. QED
  BY <1>2, <1>3, <1>4 DEF g

-----------------------------------------------------------------------------
(* The page. *)

\* Here is a socket, and what the page sends next is a turn.
LEMMA PageSends ==
  ASSUME Page, Deliver
  PROVE  /\ Here \in Socket /\ Head(up) \in {"join", "chat", "clear"}
         /\ Head(up) = "chat" => Chats[typed] \in Turn
<1>1. Here \in Socket /\ Head(up) \in {"join", "chat", "clear"} /\ up # <<>>
  BY DEF Page, Deliver, Connected
<1>2. ASSUME Head(up) = "chat"
      PROVE  Chats[typed] \in Turn
  <2>1. 1 \in 1 .. Len(up) /\ up[1] = "chat"
    BY <1>1, <1>2 DEF Page
  <2>2. typed \in 1 .. Len(Chats)
    BY <2>1 DEF Page
  <2>. QED
    BY <2>2, AppAssumption
<1>. QED
  BY <1>1, <1>2

\* The page sends a chat only after the user typed it.
LEMMA PageStep == Page /\ [Next]_vars => Page'
<1>. SUFFICES ASSUME Page, [Next]_vars
             PROVE  Page'
  OBVIOUS
<1>. USE DEF Page
<1>1. CASE createSession
  BY <1>1 DEF createSession
<1>2. CASE sendMessage
  <2>1. typed' = typed + 1 /\ up' = Append(up, "chat") /\ typed < Len(Chats)
        /\ UNCHANGED <<conn, online>>
    BY <1>2 DEF sendMessage, serverVars
  <2>2. Len(Chats) \in Nat
    BY AppAssumption
  <2>. QED
    BY <2>1, <2>2
<1>3. CASE clearHistory
  <2>1. up' = Append(up, "clear") /\ UNCHANGED <<conn, online, typed>>
    BY <1>3 DEF clearHistory, serverVars
  <2>. QED
    BY <2>1
<1>4. CASE Open
  <2>1. Connection[conn + 1] \in Socket
    BY <1>4, AppAssumption DEF Open
  <2>2. online' = online \union {Connection[conn + 1]} /\ conn' = conn + 1 /\ up' = <<"join">>
        /\ typed' = typed /\ conn + 1 <= Len(Connection)
    BY <1>4, AppAssumption DEF Open, Connect
  <2>. QED
    BY <2>1, <2>2
<1>5. CASE Lose
  BY <1>5 DEF Lose, Disconnect
<1>6. CASE Deliver
  <2>1. UNCHANGED <<online, conn, typed>> /\ up' = Tail(up) /\ up # <<>>
    BY <1>6, PageSends DEF Deliver, handleJoin, handleChat, handleClear
  <2>. QED
    BY <2>1
<1>7. CASE OnEvent
  BY <1>7 DEF OnEvent, OnJoined, handleChunk, handleDone, handleError, OnCleared, On, Take
<1>8. CASE Server
  BY <1>8 DEF Server, Handler, HandleTurn, GetSession, EmitError, LoadArray, LoadLength, Stream,
     RecvChunk, RecvEOF, RecvError, AppendHistory, EmitDone, JoinGoesOn, StoreSession, EmitJoined,
     ClearGoesOn, ClearSession, EmitCleared, pageVars
<1>9. CASE Others
  BY <1>9 DEF Others, Delete, Clear, pageVars
<1>10. CASE UNCHANGED vars
  BY <1>10 DEF vars, serverVars, pageVars
<1>. QED
  BY <1>1, <1>2, <1>3, <1>4, <1>5, <1>6, <1>7, <1>8, <1>9, <1>10 DEF Next

-----------------------------------------------------------------------------
(* The server. *)

Makes(s) ==
  /\ s \notin created
  /\ created' = created \union {s} /\ sessions' = sessions \union {s}
  /\ UNCHANGED <<history, turn, told, forgotten>>

\* What a step of the page or the server may do to sessions and turns.
LEMMA Kinds ==
  ASSUME Page, Types, [Next]_vars
  PROVE  \/ UNCHANGED core
         \/ \E s \in Session : Makes(s) \/ Delete(s) \/ ClearHistory(s)
         \/ \E k \in Socket, t \in Turn : handleChat(k, t)
         \/ \E t \in Turn : HandleTurn(t)
<1>1. CASE createSession
  BY <1>1 DEF createSession, Makes
<1>2. CASE Deliver
  <2>1. CASE Head(up) = "join"
    BY <1>2, <2>1 DEF Deliver, handleJoin, core, store
  <2>2. CASE Head(up) = "chat"
    BY <1>2, <2>2, PageSends DEF Deliver
  <2>3. CASE Head(up) = "clear"
    BY <1>2, <2>3 DEF Deliver, handleClear, core, store
  <2>. QED
    BY <1>2, <2>1, <2>2, <2>3, PageSends
<1>3. CASE sendMessage \/ clearHistory \/ Open \/ Lose
  BY <1>3 DEF sendMessage, clearHistory, Open, Lose, Connect, Disconnect, serverVars, store, core
<1>4. CASE OnEvent
  BY <1>4 DEF OnEvent, OnJoined, handleChunk, handleDone, handleError, OnCleared, On, Take, store,
     core
<1>5. CASE Server
  <2>1. CASE \E k \in Socket : JoinGoesOn(k) \/ EmitCleared(k)
    BY <2>1 DEF JoinGoesOn, StoreSession, EmitJoined, EmitCleared, store, core
  <2>2. CASE \E k \in Socket : ClearSession(k)
    <3>1. PICK k \in Socket : ClearSession(k)
      BY <2>2
    <3>2. UNCHANGED core \/ ClearHistory(clearing[k].session)
      BY <3>1 DEF ClearSession, core, store
    <3>. QED
      BY ZenonT(60), <3>2 DEF ClearHistory, Types
  <2>. QED
    BY <1>5, <2>1, <2>2 DEF Server, Handler, ClearGoesOn
<1>6. CASE Others
  BY <1>6 DEF Others, Clear
<1>7. CASE UNCHANGED vars
  BY <1>7 DEF vars, serverVars, core
<1>. QED
  BY <1>1, <1>2, <1>3, <1>4, <1>5, <1>6, <1>7 DEF Next

\* At first there are no sessions and no turn has begun.
LEMMA ChatInitial == Init => Kept /\ Stored /\ Page
<1>. SUFFICES ASSUME Init
             PROVE  Kept /\ Stored /\ Page
  OBVIOUS
<1>. USE DEF Init, ServerInit
<1>1. \A s \in Session : history[s] = <<>> /\ Len(history[s]) = 0 /\ told[s] = {}
  OBVIOUS
<1>2. Types
  BY DEF Types, TurnRecord, NewTurn
<1>3. \A t \in Turn : Begun(t) /\ Reported(t) /\ Due(t)
  BY <1>1 DEF Begun, Reported, Due, NewTurn
<1>4. \A s \in Session : Told(s)
  BY <1>1 DEF Told
<1>5. WholeTurns
  <2>1. \A s \in Session : IsInjective(history[s])
    BY <1>1 DEF IsInjective
  <2>. QED
    BY <1>1, <2>1 DEF WholeTurns
<1>6. Page
  BY AppAssumption DEF Page
<1>7. Stored
  BY DEF Stored, AtRest
<1>. QED
  BY <1>2, <1>3, <1>4, <1>5, <1>6, <1>7 DEF Kept

\* A session is made (Create), with nothing to keep.
LEMMA MakesStep ==
  ASSUME Kept, NEW s \in Session, Makes(s)
  PROVE  Kept'
<1>. USE DEF Makes
<1>1. Types'
  BY DEF Kept, Types
<1>2. ASSUME NEW t \in Turn
      PROVE  (Begun(t) /\ Reported(t) /\ Due(t))'
  BY <1>2 DEF Kept, Types, Begun, Reported, Due
<1>3. ASSUME NEW r \in Session
      PROVE  Told(r)'
  BY <1>3 DEF Kept, Told, Has
<1>4. WholeTurns'
  BY DEF Kept, WholeTurns
<1>. QED
  BY <1>1, <1>2, <1>3, <1>4 DEF Kept

\* Delete: a session that is gone does not come back.
LEMMA DeleteStep ==
  ASSUME Kept, NEW s \in Session, Delete(s)
  PROVE  Kept'
<1>. USE DEF Delete
<1>1. Types'
  BY DEF Kept, Types
<1>2. ASSUME NEW t \in Turn
      PROVE  (Begun(t) /\ Reported(t) /\ Due(t))'
  BY <1>2 DEF Kept, Begun, Reported, Due
<1>3. ASSUME NEW r \in Session
      PROVE  Told(r)'
  BY <1>3 DEF Kept, Told
<1>4. WholeTurns'
  BY DEF Kept, WholeTurns
<1>. QED
  BY <1>1, <1>2, <1>3, <1>4 DEF Kept

\* ClearHistory: nothing is due any more, and turns yet to be told are forgotten.
LEMMA ClearStep ==
  ASSUME Kept, NEW s \in Session, ClearHistory(s)
  PROVE  Kept'
<1>1. Types /\ s \in sessions /\ UNCHANGED <<created, sessions>>
  BY DEF Kept, ClearHistory
<1>2. \A t \in Turn : turn'[t] = IF turn[t].session = s THEN [turn[t] EXCEPT !.due = {}]
                                ELSE turn[t]
  BY DEF ClearHistory
<1>3. \A t \in Turn : /\ turn[t] \in TurnRecord /\ turn'[t] \in TurnRecord
                      /\ turn'[t].pc = turn[t].pc /\ turn'[t].session = turn[t].session
                      /\ turn'[t].loaded = turn[t].loaded
                      /\ turn'[t].array = turn[t].array /\ turn'[t].length = turn[t].length
                      /\ turn'[t].due = IF turn[t].session = s THEN {} ELSE turn[t].due
  <2>. SUFFICES ASSUME NEW t \in Turn
               PROVE  /\ turn[t] \in TurnRecord /\ turn'[t] \in TurnRecord
                      /\ turn'[t].pc = turn[t].pc /\ turn'[t].session = turn[t].session
                      /\ turn'[t].loaded = turn[t].loaded
                      /\ turn'[t].array = turn[t].array /\ turn'[t].length = turn[t].length
                      /\ turn'[t].due = IF turn[t].session = s THEN {} ELSE turn[t].due
    OBVIOUS
  <2>1. turn[t] \in TurnRecord
    BY <1>1 DEF Types
  <2>2. CASE turn[t].session = s
    BY <1>2, <2>1, <2>2 DEF TurnRecord
  <2>3. CASE turn[t].session # s
    BY <1>2, <2>1, <2>3
  <2>. QED
    BY <2>2, <2>3
<1>4. \A r \in Session : /\ history'[r] = IF r = s THEN <<>> ELSE history[r]
                         /\ told'[r] = IF r = s THEN {} ELSE told[r]
                         /\ r # s => forgotten'[r] = forgotten[r]
  BY <1>1 DEF Types, ClearHistory
<1>5. \A t \in Turn : turn[t].session = s /\ turn[t].pc = "done" => t \in forgotten'[s]
  BY <1>1 DEF Types, ClearHistory
<1>6. Types'
  BY <1>1, <1>3 DEF Types, ClearHistory
<1>7. Len(<<>>) = 0
  OBVIOUS
<1>8. ASSUME NEW t \in Turn
      PROVE  (Begun(t) /\ Reported(t) /\ Due(t))'
  <2>1. Begun(t) /\ Reported(t) /\ Due(t)
    BY DEF Kept
  <2>2. Begun(t)'
    BY <1>1, <1>3, <1>4, <1>7, <2>1 DEF Begun
  <2>3. Reported(t)'
    BY <1>1, <1>3, <1>4, <1>5, <2>1 DEF Reported, Types
  <2>4. Due(t)'
    BY <1>1, <1>3, <1>4, <2>1 DEF Due
  <2>. QED
    BY <2>2, <2>3, <2>4
<1>9. ASSUME NEW r \in Session
      PROVE  Told(r)'
  <2>1. Told(r)
    BY DEF Kept
  <2>2. CASE r = s
    BY <1>1, <1>4, <2>2 DEF Told, Has
  <2>3. CASE r # s
    BY <1>1, <1>4, <2>1, <2>3 DEF Told
  <2>. QED
    BY <2>2, <2>3
<1>10. WholeTurns'
  <2>. SUFFICES ASSUME NEW r \in Session
               PROVE  /\ Len(history'[r]) % 2 = 0 /\ IsInjective(history'[r])
                      /\ \A i \in 1 .. Len(history'[r]) \div 2 :
                           \E t \in Turn : SubSeq(history'[r], 2 * i - 1, 2 * i) = Pair(t)
    BY DEF WholeTurns
  <2>1. CASE r = s
    <3>1. history'[r] = <<>> /\ IsInjective(<<>>)
      BY <1>4, <2>1 DEF IsInjective
    <3>. QED
      BY <1>7, <3>1
  <2>2. CASE r # s
    BY <1>4, <2>2 DEF Kept, WholeTurns
  <2>. QED
    BY <2>1, <2>2
<1>. QED
  BY <1>6, <1>8, <1>9, <1>10 DEF Kept

\* A chat begins, with the session of its socket.
LEMMA ChatStep ==
  ASSUME Kept, Stored, NEW k \in Socket, NEW t \in Turn, handleChat(k, t)
  PROVE  Kept'
<1>1. Types /\ turn[t].pc = "new" /\ UNCHANGED <<created, sessions, history, told, forgotten>>
  BY DEF Kept, handleChat, store
<1>2. Begun(t) /\ turn[t] \in TurnRecord /\ socketSessions[k] \in created \union {None}
  BY <1>1 DEF Kept, Types, Stored
<1>3. /\ \A u \in Turn \ {t} : turn'[u] = turn[u]
      /\ turn'[t] \in TurnRecord /\ turn'[t].loaded = {} /\ turn'[t].due = {}
      /\ turn'[t].session \in created \union {None}
      /\ turn'[t].pc = IF turn'[t].session = None THEN "NOT_JOINED" ELSE "get"
  BY <1>1, <1>2 DEF handleChat, Types, TurnRecord, Begun
<1>4. Types'
  BY <1>1, <1>3 DEF Types, handleChat
<1>5. None \notin Session
  BY ChatAssumption
<1>6. Begun(t)' /\ Reported(t)' /\ Due(t)'
  BY <1>1, <1>2, <1>3, <1>5 DEF Begun, Reported, Due, Types
<1>7. ASSUME NEW u \in Turn, u # t
      PROVE  (Begun(u) /\ Reported(u) /\ Due(u))'
  <2>1. turn'[u] = turn[u] /\ Begun(u) /\ Reported(u) /\ Due(u)
    BY <1>3, <1>7 DEF Kept
  <2>. QED
    BY <1>1, <2>1 DEF Begun, Reported, Due
<1>8. (\A s \in Session : Told(s))' /\ WholeTurns'
  BY <1>1 DEF Kept, Told, WholeTurns
<1>. QED
  BY <1>4, <1>6, <1>7, <1>8 DEF Kept

\* A handler that goes on without the store: only its turn changes.  What it
\* has read stays due or is gone; what is due to a chat that has found its
\* session is what its client was told.
LEMMA TurnGoesOn ==
  ASSUME Kept, NEW t \in Turn, NEW r \in TurnRecord, turn' = [turn EXCEPT ![t] = r],
         UNCHANGED <<created, sessions, history, told, forgotten>>,
         r.session = turn[t].session,
         turn[t].pc \in {"get", "NOT_JOINED", "CHAT_ERROR", "read", "stream"},
         r.pc \in {"CHAT_ERROR", "read", "stream", "append", "end"},
         r.pc \in {"read", "stream", "append"} => turn[t].pc \in {"get", "read", "stream"},
         \/ r.due = {}
         \/ r.due = told[r.session] /\ r.session \in sessions /\ r.loaded = {}
         \/ r.due = turn[t].due,
         "array" \in r.loaded =>
           \/ "array" \in turn[t].loaded /\ r.array = turn[t].array
           \/ r.array = history[r.session],
         "length" \in r.loaded =>
           \/ "length" \in turn[t].loaded /\ r.length = turn[t].length
           \/ r.length = Len(history[r.session])
  PROVE  Kept'
<1>1. Types /\ turn'[t] = r /\ \A u \in Turn \ {t} : turn'[u] = turn[u]
  BY DEF Kept, Types
<1>2. Types'
  BY <1>1 DEF Types
<1>3. Begun(t) /\ Due(t)
  BY DEF Kept
<1>4. Begun(t)' /\ Reported(t)'
  BY <1>1, <1>3 DEF Begun, Reported
<1>5. Due(t)'
  <2>. SUFFICES ASSUME r.due # {}
               PROVE  Due(t)'
    BY <1>1 DEF Due
  <2>1. CASE r.due = told[r.session] /\ r.session \in sessions /\ r.loaded = {}
    <3>1. r.session \in Session /\ Told(r.session)
      BY <1>1, <2>1 DEF Kept, Types
    <3>. QED
      BY <1>1, <2>1, <3>1 DEF Due, Told
  <2>2. CASE r.due = turn[t].due
    <3>1. r.session \in Session /\ history[r.session] \in Seq(Message)
      BY <1>1, <1>3, <2>2 DEF Due, Types
    <3>2. Has(history[r.session], Len(history[r.session]), r.due)
      BY <1>3, <2>2 DEF Due
    <3>3. "array" \in r.loaded =>
            Prefix(r.array, history[r.session]) /\ Has(history[r.session], Len(r.array), r.due)
      BY <1>3, <2>2, <3>1, <3>2 DEF Due, Prefix
    <3>4. "length" \in r.loaded =>
            r.length <= Len(history[r.session]) /\ Has(history[r.session], r.length, r.due)
      BY <1>3, <2>2, <3>1, <3>2 DEF Due
    <3>. QED
      BY <1>1, <3>1, <3>2, <3>3, <3>4 DEF Due
  <2>. QED
    BY <2>1, <2>2
<1>6. ASSUME NEW u \in Turn, u # t
      PROVE  (Begun(u) /\ Reported(u) /\ Due(u))'
  <2>1. turn'[u] = turn[u] /\ Begun(u) /\ Reported(u) /\ Due(u)
    BY <1>1, <1>6 DEF Kept
  <2>. QED
    BY <2>1 DEF Begun, Reported, Due
<1>7. (\A s \in Session : Told(s))' /\ WholeTurns'
  BY DEF Kept, Told, WholeTurns
<1>. QED
  BY <1>2, <1>4, <1>5, <1>6, <1>7 DEF Kept

\* What a turn keeps when it leaves a function.
LEMMA LeftIs ==
  ASSUME turn \in [Turn -> TurnRecord], NEW t \in Turn,
         NEW p \in {"stream", "append", "end"}
  PROVE  /\ Left(t, p) \in TurnRecord /\ Left(t, p).pc = p /\ Left(t, p).due = {}
         /\ Left(t, p).session = turn[t].session /\ Left(t, p).socket = turn[t].socket
         /\ Left(t, p).loaded = {}
<1>1. turn[t] \in TurnRecord /\ <<>> \in Seq(Message)
  OBVIOUS
<1>2. NewTurn \in TurnRecord /\ NewTurn.due = {} /\ NewTurn.loaded = {}
  BY <1>1 DEF NewTurn, TurnRecord
<1>. QED
  BY <1>1, <1>2 DEF Left, TurnRecord

\* The handler appends the turn to the history it finds, if there is one.
LEMMA AppendStep ==
  ASSUME Kept, NEW t \in Turn, AppendHistory(t)
  PROVE  Kept'
<1>. DEFINE s == turn[t].session
            h == history[s]
<1>1. Types /\ Begun(t) /\ Due(t) /\ turn[t] \in TurnRecord /\ turn[t].pc = "append"
      /\ UNCHANGED <<created, sessions, told, forgotten>>
  BY DEF Kept, Types, AppendHistory
<1>2. s \in Session
  BY <1>1 DEF Begun, Types
<1>3. /\ \A u \in Turn : turn'[u] \in TurnRecord
      /\ \A u \in Turn \ {t} : turn'[u] = turn[u]
      /\ turn'[t].pc = "done" /\ turn'[t].session = s /\ turn'[t].due = turn[t].due
      /\ turn'[t].loaded = turn[t].loaded /\ turn'[t].array = turn[t].array
      /\ turn'[t].length = turn[t].length
  BY <1>1 DEF AppendHistory, Types, TurnRecord
<1>4. turn' \in [Turn -> TurnRecord]
  BY <1>1, <1>3 DEF AppendHistory, Types
<1>5. h \in Seq(Message) /\ \A i \in 1 .. Len(h) : h[i][2] # t
  BY <1>1, <1>2 DEF Types, Begun
<1>6. CASE s \notin sessions
  <2>1. history' = history
    BY <1>6 DEF AppendHistory
  <2>2. Types'
    BY <1>1, <1>4, <2>1 DEF Types
  <2>3. (Begun(t) /\ Reported(t) /\ Due(t))'
    BY <1>1, <1>3, <1>6, <2>1 DEF Begun, Reported, Due
  <2>4. ASSUME NEW u \in Turn, u # t
        PROVE  (Begun(u) /\ Reported(u) /\ Due(u))'
    <3>1. turn'[u] = turn[u] /\ Begun(u) /\ Reported(u) /\ Due(u)
      BY <1>3, <2>4 DEF Kept
    <3>. QED
      BY <1>1, <2>1, <3>1 DEF Begun, Reported, Due
  <2>5. (\A r \in Session : Told(r))' /\ WholeTurns'
    BY <1>1, <2>1 DEF Kept, Told, WholeTurns
  <2>. QED
    BY <2>2, <2>3, <2>4, <2>5 DEF Kept
<1>7. CASE s \in sessions
  <2>. DEFINE g == h \o Pair(t)
  <2>1. \A r \in Session : history'[r] = IF r = s THEN g ELSE history[r]
    BY <1>1, <1>2, <1>7 DEF AppendHistory, Types, Appended
  <2>2. /\ g \in Seq(Message) /\ Len(g) = Len(h) + 2 /\ Len(h) \in Nat
        /\ \A i \in 1 .. Len(h) : g[i] = h[i]
        /\ g[Len(h) + 1][2] = t /\ g[Len(h) + 2][2] = t
    <3>1. /\ g[Len(h) + 1] = <<"user", t>> /\ g[Len(h) + 2] = <<"assistant", t>>
          /\ g \in Seq(Message) /\ Len(g) = Len(h) + 2 /\ \A i \in 1 .. Len(h) : g[i] = h[i]
      BY <1>5, PairAppended
    <3>2. Len(h) \in Nat
      BY <1>5
    <3>. HIDE DEF g
    <3>. QED
      BY <3>1, <3>2
  <2>3. \A i \in 1 .. Len(g) : i \in 1 .. Len(h) \/ g[i][2] = t
    <3>1. \A i \in 1 .. Len(h) + 2 : i \in 1 .. Len(h) \/ i \in {Len(h) + 1, Len(h) + 2}
      <4>1. Len(h) \in Nat
        BY <2>2
      <4>. HIDE DEF h
      <4>. QED
        BY <4>1
    <3>. QED
      BY <2>2, <3>1
  <2>4. /\ Len(g) % 2 = 0 /\ IsInjective(g)
        /\ \A i \in 1 .. Len(g) \div 2 : \E u \in Turn : SubSeq(g, 2 * i - 1, 2 * i) = Pair(u)
    BY <1>2, <1>5, WholeStays DEF Kept, WholeTurns
  <2>5. history' \in [Session -> Seq(Message)]
    BY <1>1, <1>2, <1>7, <2>2 DEF AppendHistory, Types, Appended
  <2>. HIDE DEF g, s
  <2>6. Types'
    BY <1>1, <1>4, <2>5 DEF Types
  <2>7. ASSUME NEW n \in Nat, n <= Len(h), NEW D, Has(h, n, D)
        PROVE  Has(g, n, D) /\ Has(g, Len(g), D)
    <3>1. n <= Len(g) /\ Len(g) \in Nat /\ \A i \in 1 .. n : g[i] = h[i]
      BY <2>2, <2>7
    <3>2. \A i \in 1 .. n : i \in 1 .. Len(g)
      BY <3>1
    <3>. QED
      BY <2>7, <3>1, <3>2 DEF Has
  <2>8. ASSUME NEW a \in Seq(Message), Prefix(a, h)
        PROVE  Prefix(a, g)
    BY <2>2, <2>8 DEF Prefix
  <2>9. ASSUME NEW u \in Turn
        PROVE  (Begun(u) /\ Reported(u) /\ Due(u))'
    <3>1. /\ Begun(u) /\ Reported(u) /\ Due(u) /\ turn[u] \in TurnRecord
          /\ turn'[u].session = turn[u].session /\ turn'[u].due = turn[u].due
          /\ turn'[u].loaded = turn[u].loaded /\ turn'[u].array = turn[u].array
          /\ turn'[u].length = turn[u].length
          /\ IF u = t THEN turn'[u].pc = "done" /\ turn[u].pc = "append"
             ELSE turn'[u].pc = turn[u].pc
      BY <1>1, <1>3 DEF Kept, Types, s
    <3>2. Begun(u)'
      <4>1. ASSUME NEW r \in Session, NEW i \in 1 .. Len(history'[r]), history'[r][i][2] = u
            PROVE  turn'[u].session = r /\ turn'[u].pc \in {"done", "end"}
        <5>1. CASE r = s /\ i \notin 1 .. Len(h)
          BY <1>3, <2>1, <2>3, <4>1, <5>1
        <5>2. CASE r = s /\ i \in 1 .. Len(h)
          BY <2>1, <2>2, <3>1, <4>1, <5>2 DEF Begun
        <5>3. CASE r # s
          BY <2>1, <3>1, <4>1, <5>3 DEF Begun
        <5>. QED
          BY <5>1, <5>2, <5>3
      <4>. QED
        BY <1>1, <3>1, <4>1 DEF Begun
    <3>3. Reported(u)'
      <4>1. CASE u = t
        <5>1. Has(g, Len(g), {t})
          BY <2>2 DEF Has
        <5>. QED
          BY <1>2, <1>3, <2>1, <4>1, <5>1 DEF Reported
      <4>2. CASE u # t /\ turn[u].session = s
        BY <1>1, <1>2, <2>1, <2>2, <2>7, <3>1, <4>2 DEF Reported
      <4>3. CASE u # t /\ turn[u].session # s
        BY <1>1, <2>1, <3>1, <4>3 DEF Reported, Types
      <4>. QED
        BY <4>1, <4>2, <4>3
    <3>4. Due(u)'
      <4>1. CASE turn[u].session = s
        <5>1. turn[u].array \in Seq(Message) /\ turn[u].length \in Nat /\ Len(turn[u].array) \in Nat
          BY <3>1 DEF TurnRecord
        <5>2. turn[u].due # {} /\ "array" \in turn[u].loaded =>
                Prefix(turn[u].array, g) /\ Has(g, Len(turn[u].array), turn[u].due)
          BY <2>7, <2>8, <3>1, <4>1, <5>1 DEF Due, Prefix
        <5>3. turn[u].due # {} /\ "length" \in turn[u].loaded =>
                turn[u].length <= Len(g) /\ Has(g, turn[u].length, turn[u].due)
          BY <2>2, <2>7, <3>1, <4>1, <5>1 DEF Due
        <5>4. turn[u].due # {} => Has(g, Len(g), turn[u].due)
          BY <2>2, <2>7, <3>1, <4>1 DEF Due
        <5>. QED
          BY <1>2, <2>1, <3>1, <4>1, <5>2, <5>3, <5>4 DEF Due
      <4>2. CASE turn[u].session # s
        BY <2>1, <3>1, <4>2 DEF Due
      <4>. QED
        BY <4>1, <4>2
    <3>. QED
      BY <3>2, <3>3, <3>4
  <2>10. ASSUME NEW r \in Session
         PROVE  Told(r)'
    <3>1. Told(r)
      BY DEF Kept
    <3>2. CASE r = s
      BY <1>1, <2>1, <2>2, <2>7, <3>1, <3>2 DEF Told
    <3>3. CASE r # s
      BY <1>1, <2>1, <3>1, <3>3 DEF Told
    <3>. QED
      BY <3>2, <3>3
  <2>11. WholeTurns'
    <3>. SUFFICES ASSUME NEW r \in Session
                 PROVE  /\ Len(history'[r]) % 2 = 0 /\ IsInjective(history'[r])
                        /\ \A i \in 1 .. Len(history'[r]) \div 2 :
                             \E u \in Turn : SubSeq(history'[r], 2 * i - 1, 2 * i) = Pair(u)
      BY DEF WholeTurns
    <3>1. CASE r = s
      BY <2>1, <2>4, <3>1
    <3>2. CASE r # s
      BY <2>1, <3>2 DEF Kept, WholeTurns
    <3>. QED
      BY <3>1, <3>2
  <2>. QED
    BY <2>6, <2>9, <2>10, <2>11 DEF Kept
<1>. QED
  BY <1>6, <1>7

\* The handler of a turn.
LEMMA HandlerStep ==
  ASSUME Kept, NEW t \in Turn, HandleTurn(t)
  PROVE  Kept'
<1>1. Types /\ turn[t] \in TurnRecord /\ Begun(t)
  BY DEF Kept, Types
<1>2. turn[t].pc \in {"get", "read", "stream", "append", "done"} =>
        turn[t].session \in Session /\ history[turn[t].session] \in Seq(Message)
  BY <1>1 DEF Types, Begun
<1>3. CASE LoadArray(t)
  <2>. DEFINE r == [turn[t] EXCEPT !.array = history[turn[t].session],
                                  !.loaded = @ \union {"array"}]
  <2>1. turn' = [turn EXCEPT ![t] = r] /\ turn[t].pc = "read"
        /\ UNCHANGED <<created, sessions, history, told, forgotten>>
    BY <1>1, <1>3 DEF LoadArray, Types, TurnRecord, store
  <2>2. /\ r \in TurnRecord /\ r.session = turn[t].session /\ r.due = turn[t].due
        /\ r.pc = "read" /\ r.array = history[r.session] /\ r.length = turn[t].length
        /\ "length" \in r.loaded => "length" \in turn[t].loaded
    BY <1>1, <1>2, <2>1 DEF TurnRecord
  <2>. HIDE DEF r
  <2>. QED
    BY <2>1, <2>2, TurnGoesOn
<1>4. CASE LoadLength(t)
  <2>. DEFINE r == [turn[t] EXCEPT !.length = Len(history[turn[t].session]),
                                  !.loaded = @ \union {"length"}]
  <2>1. turn' = [turn EXCEPT ![t] = r] /\ turn[t].pc = "read"
        /\ UNCHANGED <<created, sessions, history, told, forgotten>>
    BY <1>1, <1>4 DEF LoadLength, Types, TurnRecord, store
  <2>2. /\ r \in TurnRecord /\ r.session = turn[t].session /\ r.due = turn[t].due
        /\ r.pc = "read" /\ r.length = Len(history[r.session]) /\ r.array = turn[t].array
        /\ "array" \in r.loaded => "array" \in turn[t].loaded
    <3>. DEFINE n == Len(history[turn[t].session])
    <3>1. n \in Nat
      BY <1>2, <2>1
    <3>. HIDE DEF n
    <3>2. r = [turn[t] EXCEPT !.length = n, !.loaded = @ \union {"length"}]
      BY DEF n
    <3>3. /\ r \in TurnRecord /\ r.session = turn[t].session /\ r.due = turn[t].due
          /\ r.pc = turn[t].pc /\ r.length = n /\ r.array = turn[t].array
          /\ "array" \in r.loaded => "array" \in turn[t].loaded
      BY <1>1, <3>1, <3>2 DEF TurnRecord
    <3>. QED
      BY <2>1, <3>3 DEF n
  <2>. HIDE DEF r
  <2>. QED
    BY <2>1, <2>2, TurnGoesOn
<1>5. CASE EmitError(t) \/ Stream(t) \/ RecvEOF(t) \/ RecvError(t)
  <2>1. PICK p \in {"stream", "append", "end"} : turn' = [turn EXCEPT ![t] = Left(t, p)]
    BY <1>5 DEF EmitError, Stream, RecvEOF, RecvError
  <2>. DEFINE r == Left(t, p)
  <2>2. turn[t].pc \in {"NOT_JOINED", "CHAT_ERROR", "read", "stream"}
        /\ UNCHANGED <<created, sessions, history, told, forgotten>>
        /\ (turn[t].pc \in {"NOT_JOINED", "CHAT_ERROR"} => p = "end")
    <3>1. CASE EmitError(t)
      <4>1. turn'[t] = Left(t, "end") /\ turn'[t] = Left(t, p)
        BY <1>1, <2>1, <3>1 DEF EmitError, Types
      <4>2. p = "end"
        BY <1>1, <4>1, LeftIs DEF Types
      <4>. QED
        BY <3>1, <4>2 DEF EmitError, store
    <3>2. CASE Stream(t) \/ RecvEOF(t) \/ RecvError(t)
      BY <3>2 DEF Stream, RecvEOF, RecvError, store
    <3>. QED
      BY <1>5, <3>1, <3>2
  <2>3. /\ r \in TurnRecord /\ r.session = turn[t].session /\ r.due = {}
        /\ r.pc = p /\ r.loaded = {}
    BY <1>1, LeftIs DEF Types
  <2>4. turn' = [turn EXCEPT ![t] = r]
    BY <2>1
  <2>. HIDE DEF r
  <2>. QED
    BY <2>2, <2>3, <2>4, TurnGoesOn
<1>6. CASE RecvChunk(t)
  <2>. DEFINE r == [turn[t] EXCEPT !.chunks = @ + 1]
  <2>1. turn' = [turn EXCEPT ![t] = r] /\ turn[t].pc = "stream"
        /\ UNCHANGED <<created, sessions, history, told, forgotten>>
    BY <1>1, <1>6 DEF RecvChunk, Types, TurnRecord, store
  <2>2. /\ r \in TurnRecord /\ r.session = turn[t].session /\ r.due = turn[t].due
        /\ r.pc = "stream" /\ r.array = turn[t].array /\ r.length = turn[t].length
        /\ r.loaded = turn[t].loaded
    <3>. DEFINE n == turn[t].chunks + 1
    <3>1. n \in Nat
      BY <1>1 DEF TurnRecord
    <3>. HIDE DEF n
    <3>2. r = [turn[t] EXCEPT !.chunks = n]
      BY DEF n
    <3>3. /\ r \in TurnRecord /\ r.session = turn[t].session /\ r.due = turn[t].due
          /\ r.pc = turn[t].pc /\ r.array = turn[t].array /\ r.length = turn[t].length
          /\ r.loaded = turn[t].loaded
      BY <1>1, <3>1, <3>2 DEF TurnRecord
    <3>. QED
      BY <2>1, <3>3
  <2>. HIDE DEF r
  <2>. QED
    BY <2>1, <2>2, TurnGoesOn
<1>7. CASE AppendHistory(t)
  BY <1>7, AppendStep
<1>9. CASE GetSession(t)
  <2>. DEFINE s == turn[t].session
  <2>1. turn[t].pc = "get" /\ turn[t].loaded = {} /\ s \in Session
        /\ UNCHANGED <<created, sessions, history, told, forgotten>>
    BY <1>1, <1>2, <1>9 DEF GetSession, Begun, store
  <2>2. CASE s \in sessions
    <3>. DEFINE r == [turn[t] EXCEPT !.pc = "read", !.due = told[s]]
    <3>1. turn' = [turn EXCEPT ![t] = r]
      BY <1>1, <1>9, <2>2 DEF GetSession, Types, TurnRecord
    <3>2. /\ r \in TurnRecord /\ r.session = s /\ r.due = told[s] /\ r.pc = "read" /\ r.loaded = {}
      BY <1>1, <2>1 DEF Types, TurnRecord
    <3>. HIDE DEF r
    <3>. QED
      BY <2>1, <2>2, <3>1, <3>2, TurnGoesOn
  <2>3. CASE s \notin sessions
    <3>. DEFINE r == [turn[t] EXCEPT !.pc = "CHAT_ERROR"]
    <3>1. turn' = [turn EXCEPT ![t] = r]
      BY <1>1, <1>9, <2>3 DEF GetSession, Types, TurnRecord
    <3>2. /\ r \in TurnRecord /\ r.session = s /\ r.due = turn[t].due /\ r.pc = "CHAT_ERROR"
          /\ r.loaded = {}
      BY <1>1, <2>1 DEF Types, TurnRecord
    <3>. HIDE DEF r
    <3>. QED
      BY <2>1, <3>1, <3>2, TurnGoesOn
  <2>. QED
    BY <2>2, <2>3
<1>8. CASE EmitDone(t)
  <2>. DEFINE s == turn[t].session
  <2>1. s \in Session /\ s \in created /\ turn[t].pc = "done" /\ Reported(t)
        /\ UNCHANGED <<created, sessions, history, forgotten>>
    BY <1>1, <1>2, <1>8 DEF EmitDone, Kept, Begun, store
  <2>2. /\ \A u \in Turn \ {t} : turn'[u] = turn[u]
        /\ turn'[t] = Left(t, "end")
        /\ turn' \in [Turn -> TurnRecord]
    BY <1>1, <1>8, LeftIs DEF EmitDone, Types
  <2>3. turn'[t].pc = "end" /\ turn'[t].session = s /\ turn'[t].due = {}
    BY <1>1, <2>2, LeftIs DEF Types
  <2>4. \/ told' = told
        \/ told' = [told EXCEPT ![s] = @ \union {t}] /\ t \notin forgotten[s]
    BY <1>8 DEF EmitDone
  <2>5. Types'
    <3>1. told' \in [Session -> SUBSET Turn]
      BY <1>1, <2>1, <2>4 DEF Types
    <3>. QED
      BY <1>1, <2>1, <2>2, <3>1 DEF Types
  <2>6. (Begun(t) /\ Reported(t) /\ Due(t))'
    <3>1. Due(t)
      BY DEF Kept
    <3>. QED
      BY <1>1, <2>1, <2>3, <3>1 DEF Begun, Reported, Due
  <2>7. ASSUME NEW u \in Turn, u # t
        PROVE  (Begun(u) /\ Reported(u) /\ Due(u))'
    <3>1. turn'[u] = turn[u] /\ Begun(u) /\ Reported(u) /\ Due(u)
      BY <2>2, <2>7 DEF Kept
    <3>. QED
      BY <2>1, <3>1 DEF Begun, Reported, Due
  <2>8. ASSUME NEW q \in Session
        PROVE  Told(q)'
    <3>1. Told(q)
      BY DEF Kept
    <3>2. CASE told'[q] = told[q]
      BY <2>1, <3>1, <3>2 DEF Told
    <3>3. CASE q = s /\ told'[q] = told[q] \union {t} /\ t \notin forgotten[s]
      BY <2>1, <3>1, <3>3 DEF Told, Reported, Has
    <3>. QED
      BY <1>1, <2>1, <2>4, <3>2, <3>3 DEF Types
  <2>9. WholeTurns'
    BY <2>1 DEF Kept, WholeTurns
  <2>. QED
    BY <2>5, <2>6, <2>7, <2>8, <2>9 DEF Kept
<1>. QED
  BY <1>3, <1>4, <1>5, <1>6, <1>7, <1>8, <1>9 DEF HandleTurn

\* The handlers of sockets have sessions that were created (SessionStore.Get).
LEMMA StoredStep == Kept /\ Page /\ Stored /\ [Next]_vars => Stored'
<1>. SUFFICES ASSUME Kept, Page, Stored, [Next]_vars
             PROVE  Stored'
  OBVIOUS
<1>1. sessions \subseteq created /\ AtRest = [pc |-> "idle", session |-> None]
  BY DEF Kept, Types, AtRest
<1>2. CASE createSession
  BY <1>2 DEF createSession, Stored
<1>3. CASE sendMessage \/ clearHistory \/ OnEvent \/ UNCHANGED vars
  BY <1>3 DEF sendMessage, clearHistory, OnEvent, OnJoined, handleChunk, handleDone, handleError,
     OnCleared, On, Take, vars, serverVars, store, Stored
<1>4. CASE Open \/ Lose
  BY <1>4 DEF Open, Lose, Connect, Disconnect, store, Stored
<1>5. CASE Deliver
  <2>1. PICK k \in Socket : k = Here
    BY <1>5, PageSends
  <2>2. CASE \E t : handleChat(k, t)
    BY <2>2 DEF handleChat, store, Stored
  <2>3. CASE handleJoin(k, sessionId)
    BY <1>1, <2>3 DEF handleJoin, store, Stored
  <2>4. CASE handleClear(k)
    BY <1>1, <2>4 DEF handleClear, store, Stored
  <2>. QED
    BY <1>5, <2>1, <2>2, <2>3, <2>4, PageSends DEF Deliver
<1>6. CASE Server
  <2>1. CASE \E t \in Turn : HandleTurn(t)
    BY <2>1 DEF HandleTurn, GetSession, EmitError, LoadArray, LoadLength, Stream, RecvChunk, RecvEOF,
       RecvError, AppendHistory, EmitDone, store, Stored
  <2>2. CASE \E k \in Socket : JoinGoesOn(k)
    <3>1. PICK k \in Socket : JoinGoesOn(k)
      BY <2>2
    <3>2. joining[k].session \in created \union {None} /\ UNCHANGED <<created, clearing>>
      BY <3>1 DEF JoinGoesOn, StoreSession, EmitJoined, store, Stored
    <3>3. socketSessions' \in [Socket -> created \union {None}]
      BY <3>1, <3>2 DEF JoinGoesOn, StoreSession, EmitJoined, Stored
    <3>4. PICK p \in {"idle", "joined"} :
            joining' = [joining EXCEPT ![k] = [pc |-> p, session |-> None]]
      BY <1>1, <3>1 DEF JoinGoesOn, StoreSession, EmitJoined
    <3>. QED
      BY <3>2, <3>3, <3>4 DEF Stored
  <2>3. CASE \E k \in Socket : ClearGoesOn(k)
    <3>1. PICK k \in Socket : ClearGoesOn(k)
      BY <2>3
    <3>2. UNCHANGED <<created, socketSessions, joining>>
      BY <3>1 DEF ClearGoesOn, ClearSession, EmitCleared, ClearHistory, store
    <3>3. PICK p \in {"idle", "cleared", "SESSION_ERROR"} :
            clearing' = [clearing EXCEPT ![k] = [pc |-> p, session |-> None]]
      BY <1>1, <3>1 DEF ClearGoesOn, ClearSession, EmitCleared
    <3>. QED
      BY <3>2, <3>3 DEF Stored
  <2>. QED
    BY <1>6, <2>1, <2>2, <2>3 DEF Server, Handler
<1>7. CASE Others
  BY <1>7 DEF Others, Delete, Clear, ClearHistory, Stored
<1>. QED
  BY <1>2, <1>3, <1>4, <1>5, <1>6, <1>7 DEF Next

\* Every step of the page and the server keeps the conversation.
LEMMA ChatKept == Kept /\ Stored /\ Page /\ [Next]_vars => Kept'
<1>. SUFFICES ASSUME Kept, Stored, Page, [Next]_vars
             PROVE  Kept'
  OBVIOUS
<1>1. CASE UNCHANGED core
  BY ZenonT(60), <1>1 DEF core, Kept, Types, Begun, Reported, Due, Told, WholeTurns
<1>2. CASE ~UNCHANGED core
  BY <1>2, Kinds, MakesStep, DeleteStep, ClearStep, ChatStep, HandlerStep DEF Kept
<1>. QED
  BY <1>1, <1>2

\* Histories are made of whole turns, and a chat has in its prompt the turns
\* that its client was told are done (ChatStream, AppendHistory, ClearHistory).
THEOREM ConversationCorrect == Spec => []ConversationKept
<1>1. Kept => ConversationKept
  <2>. SUFFICES ASSUME Kept
               PROVE  ConversationKept
    OBVIOUS
  <2>1. ASSUME NEW t \in Turn, HasPrompt(t), ~Torn(t), NEW u \in turn[t].due
        PROVE  u \in Turns(Prompt(t))
    <3>. DEFINE a == turn[t].array
                n == turn[t].length
    <3>1. a \in Seq(Message) /\ n \in Nat /\ n <= Len(a)
      BY <2>1 DEF Kept, Types, TurnRecord, Torn
    <3>2. Prefix(a, history[turn[t].session]) /\ Has(history[turn[t].session], n, turn[t].due)
      BY <2>1 DEF Kept, Due, HasPrompt
    <3>3. PICK i \in 1 .. n : history[turn[t].session][i][2] = u
      BY <2>1, <3>2 DEF Has
    <3>4. i \in 1 .. Len(a) /\ a[i][2] = u
      BY <3>1, <3>2, <3>3 DEF Prefix
    <3>5. Len(SubSeq(a, 1, n)) = n /\ SubSeq(a, 1, n)[i] = a[i]
      BY <3>1, <3>3
    <3>. QED
      BY <3>3, <3>4, <3>5 DEF Turns, Prompt
  <2>. QED
    BY <2>1 DEF Kept, ConversationKept, ContextKept
<1>. QED
  BY <1>1, ChatInitial, ChatKept, StoredStep, PageStep, PTL DEF Spec
-----------------------------------------------------------------------------
(* The answers on the page. *)

PageTypes ==
  /\ out \in [Socket -> Seq(Event)]
  /\ enabled \in BOOLEAN /\ isStreaming \in BOOLEAN
  /\ bubbles \in Seq(SUBSET Turn)
  /\ current \in 0 .. Len(bubbles) /\ (isStreaming => current > 0)

\* What is under way on a socket: handlers that answer, and their events.
Ends(e) == e.type \in {"joined", "done", "error"}
Silent(q) == \A i \in 1 .. Len(q) : q[i].type = "cleared"
Says(q, t) == \E i \in 1 .. Len(q) : q[i].type = "chunk" /\ q[i].turn = t
HasEnd(q) == \E i \in 1 .. Len(q) : Ends(q[i])
EndsLast(q) ==
  \A i \in 1 .. Len(q) : Ends(q[i]) =>
    \A j \in 1 .. Len(q) : j > i => q[j].type = "cleared"
Running(k, t) == turn[t].socket = k /\ turn[t].pc \in {"read", "stream", "append", "done"}
Asked(k, t) == turn[t].socket = k /\ turn[t].pc = "get"
Failed(k, t) == turn[t].socket = k /\ turn[t].pc \in {"NOT_JOINED", "CHAT_ERROR"}
Busy(k, t) == Running(k, t) \/ Asked(k, t)
Idle(k) == joining[k].pc = "idle" /\ \A t \in Turn : ~Busy(k, t)
Active(k, t) == Running(k, t) \/ Says(out[k], t)

\* Requests on their way: a join comes before all others.
Joins(r) == r # <<>> /\ r[1] = "join"
JoinFirst(r) == \A i \in 1 .. Len(r) : r[i] = "join" => i = 1
Asks(r) == \E i \in 1 .. Len(r) : r[i] = "chat"
AsksOnce(r) == \A i, j \in 1 .. Len(r) : r[i] = "chat" /\ r[j] = "chat" => i = j

\* The handlers of a connection have the session of the page.
OfSession(k) ==
  /\ socketSessions[k] \in {None, sessionId}
  /\ joining[k].pc = "store" => joining[k].session = sessionId
  /\ clearing[k].pc = "clear" => clearing[k].session = sessionId
  /\ \A t \in Turn : Asked(k, t) => turn[t].session = sessionId

\* One answer at a time is under way, and it is the one of the bubble in progress.
OneActive(k) ==
  /\ \A t, u \in Turn : Active(k, t) /\ Active(k, u) => t = u
  /\ isStreaming => \A t \in Turn : Active(k, t) => bubbles[current] \subseteq {t}

\* No request fails, and the socket is stored after the join.
Answers(k) ==
  /\ joining[k].pc # "SESSION_NOT_FOUND"
  /\ clearing[k].pc \notin {"NOT_JOINED", "SESSION_ERROR"}
  /\ \A t \in Turn : ~Failed(k, t)
  /\ socketSessions[k] = sessionId \/ Joins(up) \/ joining[k].pc = "store"

\* While the session of the page exists, the input is enabled only when nothing
\* is under way; once it is gone, errors enable it earlier, but no chat is
\* answered any more.
Works == sessionId \in sessions
InTurn(k) ==
  /\ Joins(up) \/ enabled \/ Asks(up) => Silent(out[k]) /\ Idle(k)
  /\ Joins(up) \/ Asks(up) => ~enabled
  /\ Joins(up) => ~Asks(up)
  /\ Asks(up) => ~isStreaming
  /\ AsksOnce(up)
  /\ EndsLast(out[k])
  /\ HasEnd(out[k]) => Idle(k)
  /\ joining[k].pc # "idle" => \A t \in Turn : ~Busy(k, t)
  /\ \A t, u \in Turn : Busy(k, t) /\ Busy(k, u) => t = u
  /\ \A t \in Turn : Asked(k, t) => Silent(out[k]) /\ ~isStreaming
  /\ Answers(k)

OnSocket(k) == OfSession(k) /\ OneActive(k) /\ (Works => InTurn(k))

\* What holds as long as no clear came before its connection had joined.
PageInv ==
  /\ PageTypes
  /\ \A i \in 1 .. Len(bubbles) : \E t \in Turn : bubbles[i] \subseteq {t}
  /\ JoinFirst(up)
  /\ IF Connected THEN OnSocket(Here) ELSE up = <<>> /\ ~enabled

\* One more event.
LEMMA EventAdded ==
  ASSUME NEW q \in Seq(Event), NEW e \in Event
  PROVE  /\ Append(q, e) \in Seq(Event)
         /\ Silent(Append(q, e)) <=> Silent(q) /\ e.type = "cleared"
         /\ \A t : Says(Append(q, e), t) <=> Says(q, t) \/ (e.type = "chunk" /\ e.turn = t)
         /\ HasEnd(Append(q, e)) <=> HasEnd(q) \/ Ends(e)
         /\ EndsLast(q) /\ (e.type = "cleared" \/ ~HasEnd(q)) => EndsLast(Append(q, e))
<1>. DEFINE n == Len(q)
            p == Append(q, e)
<1>1. /\ p \in Seq(Event) /\ n \in Nat /\ Len(p) = n + 1
      /\ \A i \in 1 .. n : p[i] = q[i]
      /\ p[n + 1] = e
  OBVIOUS
<1>. HIDE DEF p, n
<1>2. \A i \in 1 .. n + 1 : i \in 1 .. n \/ i = n + 1
  BY <1>1
<1>3. \A i \in 1 .. n : i \in 1 .. n + 1
  BY <1>1
<1>4. n + 1 \in 1 .. n + 1
  BY <1>1
<1>5. Silent(p) <=> Silent(q) /\ e.type = "cleared"
  BY <1>1, <1>2, <1>3, <1>4 DEF Silent, n
<1>6. \A t : Says(p, t) <=> Says(q, t) \/ (e.type = "chunk" /\ e.turn = t)
  BY <1>1, <1>2, <1>3, <1>4 DEF Says, n
<1>7. HasEnd(p) <=> HasEnd(q) \/ Ends(e)
  BY <1>1, <1>2, <1>3, <1>4 DEF HasEnd, n
<1>8. ASSUME EndsLast(q), e.type = "cleared" \/ ~HasEnd(q)
      PROVE  EndsLast(p)
  <2>. SUFFICES ASSUME NEW i \in 1 .. n + 1, Ends(p[i]), NEW j \in 1 .. n + 1, j > i
               PROVE  p[j].type = "cleared"
    BY <1>1 DEF EndsLast
  <2>1. i \in 1 .. n
    BY <1>1, <1>2
  <2>2. HasEnd(q)
    BY <1>1, <2>1 DEF HasEnd, n
  <2>3. CASE j \in 1 .. n
    BY <1>1, <1>8, <2>1, <2>3 DEF EndsLast, n
  <2>. QED
    BY <1>1, <1>2, <1>8, <2>2, <2>3
<1>. QED
  BY <1>1, <1>5, <1>6, <1>7, <1>8 DEF p

\* One event is taken.
LEMMA EventTaken ==
  ASSUME NEW q \in Seq(Event), q # <<>>
  PROVE  /\ Tail(q) \in Seq(Event) /\ Head(q) \in Event
         /\ Head(q).type = "chunk" => Says(q, Head(q).turn)
         /\ Head(q).type # "cleared" => ~Silent(q)
         /\ Silent(q) => Silent(Tail(q))
         /\ \A t : Says(Tail(q), t) => Says(q, t)
         /\ HasEnd(Tail(q)) => HasEnd(q)
         /\ Ends(Head(q)) => HasEnd(q)
         /\ EndsLast(q) => EndsLast(Tail(q)) /\ (Ends(Head(q)) => Silent(Tail(q)))
<1>. DEFINE n == Len(Tail(q))
            p == Tail(q)
<1>1. /\ p \in Seq(Event) /\ n \in Nat /\ Len(q) = n + 1
      /\ \A i \in 1 .. n : p[i] = q[i + 1]
      /\ Head(q) = q[1] /\ q[1] \in Event
  OBVIOUS
<1>2. n = Len(p)
  OBVIOUS
<1>. HIDE DEF p, n
<1>3. \A i \in 1 .. n : i + 1 \in 1 .. n + 1
  BY <1>1
<1>4. 1 \in 1 .. n + 1
  BY <1>1
<1>5. Head(q).type = "chunk" => Says(q, Head(q).turn)
  BY <1>1, <1>4 DEF Says
<1>6. Head(q).type # "cleared" => ~Silent(q)
  BY <1>1, <1>4 DEF Silent
<1>7. Silent(q) => Silent(p)
  BY <1>1, <1>2, <1>3 DEF Silent
<1>8. \A t : Says(p, t) => Says(q, t)
  BY <1>1, <1>2, <1>3 DEF Says
<1>9. (HasEnd(p) => HasEnd(q)) /\ (Ends(Head(q)) => HasEnd(q))
  BY <1>1, <1>2, <1>3, <1>4 DEF HasEnd
<1>10. ASSUME EndsLast(q)
       PROVE  EndsLast(p) /\ (Ends(Head(q)) => Silent(p))
  <2>1. ASSUME NEW i \in 1 .. n, Ends(p[i]), NEW j \in 1 .. n, j > i
        PROVE  p[j].type = "cleared"
    <3>1. i + 1 \in 1 .. n + 1 /\ j + 1 \in 1 .. n + 1 /\ j + 1 > i + 1
      BY <1>1, <2>1
    <3>. QED
      BY <1>1, <1>10, <2>1, <3>1 DEF EndsLast
  <2>2. ASSUME Ends(Head(q)), NEW j \in 1 .. n
        PROVE  p[j].type = "cleared"
    <3>1. j + 1 \in 1 .. n + 1 /\ j + 1 > 1
      BY <1>1
    <3>. QED
      BY <1>1, <1>4, <1>10, <2>2, <3>1 DEF EndsLast
  <2>. QED
    BY <1>2, <2>1, <2>2 DEF EndsLast, Silent
<1>. QED
  BY <1>1, <1>5, <1>6, <1>7, <1>8, <1>9, <1>10 DEF p

Request == {"join", "chat", "clear"}

\* One more request, and one handled.
LEMMA RequestAdded ==
  ASSUME NEW r \in Seq(Request), NEW x \in Request \ {"join"}
  PROVE  /\ Joins(Append(r, x)) <=> Joins(r)
         /\ JoinFirst(r) => JoinFirst(Append(r, x))
         /\ Asks(Append(r, x)) <=> Asks(r) \/ x = "chat"
         /\ AsksOnce(r) /\ ~(Asks(r) /\ x = "chat") => AsksOnce(Append(r, x))
<1>. DEFINE n == Len(r)
            p == Append(r, x)
<1>1. /\ p \in Seq(Request) /\ n \in Nat /\ Len(p) = n + 1
      /\ \A i \in 1 .. n : p[i] = r[i]
      /\ p[n + 1] = x /\ x # "join" /\ (r = <<>> <=> n = 0) /\ p # <<>>
  OBVIOUS
<1>. HIDE DEF p, n
<1>2. \A i \in 1 .. n + 1 : i \in 1 .. n \/ i = n + 1
  BY <1>1
<1>3. \A i \in 1 .. n : i \in 1 .. n + 1
  BY <1>1
<1>4. n + 1 \in 1 .. n + 1
  BY <1>1
<1>5. Joins(p) <=> Joins(r)
  <2>1. n = 0 => p[1] = x
    BY <1>1
  <2>2. n # 0 => p[1] = r[1]
    BY <1>1
  <2>. QED
    BY <1>1, <2>1, <2>2 DEF Joins
<1>6. JoinFirst(r) => JoinFirst(p)
  BY <1>1, <1>2 DEF JoinFirst, n
<1>7. Asks(p) <=> Asks(r) \/ x = "chat"
  BY <1>1, <1>2, <1>3, <1>4 DEF Asks, n
<1>8. ASSUME AsksOnce(r), ~(Asks(r) /\ x = "chat")
      PROVE  AsksOnce(p)
  <2>. SUFFICES ASSUME NEW i \in 1 .. n + 1, NEW j \in 1 .. n + 1, p[i] = "chat", p[j] = "chat"
               PROVE  i = j
    BY <1>1 DEF AsksOnce
  <2>1. CASE i \in 1 .. n /\ j \in 1 .. n
    BY <1>1, <1>8, <2>1 DEF AsksOnce, n
  <2>2. CASE i = n + 1 \/ j = n + 1
    BY <1>1, <1>2, <1>8, <2>2 DEF Asks, n
  <2>. QED
    BY <1>2, <2>1, <2>2
<1>. QED
  BY <1>1, <1>5, <1>6, <1>7, <1>8 DEF p

\* The first request was handled and leaves the queue.
LEMMA RequestHandled ==
  ASSUME NEW r \in Seq(Request), r # <<>>, JoinFirst(r)
  PROVE  /\ JoinFirst(Tail(r)) /\ ~Joins(Tail(r))
         /\ Head(r) = "join" => Joins(r)
         /\ Head(r) = "chat" => Asks(r)
         /\ Asks(Tail(r)) => Asks(r)
         /\ AsksOnce(r) => AsksOnce(Tail(r)) /\ (Head(r) = "chat" => ~Asks(Tail(r)))
<1>. DEFINE n == Len(Tail(r))
            p == Tail(r)
<1>1. /\ p \in Seq(Request) /\ n \in Nat /\ Len(r) = n + 1
      /\ \A i \in 1 .. n : p[i] = r[i + 1]
      /\ Head(r) = r[1] /\ (p # <<>> => 1 \in 1 .. n)
  OBVIOUS
<1>2. n = Len(p)
  OBVIOUS
<1>. HIDE DEF p, n
<1>3. \A i \in 1 .. n : i + 1 \in 1 .. n + 1 /\ i + 1 # 1
  BY <1>1
<1>4. 1 \in 1 .. n + 1
  BY <1>1
<1>5. \A i \in 1 .. n : p[i] # "join"
  BY <1>1, <1>3 DEF JoinFirst
<1>6. JoinFirst(p) /\ ~Joins(p)
  BY <1>1, <1>2, <1>5 DEF JoinFirst, Joins
<1>7. Head(r) = "join" => Joins(r)
  BY <1>1 DEF Joins
<1>8. (Head(r) = "chat" => Asks(r)) /\ (Asks(p) => Asks(r))
  BY <1>1, <1>2, <1>3, <1>4 DEF Asks
<1>9. ASSUME AsksOnce(r)
      PROVE  AsksOnce(p) /\ (Head(r) = "chat" => ~Asks(p))
  <2>1. ASSUME NEW i \in 1 .. n, NEW j \in 1 .. n, p[i] = "chat", p[j] = "chat"
        PROVE  i = j
    <3>1. i + 1 = j + 1
      BY <1>1, <1>3, <1>9, <2>1 DEF AsksOnce
    <3>. QED
      BY <1>1, <3>1
  <2>2. ASSUME Head(r) = "chat", NEW i \in 1 .. n, p[i] = "chat"
        PROVE  FALSE
    BY <1>1, <1>3, <1>4, <1>9, <2>2 DEF AsksOnce
  <2>. QED
    BY <1>2, <2>1, <2>2 DEF AsksOnce, Asks
<1>. QED
  BY <1>1, <1>6, <1>7, <1>8, <1>9 DEF p

\* Turns of a socket that go on as they were.
TurnsStay(k) ==
  \A t \in Turn : turn[t].socket = k \/ turn'[t].socket = k =>
    /\ turn'[t].socket = turn[t].socket /\ turn'[t].pc = turn[t].pc
    /\ turn'[t].session = turn[t].session

LEMMA TurnsFrame ==
  ASSUME NEW k, TurnsStay(k)
  PROVE  \A t \in Turn : /\ Running(k, t)' <=> Running(k, t)
                         /\ Asked(k, t)' <=> Asked(k, t)
                         /\ Failed(k, t)' <=> Failed(k, t)
                         /\ Busy(k, t)' <=> Busy(k, t)
                         /\ Asked(k, t) => turn'[t].session = turn[t].session
BY DEF TurnsStay, Running, Asked, Failed, Busy

\* A step that does nothing on the socket, and may add a request to clear.
LEMMA QuietStep ==
  ASSUME NEW k \in Socket, OnSocket(k), out'[k] = out[k], TurnsStay(k),
         joining'[k] = joining[k], clearing'[k] = clearing[k],
         socketSessions'[k] = socketSessions[k],
         Joins(up') <=> Joins(up), Asks(up') => Asks(up), AsksOnce(up) => AsksOnce(up'),
         UNCHANGED <<sessionId, enabled, isStreaming, current, bubbles>>,
         Works' => Works
  PROVE  OnSocket(k)'
<1>1. \A t \in Turn : /\ Running(k, t)' <=> Running(k, t)
                      /\ Asked(k, t)' <=> Asked(k, t)
                      /\ Failed(k, t)' <=> Failed(k, t)
                      /\ Busy(k, t)' <=> Busy(k, t)
                      /\ Asked(k, t) => turn'[t].session = turn[t].session
  BY TurnsFrame
<1>2. (Idle(k)' <=> Idle(k)) /\ \A t \in Turn : Active(k, t)' <=> Active(k, t)
  BY <1>1 DEF Idle, Active
<1>3. OfSession(k)'
  BY <1>1 DEF OnSocket, OfSession
<1>4. OneActive(k)'
  BY <1>2 DEF OnSocket, OneActive
<1>5. Works' => InTurn(k)'
  BY <1>1, <1>2 DEF OnSocket, InTurn, Answers
<1>. QED
  BY <1>3, <1>4, <1>5 DEF OnSocket

\* A step of a handler of the socket that emits an event of a join or a clear.
LEMMA EmitStep ==
  ASSUME NEW k \in Socket, OnSocket(k), out[k] \in Seq(Event),
         NEW e \in Event, out'[k] = Append(out[k], e), TurnsStay(k),
         UNCHANGED <<up, sessionId, enabled, isStreaming, current, bubbles, sessions, socketSessions>>,
         \/ joining'[k] = joining[k] /\ clearing'[k] = AtRest
         \/ joining'[k] = AtRest /\ clearing'[k] = clearing[k] /\ joining[k].pc # "store",
         \/ e.type = "cleared" /\ joining'[k] = joining[k]
         \/ Ends(e) /\ ~(Works /\ InTurn(k))
         \/ Ends(e) /\ joining[k].pc # "idle" /\ joining'[k] = AtRest
  PROVE  OnSocket(k)'
<1>1. \A t \in Turn : /\ Running(k, t)' <=> Running(k, t)
                      /\ Asked(k, t)' <=> Asked(k, t)
                      /\ Failed(k, t)' <=> Failed(k, t)
                      /\ Busy(k, t)' <=> Busy(k, t)
                      /\ Asked(k, t) => turn'[t].session = turn[t].session
  BY TurnsFrame
<1>2. /\ Silent(out'[k]) <=> Silent(out[k]) /\ e.type = "cleared"
      /\ \A t : Says(out'[k], t) <=> Says(out[k], t) \/ (e.type = "chunk" /\ e.turn = t)
      /\ HasEnd(out'[k]) <=> HasEnd(out[k]) \/ Ends(e)
      /\ EndsLast(out[k]) /\ (e.type = "cleared" \/ ~HasEnd(out[k])) => EndsLast(out'[k])
  BY EventAdded
<1>3. (Ends(e) => e.type \notin {"chunk", "cleared"}) /\ "chunk" # "cleared"
      /\ (e.type = "cleared" => ~Ends(e))
  BY DEF Ends
<1>4. AtRest.pc = "idle"
  BY DEF AtRest
<1>5. \A t \in Turn : Active(k, t)' => Active(k, t)
  BY <1>1, <1>2, <1>3 DEF Active
<1>6. OneActive(k)'
  BY <1>5 DEF OnSocket, OneActive
<1>7. OfSession(k)'
  BY <1>1, <1>4 DEF OnSocket, OfSession
<1>8. ASSUME Works'
      PROVE  InTurn(k)'
  <2>1. InTurn(k) /\ Works
    BY <1>8 DEF OnSocket, Works
  <2>2. CASE e.type = "cleared" /\ joining'[k] = joining[k]
    <3>1. Idle(k)' <=> Idle(k)
      BY <1>1, <2>2 DEF Idle
    <3>2. Answers(k)'
      BY <1>1, <1>4, <2>1, <2>2 DEF InTurn, Answers
    <3>. QED
      BY <1>1, <1>2, <1>3, <2>1, <2>2, <3>1, <3>2 DEF InTurn
  <2>3. CASE Ends(e) /\ joining[k].pc # "idle" /\ joining'[k] = AtRest
    <3>1. ~Idle(k) /\ \A t \in Turn : ~Busy(k, t)
      BY <2>1, <2>3 DEF Idle, InTurn
    <3>2. Idle(k)'
      BY <1>1, <1>4, <2>3, <3>1 DEF Idle
    <3>3. ~Joins(up) /\ ~enabled /\ ~Asks(up) /\ ~HasEnd(out[k])
      BY <2>1, <3>1 DEF InTurn
    <3>4. Answers(k)'
      BY <1>1, <1>3, <1>4, <2>1, <2>3, <3>3 DEF InTurn, Answers
    <3>5. \A t \in Turn : ~Asked(k, t)
      BY <3>1 DEF Busy
    <3>. QED
      BY <1>1, <1>2, <2>1, <2>3, <3>1, <3>2, <3>3, <3>4, <3>5 DEF InTurn
  <2>. QED
    BY <2>1, <2>2, <2>3
<1>. QED
  BY <1>6, <1>7, <1>8 DEF OnSocket

\* Every session that is there was created, and none is None.
LEMMA NoneGone ==
  ASSUME Kept
  PROVE  None \notin sessions
BY ChatAssumption DEF Kept, Types

\* The user sends a message: nothing is under way.
LEMMA SendStep ==
  ASSUME PageInv, Page, sendMessage
  PROVE  PageInv'
<1>. DEFINE k == Here
<1>1. /\ Connected /\ enabled /\ ~isStreaming /\ up \in Seq(Request)
      /\ up' = Append(up, "chat") /\ enabled' = FALSE
      /\ UNCHANGED <<sessionId, isStreaming, current, bubbles, sessions, socketSessions, joining,
                     clearing, out, turn, online, conn>>
  BY DEF sendMessage, CanSend, serverVars, store, Page, Request
<1>2. /\ Joins(up') <=> Joins(up)
      /\ JoinFirst(up) => JoinFirst(up')
      /\ AsksOnce(up) /\ ~Asks(up) => AsksOnce(up')
  BY <1>1, RequestAdded DEF Request
<1>3. OnSocket(Here)
  BY <1>1 DEF PageInv
<1>4. Connected' /\ Here' = Here
  BY <1>1 DEF Connected, Here
<1>5. PageTypes'
  BY <1>1 DEF PageInv, PageTypes
<1>6. OneActive(Here)' /\ OfSession(Here)'
  BY <1>1, <1>3, <1>4 DEF OnSocket, OneActive, Active, Running, OfSession, Asked
<1>7. ASSUME Works'
      PROVE  InTurn(Here)'
  <2>1. InTurn(Here)
    BY <1>1, <1>3, <1>7 DEF OnSocket, Works
  <2>2. ~Joins(up) /\ ~Asks(up) /\ Silent(out[Here]) /\ Idle(Here)
    BY <1>1, <2>1 DEF InTurn
  <2>3. \A t \in Turn : /\ Busy(Here, t)' <=> Busy(Here, t)
                        /\ Asked(Here, t)' <=> Asked(Here, t)
                        /\ Failed(Here, t)' <=> Failed(Here, t)
    BY <1>1, <1>4 DEF Busy, Running, Asked, Failed
  <2>4. Idle(Here)'
    BY <1>1, <1>4, <2>2, <2>3 DEF Idle
  <2>5. Answers(Here)'
    BY <1>1, <1>2, <1>4, <2>1, <2>3 DEF InTurn, Answers
  <2>. QED
    BY <1>1, <1>2, <1>4, <2>1, <2>2, <2>3, <2>4, <2>5 DEF InTurn
<1>. QED
  BY <1>1, <1>2, <1>3, <1>4, <1>5, <1>6, <1>7 DEF PageInv, OnSocket

\* Nothing has happened yet on a connection that opens.
LEMMA OpenStep ==
  ASSUME PageInv, Page, Open
  PROVE  PageInv'
<1>0. PICK k \in Socket : k = Connection[conn + 1]
  BY AppAssumption DEF Open, Page
<1>1. /\ out[k] = <<>> /\ socketSessions[k] = None /\ joining[k] = AtRest /\ clearing[k] = AtRest
      /\ (\A t \in Turn : turn[t].socket = k => turn[t].pc = "new")
      /\ ~enabled /\ conn' = conn + 1 /\ conn \in Nat /\ online' = online \union {k}
      /\ up' = <<"join">>
      /\ UNCHANGED <<sessionId, isStreaming, current, bubbles, enabled, out, turn, socketSessions,
                     joining, clearing>>
  BY <1>0 DEF Open, Connect, PageInv, Page
<1>2. Connected' /\ Here' = k
  <2>1. conn + 1 > 0
    BY <1>1
  <2>. QED
    BY <1>0, <1>1, <2>1 DEF Connected, Here
<1>3. Silent(<<>>) /\ (\A t : ~Says(<<>>, t)) /\ EndsLast(<<>>) /\ ~HasEnd(<<>>)
  BY DEF Silent, Says, EndsLast, HasEnd
<1>4. JoinFirst(<<"join">>) /\ ~Asks(<<"join">>) /\ AsksOnce(<<"join">>) /\ Joins(<<"join">>)
  BY DEF JoinFirst, Asks, AsksOnce, Joins
<1>5. PageTypes'
  BY <1>1 DEF PageInv, PageTypes
<1>6. \A t \in Turn : ~Running(k, t)' /\ ~Asked(k, t)' /\ ~Failed(k, t)' /\ ~Busy(k, t)'
  BY <1>1 DEF Running, Asked, Failed, Busy
<1>7. OneActive(k)' /\ Idle(k)' /\ OfSession(k)'
  BY <1>1, <1>3, <1>6 DEF OneActive, Active, Idle, OfSession, AtRest
<1>8. InTurn(k)'
  <2>1. Answers(k)'
    BY <1>1, <1>4, <1>6 DEF Answers, AtRest
  <2>. QED
    BY <1>1, <1>3, <1>4, <1>6, <1>7, <2>1 DEF InTurn
<1>9. OneActive(Here)' /\ OfSession(Here)' /\ InTurn(Here)'
  <2>1. \A t \in Turn : /\ Running(Here, t)' <=> Running(k, t)'
                        /\ Asked(Here, t)' <=> Asked(k, t)'
                        /\ Failed(Here, t)' <=> Failed(k, t)'
                        /\ Busy(Here, t)' <=> Busy(k, t)'
    BY <1>2 DEF Running, Asked, Failed, Busy
  <2>. QED
    BY <1>2, <1>7, <1>8, <2>1 DEF OneActive, InTurn, Idle, Active, OfSession, Answers
<1>. QED
  BY <1>1, <1>2, <1>4, <1>5, <1>9 DEF PageInv, OnSocket

\* A connection that ends.
LEMMA EndStep ==
  ASSUME PageInv, createSession \/ Lose
  PROVE  PageInv'
<1>1. /\ ~enabled' /\ up' = <<>> /\ enabled' \in BOOLEAN
      /\ UNCHANGED <<isStreaming, current, bubbles, conn>>
      /\ \/ online' = online \ {Here} /\ out' = [out EXCEPT ![Here] = <<>>]
         \/ online' = online /\ out' = out /\ ~Connected
  BY DEF createSession, Lose, Disconnect
<1>2. ~Connected'
  BY <1>1 DEF Connected, Here
<1>3. PageTypes'
  <2>1. <<>> \in Seq(Event) /\ PageTypes
    BY DEF PageInv
  <2>2. out' \in [Socket -> Seq(Event)]
    BY <1>1, <2>1 DEF PageTypes
  <2>. QED
    BY <1>1, <2>1, <2>2 DEF PageTypes
<1>4. JoinFirst(<<>>)
  BY DEF JoinFirst
<1>. QED
  BY <1>1, <1>2, <1>3, <1>4 DEF PageInv

\* The invariant after a step on the current connection.
LEMMA HereInv ==
  ASSUME NEW k \in Socket, Here' = k, Connected', PageTypes', OnSocket(k)', JoinFirst(up'),
         \A i \in 1 .. Len(bubbles') : \E t \in Turn : bubbles'[i] \subseteq {t}
  PROVE  PageInv'
<1>1. OnSocket(Here)'
  <2>1. \A t \in Turn : /\ Running(Here, t)' <=> Running(k, t)'
                        /\ Asked(Here, t)' <=> Asked(k, t)'
                        /\ Failed(Here, t)' <=> Failed(k, t)'
                        /\ Busy(Here, t)' <=> Busy(k, t)'
    BY DEF Running, Asked, Failed, Busy
  <2>. QED
    BY <2>1 DEF OnSocket, OneActive, InTurn, Idle, Active, OfSession, Answers
<1>. QED
  BY <1>1 DEF PageInv

\* What Emit adds to the events of a socket.
LEMMA Emitted ==
  ASSUME PageTypes, NEW k \in Socket, NEW q, NEW e \in Event, Emit(q, e)
  PROVE  /\ out' \in [Socket -> Seq(Event)]
         /\ q # k => out'[k] = out[k]
         /\ q = k /\ k \in online => out'[k] = Append(out[k], e)
<1>1. \A j \in Socket : Append(out[j], e) \in Seq(Event)
  BY DEF PageTypes
<1>. QED
  BY <1>1 DEF Emit, PageTypes

\* Clearing a history starts and ends nothing.
LEMMA ClearRuns ==
  ASSUME Kept, NEW s, ClearHistory(s), NEW k
  PROVE  TurnsStay(k)
<1>. SUFFICES ASSUME NEW t \in Turn
             PROVE  /\ turn'[t].socket = turn[t].socket /\ turn'[t].pc = turn[t].pc
                    /\ turn'[t].session = turn[t].session
  BY DEF TurnsStay
<1>1. turn[t] \in TurnRecord
  BY DEF Kept, Types
<1>2. turn'[t] = IF turn[t].session = s THEN [turn[t] EXCEPT !.due = {}] ELSE turn[t]
  BY DEF ClearHistory
<1>. QED
  BY <1>1, <1>2 DEF TurnRecord

\* The server begins to handle a request: a join, which nothing precedes, ...
LEMMA DeliverJoin ==
  ASSUME Kept, Stored, NEW k \in Socket, OnSocket(k), handleJoin(k, sessionId), Joins(up),
         ~Joins(up'), Asks(up') => Asks(up), AsksOnce(up) => AsksOnce(up'),
         UNCHANGED <<sessionId, enabled, isStreaming, current, bubbles>>
  PROVE  OnSocket(k)'
<1>1. /\ UNCHANGED <<turn, out, clearing, socketSessions, sessions>>
      /\ joining'[k] = IF Works THEN [pc |-> "store", session |-> sessionId]
                       ELSE [pc |-> "SESSION_NOT_FOUND", session |-> None]
  BY DEF handleJoin, Stored, store, Works, AtRest
<1>2. TurnsStay(k)
  BY <1>1 DEF TurnsStay
<1>3. \A t \in Turn : /\ Running(k, t)' <=> Running(k, t)
                      /\ Asked(k, t)' <=> Asked(k, t)
                      /\ Failed(k, t)' <=> Failed(k, t)
                      /\ Busy(k, t)' <=> Busy(k, t)
  BY <1>2, TurnsFrame
<1>4. OfSession(k)' /\ OneActive(k)'
  BY <1>1, <1>3 DEF OnSocket, OfSession, OneActive, Active
<1>5. ASSUME Works'
      PROVE  InTurn(k)'
  <2>1. InTurn(k) /\ joining'[k].pc = "store"
    BY <1>1, <1>5 DEF OnSocket, Works
  <2>2. ~enabled /\ ~Asks(up) /\ Silent(out[k]) /\ \A t \in Turn : ~Busy(k, t)
    BY <2>1 DEF InTurn, Idle
  <2>3. ~HasEnd(out[k])
    BY <2>2 DEF Silent, HasEnd, Ends
  <2>4. Answers(k)'
    BY <1>1, <1>3, <2>1 DEF InTurn, Answers
  <2>. QED
    BY <1>1, <1>3, <2>1, <2>2, <2>3, <2>4 DEF InTurn
<1>. QED
  BY <1>4, <1>5 DEF OnSocket

\* ... a chat, when nothing is under way, ...
LEMMA DeliverChat ==
  ASSUME Kept, Stored, NEW k \in Socket, NEW t \in Turn, OnSocket(k), handleChat(k, t), Asks(up),
         ~Joins(up'), ~Joins(up), AsksOnce(up) => AsksOnce(up') /\ ~Asks(up'),
         UNCHANGED <<sessionId, enabled, isStreaming, current, bubbles>>
  PROVE  OnSocket(k)'
<1>1. UNCHANGED <<out, joining, clearing, socketSessions, sessions>> /\ turn[t].pc = "new"
  BY DEF handleChat, store
<1>2. /\ \A u \in Turn \ {t} : turn'[u] = turn[u]
      /\ turn'[t].socket = k /\ turn'[t].session = socketSessions[k]
      /\ turn'[t].pc = IF socketSessions[k] = None THEN "NOT_JOINED" ELSE "get"
  BY DEF handleChat, Kept, Types, TurnRecord
<1>3. /\ \A u \in Turn \ {t} : /\ Running(k, u)' <=> Running(k, u)
                               /\ Asked(k, u)' <=> Asked(k, u)
                               /\ Failed(k, u)' <=> Failed(k, u)
                               /\ Busy(k, u)' <=> Busy(k, u)
      /\ ~Running(k, t)'
  BY <1>2 DEF Running, Asked, Failed, Busy
<1>4. OfSession(k)'
  <2>1. ASSUME NEW u \in Turn, Asked(k, u)'
        PROVE  turn'[u].session = sessionId
    <3>1. CASE u = t
      BY <1>2, <2>1, <3>1 DEF Asked, OnSocket, OfSession
    <3>2. CASE u # t
      BY <1>2, <1>3, <2>1, <3>2 DEF OnSocket, OfSession
    <3>. QED
      BY <3>1, <3>2
  <2>. QED
    BY <1>1, <2>1 DEF OnSocket, OfSession
<1>5. OneActive(k)'
  <2>1. \A u \in Turn : Active(k, u)' => Active(k, u)
    BY <1>1, <1>3 DEF Active
  <2>. QED
    BY <2>1 DEF OnSocket, OneActive
<1>6. ASSUME Works'
      PROVE  InTurn(k)'
  <2>1. InTurn(k) /\ sessionId # None
    BY <1>1, <1>6, NoneGone DEF OnSocket, Works
  <2>2. /\ ~enabled /\ ~isStreaming /\ Silent(out[k]) /\ Idle(k) /\ AsksOnce(up') /\ ~Asks(up')
        /\ EndsLast(out[k])
    BY <2>1 DEF InTurn
  <2>3. joining[k].pc = "idle" /\ \A u \in Turn : ~Busy(k, u)
    BY <2>2 DEF Idle
  <2>4. socketSessions[k] = sessionId
    BY <2>1, <2>3 DEF InTurn, Answers
  <2>5. ~HasEnd(out[k])
    BY <2>2 DEF Silent, HasEnd, Ends
  <2>6. \A u \in Turn : ~Failed(k, u)' /\ (Busy(k, u)' => u = t)
    BY <1>2, <1>3, <2>1, <2>3, <2>4 DEF InTurn, Answers, Failed
  <2>7. Answers(k)'
    BY <1>1, <2>1, <2>4, <2>6 DEF InTurn, Answers
  <2>. QED
    BY <1>1, <2>2, <2>3, <2>5, <2>6, <2>7 DEF InTurn
<1>. QED
  BY <1>4, <1>5, <1>6 DEF OnSocket

\* ... or a clear, which finds the session of the socket.
LEMMA DeliverClear ==
  ASSUME Kept, Stored, NEW k \in Socket, OnSocket(k), handleClear(k), socketSessions[k] # None,
         ~Joins(up'), ~Joins(up), Asks(up') => Asks(up), AsksOnce(up) => AsksOnce(up'),
         UNCHANGED <<sessionId, enabled, isStreaming, current, bubbles>>
  PROVE  OnSocket(k)'
<1>1. /\ UNCHANGED <<turn, out, joining, socketSessions, sessions>>
      /\ clearing'[k] = [pc |-> "clear", session |-> socketSessions[k]]
  BY DEF handleClear, Stored, store
<1>2. TurnsStay(k)
  BY <1>1 DEF TurnsStay
<1>3. \A t \in Turn : /\ Running(k, t)' <=> Running(k, t)
                      /\ Asked(k, t)' <=> Asked(k, t)
                      /\ Failed(k, t)' <=> Failed(k, t)
                      /\ Busy(k, t)' <=> Busy(k, t)
  BY <1>2, TurnsFrame
<1>4. OfSession(k)' /\ OneActive(k)'
  BY <1>1, <1>3 DEF OnSocket, OfSession, OneActive, Active
<1>5. ASSUME Works'
      PROVE  InTurn(k)'
  <2>1. InTurn(k) /\ (Idle(k)' <=> Idle(k))
    BY <1>1, <1>3, <1>5 DEF OnSocket, Works, Idle
  <2>2. Answers(k)'
    BY <1>1, <1>3, <2>1 DEF InTurn, Answers
  <2>. QED
    BY <1>1, <1>3, <2>1, <2>2 DEF InTurn
<1>. QED
  BY <1>4, <1>5 DEF OnSocket

LEMMA DeliverStep ==
  ASSUME Kept, Stored, Page, PageInv, Deliver, ~hasty'
  PROVE  PageInv'
<1>1. PICK k \in Socket : k = Here
  BY PageSends
<1>2. /\ Connected /\ k \in online /\ up \in Seq(Request) /\ up # <<>> /\ up' = Tail(up)
      /\ UNCHANGED <<sessionId, enabled, isStreaming, current, bubbles, online, conn, out>>
  BY <1>1, PageSends DEF Deliver, Connected, Page, Request, handleJoin, handleChat, handleClear
<1>3. Connected' /\ Here' = k
  BY <1>1, <1>2 DEF Connected, Here
<1>4. OnSocket(k) /\ JoinFirst(up) /\ PageTypes
  BY <1>1, <1>2 DEF PageInv
<1>5. /\ JoinFirst(up') /\ ~Joins(up')
      /\ Head(up) = "join" <=> Joins(up)
      /\ Head(up) = "chat" => Asks(up)
      /\ Asks(up') => Asks(up)
      /\ AsksOnce(up) => AsksOnce(up') /\ (Head(up) = "chat" => ~Asks(up'))
  BY <1>2, <1>4, RequestHandled DEF Joins
<1>6. OnSocket(k)'
  <2>1. CASE Head(up) = "join"
    BY <1>1, <1>2, <1>4, <1>5, <2>1, DeliverJoin DEF Deliver
  <2>2. CASE Head(up) = "chat"
    <3>1. PICK t \in Turn : handleChat(k, t)
      BY <1>1, <2>2, PageSends DEF Deliver
    <3>. QED
      BY <1>2, <1>4, <1>5, <2>2, <3>1, DeliverChat
  <2>3. CASE Head(up) = "clear"
    <3>1. handleClear(k) /\ socketSessions[k] # None
      BY <1>1, <2>3 DEF Deliver
    <3>. QED
      BY <1>2, <1>4, <1>5, <2>3, <3>1, DeliverClear
  <2>. QED
    BY <2>1, <2>2, <2>3, PageSends
<1>7. PageTypes'
  BY <1>2, <1>4 DEF PageTypes
<1>. QED
  BY <1>2, <1>3, <1>5, <1>6, <1>7, HereInv DEF PageInv

\* The invariant after a step that keeps the connection and the page.
LEMMA ElsewhereInv ==
  ASSUME Page, PageInv, UNCHANGED <<up, enabled, isStreaming, current, bubbles, conn, online>>,
         out' \in [Socket -> Seq(Event)],
         \A k \in Socket : OnSocket(k) /\ k \in online => OnSocket(k)'
  PROVE  PageInv'
<1>1. PageTypes' /\ (Connected' <=> Connected) /\ Here' = Here
  BY DEF PageInv, PageTypes, Connected, Here
<1>2. CASE ~Connected
  BY <1>1, <1>2 DEF PageInv
<1>3. CASE Connected
  <2>1. PICK k \in Socket : k = Here
    BY <1>3 DEF Connected, Page
  <2>2. OnSocket(k)'
    BY <1>3, <2>1 DEF PageInv, Connected
  <2>3. Here' = k /\ Connected'
    BY <1>1, <1>3, <2>1
  <2>. QED
    BY <1>1, <2>2, <2>3, HereInv DEF PageInv
<1>. QED
  BY <1>2, <1>3

\* The page takes an event: a chunk of the one answer under way goes into the
\* bubble in progress, or a new one; an end comes after all there was to come.
LEMMA EventStep ==
  ASSUME Page, PageInv, OnEvent
  PROVE  PageInv'
<1>1. PICK k \in Socket : k = Here
  BY DEF OnEvent, OnJoined, handleChunk, handleDone, handleError, OnCleared, On, Connected, Page
<1>2. PICK e : e = Head(out[k])
  OBVIOUS
<1>3. /\ Connected /\ k \in online /\ out[k] # <<>> /\ out' = [out EXCEPT ![k] = Tail(@)]
      /\ UNCHANGED <<up, sessionId, turn, sessions, socketSessions, joining, clearing, online, conn>>
  BY <1>1 DEF OnEvent, OnJoined, handleChunk, handleDone, handleError, OnCleared, On, Connected, Take,
     store
<1>4. Connected' /\ Here' = k
  BY <1>1, <1>3 DEF Connected, Here
<1>5. OnSocket(k) /\ PageTypes /\ out[k] \in Seq(Event)
  BY <1>1, <1>3 DEF PageInv, PageTypes
<1>6. out'[k] = Tail(out[k]) /\ out' \in [Socket -> Seq(Event)] /\ e \in Event
  BY <1>2, <1>3, <1>5, EventTaken DEF PageTypes
<1>7. /\ e.type = "chunk" => Says(out[k], e.turn)
      /\ e.type # "cleared" => ~Silent(out[k])
      /\ Silent(out[k]) => Silent(out'[k])
      /\ \A t : Says(out'[k], t) => Says(out[k], t)
      /\ HasEnd(out'[k]) => HasEnd(out[k])
      /\ Ends(e) => HasEnd(out[k])
      /\ EndsLast(out[k]) => EndsLast(out'[k]) /\ (Ends(e) => Silent(out'[k]))
  BY <1>2, <1>3, <1>5, <1>6, EventTaken
<1>8. /\ \A t \in Turn : /\ Running(k, t)' <=> Running(k, t)
                         /\ Asked(k, t)' <=> Asked(k, t)
                         /\ Failed(k, t)' <=> Failed(k, t)
                         /\ Busy(k, t)' <=> Busy(k, t)
      /\ Works' <=> Works
  BY <1>3 DEF Running, Asked, Failed, Busy, Works
<1>9. /\ Idle(k)' <=> Idle(k)
      /\ \A t \in Turn : Active(k, t)' => Active(k, t)
      /\ Answers(k)' <=> Answers(k)
      /\ OfSession(k)'
  BY <1>3, <1>5, <1>7, <1>8 DEF Idle, Active, Answers, OnSocket, OfSession
<1>10. CASE OnCleared
  <2>1. UNCHANGED <<enabled, isStreaming, current, bubbles>>
    BY <1>10 DEF OnCleared
  <2>2. OneActive(k)'
    BY <1>5, <1>9, <2>1 DEF OnSocket, OneActive
  <2>3. Works' => InTurn(k)'
    BY <1>3, <1>5, <1>7, <1>8, <1>9, <2>1 DEF OnSocket, InTurn
  <2>4. PageTypes'
    BY <1>5, <1>6, <2>1 DEF PageTypes
  <2>. QED
    BY <1>3, <1>4, <1>9, <2>1, <2>2, <2>3, <2>4, HereInv DEF PageInv, OnSocket
<1>11. CASE OnJoined \/ handleDone \/ handleError
  <2>1. /\ Ends(e) /\ e.type # "cleared" /\ enabled' = TRUE /\ bubbles' = bubbles
        /\ \/ UNCHANGED <<isStreaming, current>>
           \/ isStreaming' = FALSE /\ current' = 0
    BY <1>1, <1>2, <1>11 DEF OnJoined, handleDone, handleError, On, Ends
  <2>2. OneActive(k)'
    BY <1>5, <1>9, <2>1 DEF OnSocket, OneActive
  <2>3. ASSUME Works'
        PROVE  InTurn(k)'
    <3>1. InTurn(k)
      BY <1>5, <1>8, <2>3 DEF OnSocket
    <3>2. ~Joins(up) /\ ~Asks(up) /\ Idle(k) /\ Silent(out'[k]) /\ EndsLast(out'[k])
      BY <1>7, <2>1, <3>1 DEF InTurn
    <3>3. \A t \in Turn : ~Busy(k, t) /\ ~Asked(k, t)
      BY <3>2 DEF Idle, Busy
    <3>. QED
      BY <1>3, <1>8, <1>9, <2>1, <3>1, <3>2, <3>3 DEF InTurn
  <2>4. PageTypes'
    <3>1. Len(bubbles) \in Nat /\ current' \in 0 .. Len(bubbles)
      BY <1>5, <2>1 DEF PageTypes
    <3>2. isStreaming' \in BOOLEAN /\ (isStreaming' => current' > 0) /\ enabled' \in BOOLEAN
      <4>1. isStreaming \in BOOLEAN /\ (isStreaming => current > 0) /\ enabled' \in BOOLEAN
        BY <1>5, <2>1 DEF PageTypes
      <4>2. CASE UNCHANGED <<isStreaming, current>>
        BY <4>1, <4>2
      <4>3. CASE isStreaming' = FALSE
        BY <4>1, <4>3
      <4>. QED
        BY <2>1, <4>2, <4>3
    <3>3. bubbles' \in Seq(SUBSET Turn) /\ current' \in 0 .. Len(bubbles')
      BY <1>5, <2>1, <3>1 DEF PageTypes
    <3>. QED
      BY <1>6, <3>2, <3>3 DEF PageTypes
  <2>. QED
    BY <1>3, <1>4, <1>9, <2>1, <2>2, <2>3, <2>4, HereInv DEF PageInv, OnSocket
<1>12. CASE handleChunk
  <2>1. PICK t \in Turn : t = e.turn /\ Active(k, t)
    <3>1. e.type = "chunk"
      BY <1>1, <1>2, <1>12 DEF handleChunk, On
    <3>2. e.turn \in Turn
      BY <1>6, <3>1 DEF Event
    <3>. QED
      BY <1>7, <3>1, <3>2 DEF Active
  <2>2. \A u \in Turn : Active(k, u)' => u = t
    BY <1>5, <1>9, <2>1 DEF OnSocket, OneActive
  <2>3. Len(bubbles) \in Nat /\ bubbles \in Seq(SUBSET Turn)
        /\ current \in 0 .. Len(bubbles) /\ (isStreaming => current > 0)
    BY <1>5 DEF PageTypes
  <2>4. enabled' = enabled /\ isStreaming' = TRUE
    BY <1>12 DEF handleChunk
  <2>5. /\ bubbles' \in Seq(SUBSET Turn) /\ current' \in 1 .. Len(bubbles')
        /\ bubbles'[current'] \subseteq {t}
        /\ \A i \in 1 .. Len(bubbles') :
             i = current' \/ (i \in 1 .. Len(bubbles) /\ bubbles'[i] = bubbles[i])
    <3>1. CASE isStreaming
      <4>1. current' = current /\ bubbles' = [bubbles EXCEPT ![current] = @ \union {t}]
        BY <1>1, <1>2, <1>12, <2>1, <2>3, <3>1 DEF handleChunk
      <4>2. bubbles[current] \subseteq {t}
        BY <1>5, <2>1, <3>1 DEF OnSocket, OneActive
      <4>3. current \in 1 .. Len(bubbles) /\ bubbles[current] \union {t} \in SUBSET Turn
        BY <2>3, <3>1
      <4>4. Len(bubbles') = Len(bubbles) /\ bubbles' \in Seq(SUBSET Turn)
            /\ bubbles'[current] = bubbles[current] \union {t}
            /\ \A i \in 1 .. Len(bubbles) : i # current => bubbles'[i] = bubbles[i]
        BY <2>3, <4>1, <4>3
      <4>. QED
        BY <4>1, <4>2, <4>3, <4>4
    <3>2. CASE ~isStreaming
      <4>. DEFINE n == Len(bubbles) + 1
                  b == Append(bubbles, {})
      <4>1. current' = n /\ bubbles' = [b EXCEPT ![n] = @ \union {t}]
        BY <1>1, <1>2, <1>12, <2>1, <2>3, <3>2 DEF handleChunk
      <4>2. n \in Nat /\ n # 0 /\ b \in Seq(SUBSET Turn) /\ Len(b) = n /\ b[n] = {}
            /\ \A i \in 1 .. Len(bubbles) : b[i] = bubbles[i]
        BY <2>3
      <4>3. \A i \in 1 .. n : i = n \/ i \in 1 .. Len(bubbles)
        BY <2>3
      <4>. HIDE DEF n, b
      <4>4. Len(bubbles') = n /\ bubbles' \in Seq(SUBSET Turn)
            /\ bubbles'[n] = b[n] \union {t}
            /\ \A i \in 1 .. n : i # n => bubbles'[i] = b[i]
        BY <4>1, <4>2
      <4>. QED
        BY <4>1, <4>2, <4>3, <4>4
    <3>. QED
      BY <3>1, <3>2, <1>5 DEF PageTypes
  <2>6. OneActive(k)'
    BY <2>2, <2>5 DEF OneActive
  <2>7. ASSUME Works'
        PROVE  InTurn(k)'
    <3>1. InTurn(k)
      BY <1>5, <1>8, <2>7 DEF OnSocket
    <3>2. ~Silent(out[k])
      BY <1>1, <1>2, <1>7, <1>12 DEF handleChunk, On
    <3>3. ~Joins(up) /\ ~Asks(up) /\ ~enabled /\ \A u \in Turn : ~Asked(k, u)
      BY <3>1, <3>2 DEF InTurn
    <3>. QED
      BY <1>3, <1>7, <1>8, <1>9, <2>4, <3>1, <3>3 DEF InTurn
  <2>8. PageTypes'
    <3>1. current' \in 0 .. Len(bubbles') /\ current' > 0
      BY <2>5
    <3>. QED
      BY <1>5, <1>6, <2>4, <2>5, <3>1 DEF PageTypes
  <2>9. \A i \in 1 .. Len(bubbles') : \E u \in Turn : bubbles'[i] \subseteq {u}
    BY <2>5 DEF PageInv
  <2>. QED
    BY <1>3, <1>4, <1>9, <2>6, <2>7, <2>8, <2>9, HereInv DEF PageInv, OnSocket
<1>. QED
  BY <1>10, <1>11, <1>12 DEF OnEvent

\* What a handler does to its turn, and what it emits.
LEMMA TurnMoves ==
  ASSUME turn \in [Turn -> TurnRecord], NEW t \in Turn, HandleTurn(t)
  PROVE  /\ \A u \in Turn \ {t} : turn'[u] = turn[u]
         /\ turn'[t].socket = turn[t].socket /\ turn'[t].session = turn[t].session
         /\ \/ /\ turn[t].pc = "get" /\ UNCHANGED out
               /\ turn'[t].pc = IF turn[t].session \in sessions THEN "read" ELSE "CHAT_ERROR"
            \/ /\ turn[t].pc \in {"read", "stream", "append", "done"}
               /\ turn'[t].pc \in {"read", "stream", "append", "done"}
               /\ UNCHANGED out \/ Emit(turn[t].socket, Chunk(t))
            \/ /\ turn[t].pc \in {"NOT_JOINED", "CHAT_ERROR", "read", "stream", "append", "done"}
               /\ turn'[t].pc = "end"
               /\ \E e \in Event : Ends(e) /\ Emit(turn[t].socket, e)
<1>1. turn[t] \in TurnRecord
  OBVIOUS
<1>2. \A c \in {"NOT_JOINED", "CHAT_ERROR", "STREAM_ERROR"} : Error(c) \in Event /\ Ends(Error(c))
  BY DEF Error, Event, Ends
<1>3. Done(t) \in Event /\ Ends(Done(t))
  BY DEF Done, Event, Ends
<1>4. CASE GetSession(t)
  BY <1>1, <1>4 DEF GetSession, TurnRecord
<1>5. CASE EmitError(t)
  <2>1. turn'[t] = Left(t, "end") /\ \A u \in Turn \ {t} : turn'[u] = turn[u]
    BY <1>5 DEF EmitError
  <2>2. \E e \in Event : Ends(e) /\ Emit(turn[t].socket, e)
    BY <1>2, <1>5 DEF EmitError
  <2>. QED
    BY <1>5, <2>1, <2>2, LeftIs DEF EmitError
<1>6. CASE LoadArray(t)
  <2>1. turn' = [turn EXCEPT ![t] = [turn[t] EXCEPT !.array = history[turn[t].session],
                                                    !.loaded = @ \union {"array"}]]
    BY <1>1, <1>6 DEF LoadArray
  <2>. QED
    BY <1>1, <1>6, <2>1 DEF LoadArray, TurnRecord
<1>7. CASE LoadLength(t)
  <2>1. turn' = [turn EXCEPT ![t] = [turn[t] EXCEPT !.length = Len(history[turn[t].session]),
                                                    !.loaded = @ \union {"length"}]]
    BY <1>1, <1>7 DEF LoadLength
  <2>. QED
    BY <1>1, <1>7, <2>1 DEF LoadLength, TurnRecord
<1>8. CASE RecvChunk(t)
  BY <1>1, <1>8 DEF RecvChunk, TurnRecord
<1>9. CASE AppendHistory(t)
  BY <1>1, <1>9 DEF AppendHistory, TurnRecord
<1>10. CASE RecvEOF(t) \/ (Stream(t) /\ UNCHANGED out)
  <2>1. PICK p \in {"stream", "append", "end"} : turn' = [turn EXCEPT ![t] = Left(t, p)]
    BY <1>10 DEF RecvEOF, Stream
  <2>2. CASE p = "end"
    <3>1. Stream(t) /\ turn'[t].pc = "end"
      <4>1. turn'[t].pc = "end" /\ Left(t, "append").pc = "append"
        BY <2>1, <2>2, LeftIs
      <4>2. ~RecvEOF(t)
        BY <4>1 DEF RecvEOF
      <4>. QED
        BY <1>10, <4>1, <4>2
    <3>2. Left(t, "stream").pc = "stream"
      BY LeftIs
    <3>3. \E e \in Event : Ends(e) /\ Emit(turn[t].socket, e)
      BY <1>2, <3>1, <3>2 DEF Stream
    <3>. QED
      BY <2>1, <2>2, <3>1, <3>3, LeftIs DEF Stream
  <2>3. CASE p # "end"
    BY <1>10, <2>1, <2>3, LeftIs DEF RecvEOF, Stream
  <2>. QED
    BY <2>2, <2>3
<1>11. CASE RecvError(t) \/ EmitDone(t) \/ (Stream(t) /\ ~UNCHANGED out)
  <2>1. turn' = [turn EXCEPT ![t] = Left(t, "end")]
    BY <1>11 DEF RecvError, EmitDone, Stream
  <2>2. \E e \in Event : Ends(e) /\ Emit(turn[t].socket, e)
    BY <1>2, <1>3, <1>11 DEF RecvError, EmitDone, Stream
  <2>3. turn[t].pc \in {"read", "stream", "append", "done"}
    BY <1>11 DEF RecvError, EmitDone, Stream
  <2>. QED
    BY <2>1, <2>2, <2>3, LeftIs
<1>. QED
  BY <1>4, <1>5, <1>6, <1>7, <1>8, <1>9, <1>10, <1>11 DEF HandleTurn

\* A turn of the socket goes on: a chat that was asked finds its session while
\* that exists, when nothing else is under way, and a turn that runs emits
\* chunks and ends once.
LEMMA TurnStep ==
  ASSUME Kept, PageTypes, NEW k \in Socket, NEW t \in Turn, HandleTurn(t), turn[t].socket = k,
         OnSocket(k), k \in online,
         UNCHANGED <<up, sessionId, enabled, isStreaming, current, bubbles, sessions,
                     socketSessions, joining, clearing>>
  PROVE  OnSocket(k)'
<1>. DEFINE Runs == {"read", "stream", "append", "done"}
<1>1. /\ \A u \in Turn \ {t} : turn'[u] = turn[u]
      /\ turn'[t].socket = k /\ turn'[t].session = turn[t].session
      /\ \/ /\ turn[t].pc = "get" /\ UNCHANGED out
            /\ turn'[t].pc = IF turn[t].session \in sessions THEN "read" ELSE "CHAT_ERROR"
         \/ /\ turn[t].pc \in Runs /\ turn'[t].pc \in Runs
            /\ UNCHANGED out \/ Emit(k, Chunk(t))
         \/ /\ turn[t].pc \in Runs \union {"NOT_JOINED", "CHAT_ERROR"}
            /\ turn'[t].pc = "end"
            /\ \E e \in Event : Ends(e) /\ Emit(k, e)
  BY TurnMoves DEF Kept, Types
<1>2. \A u \in Turn \ {t} : /\ Running(k, u)' <=> Running(k, u)
                            /\ Asked(k, u)' <=> Asked(k, u)
                            /\ Failed(k, u)' <=> Failed(k, u)
                            /\ Busy(k, u)' <=> Busy(k, u)
                            /\ turn'[u].session = turn[u].session
  BY <1>1 DEF Running, Asked, Failed, Busy
<1>3. OfSession(k)'
  <2>1. ~Asked(k, t)'
    BY <1>1 DEF Asked
  <2>. QED
    BY <1>2, <2>1 DEF OnSocket, OfSession
<1>4. out[k] \in Seq(Event) /\ (Works' <=> Works)
  BY DEF PageTypes, Works
<1>5. CASE /\ turn[t].pc = "get" /\ UNCHANGED out
           /\ turn'[t].pc = IF turn[t].session \in sessions THEN "read" ELSE "CHAT_ERROR"
  <2>1. turn[t].session = sessionId /\ Asked(k, t)
    BY <1>5 DEF OnSocket, OfSession, Asked
  <2>2. CASE Works
    <3>1. InTurn(k) /\ turn'[t].pc = "read" /\ Busy(k, t) /\ Running(k, t)' /\ Busy(k, t)'
      BY <1>1, <1>5, <2>1, <2>2 DEF OnSocket, Works, Asked, Busy, Running
    <3>2. Silent(out[k]) /\ ~isStreaming /\ \A u \in Turn : Busy(k, u) => u = t
      BY <2>1, <3>1 DEF InTurn
    <3>3. \A u \in Turn : Active(k, u)' => u = t
      BY <1>2, <1>5, <3>2 DEF Active, Silent, Says, Busy
    <3>4. \A u \in Turn : Busy(k, u)' <=> Busy(k, u)
      BY <1>2, <3>1
    <3>5. \A u \in Turn : ~Asked(k, u)' /\ ~Failed(k, u)'
      BY <1>1, <1>2, <3>1, <3>2 DEF InTurn, Answers, Asked, Failed, Busy
    <3>6. Answers(k)' /\ (Idle(k)' <=> Idle(k))
      BY <3>1, <3>4, <3>5 DEF InTurn, Answers, Idle
    <3>7. InTurn(k)'
      BY <1>5, <3>1, <3>4, <3>5, <3>6 DEF InTurn
    <3>. QED
      BY <1>3, <3>2, <3>3, <3>7 DEF OnSocket, OneActive
  <2>3. CASE ~Works
    <3>1. ~Running(k, t)'
      BY <1>5, <2>1, <2>3 DEF Works, Running
    <3>2. \A u \in Turn : Active(k, u)' => Active(k, u)
      BY <1>2, <1>5, <3>1 DEF Active
    <3>. QED
      BY <1>3, <1>4, <2>3, <3>2 DEF OnSocket, OneActive
  <2>. QED
    BY <2>2, <2>3
<1>6. CASE /\ turn[t].pc \in Runs /\ turn'[t].pc \in Runs
           /\ UNCHANGED out \/ Emit(k, Chunk(t))
  <2>2. Running(k, t) /\ Running(k, t)' /\ ~Asked(k, t)' /\ ~Failed(k, t)' /\ Busy(k, t) /\ Busy(k, t)'
        /\ ~Asked(k, t) /\ ~Failed(k, t)
    BY <1>1, <1>6 DEF Running, Asked, Failed, Busy
  <2>3. (Idle(k)' <=> Idle(k)) /\ ~Idle(k)
    BY <1>2, <2>2 DEF Idle
  <2>4. /\ Silent(out'[k]) => Silent(out[k])
        /\ \A u \in Turn : Says(out'[k], u) => Says(out[k], u) \/ u = t
        /\ HasEnd(out'[k]) => HasEnd(out[k])
        /\ EndsLast(out[k]) /\ ~HasEnd(out[k]) => EndsLast(out'[k])
    <3>1. CASE UNCHANGED out
      BY <3>1
    <3>2. CASE Emit(k, Chunk(t))
      <4>1. Chunk(t) \in Event /\ Chunk(t).type = "chunk" /\ Chunk(t).turn = t /\ ~Ends(Chunk(t))
        BY DEF Chunk, Event, Ends
      <4>2. out'[k] = Append(out[k], Chunk(t))
        BY <3>2, <4>1, Emitted
      <4>. QED
        BY <1>4, <4>1, <4>2, EventAdded
    <3>. QED
      BY <1>6, <3>1, <3>2
  <2>5. \A u \in Turn : Active(k, u)' => Active(k, u)
    BY <1>2, <2>2, <2>4 DEF Active
  <2>6. OneActive(k)'
    BY <2>5 DEF OnSocket, OneActive
  <2>7. ASSUME Works'
        PROVE  InTurn(k)'
    <3>1. InTurn(k) /\ ~HasEnd(out[k])
      BY <1>4, <2>3, <2>7 DEF OnSocket, InTurn
    <3>2. \A u \in Turn : ~Asked(k, u)
      BY <2>2, <3>1 DEF InTurn, Busy
    <3>3. Answers(k)'
      BY <1>2, <2>2, <3>1 DEF InTurn, Answers
    <3>4. ~enabled /\ ~Joins(up) /\ ~Asks(up)
      BY <2>3, <3>1 DEF InTurn
    <3>5. \A u \in Turn : /\ Busy(k, u)' <=> Busy(k, u)
                          /\ ~Asked(k, u)'
      BY <1>2, <2>2, <3>2
    <3>. QED
      BY <2>4, <3>1, <3>3, <3>4, <3>5 DEF InTurn
  <2>. QED
    BY <1>3, <2>6, <2>7 DEF OnSocket
<1>7. CASE /\ turn[t].pc \in Runs \union {"NOT_JOINED", "CHAT_ERROR"}
           /\ turn'[t].pc = "end"
           /\ \E e \in Event : Ends(e) /\ Emit(k, e)
  <2>1. PICK e \in Event : Ends(e) /\ Emit(k, e)
    BY <1>7
  <2>2. out'[k] = Append(out[k], e) /\ e.type # "chunk" /\ e.type # "cleared"
    BY <2>1, Emitted DEF Ends
  <2>3. /\ \A u : Says(out'[k], u) <=> Says(out[k], u)
        /\ ~HasEnd(out[k]) /\ EndsLast(out[k]) => EndsLast(out'[k])
    BY <1>4, <2>2, EventAdded
  <2>4. ~Running(k, t)' /\ ~Asked(k, t)' /\ ~Failed(k, t)' /\ ~Busy(k, t)'
    BY <1>7 DEF Running, Asked, Failed, Busy
  <2>5. \A u \in Turn : Active(k, u)' => Active(k, u)
    BY <1>2, <2>3, <2>4 DEF Active
  <2>6. OneActive(k)'
    BY <2>5 DEF OnSocket, OneActive
  <2>7. ASSUME Works'
        PROVE  InTurn(k)'
    <3>1. InTurn(k) /\ ~Failed(k, t)
      BY <1>4, <2>7 DEF OnSocket, InTurn, Answers
    <3>2. Busy(k, t)
      BY <1>7, <3>1 DEF Failed, Busy, Running
    <3>3. ~Idle(k) /\ joining[k].pc = "idle" /\ \A u \in Turn : Busy(k, u) => u = t
      BY <3>1, <3>2 DEF InTurn, Idle
    <3>4. ~HasEnd(out[k]) /\ ~enabled /\ ~Joins(up) /\ ~Asks(up)
      BY <3>1, <3>3 DEF InTurn
    <3>5. \A u \in Turn : ~Busy(k, u)'
      BY <1>2, <2>4, <3>3
    <3>6. Idle(k)' /\ \A u \in Turn : ~Asked(k, u)'
      BY <3>3, <3>5 DEF Idle, Busy
    <3>7. Answers(k)'
      BY <1>2, <2>4, <3>1 DEF InTurn, Answers
    <3>. QED
      BY <2>3, <3>1, <3>4, <3>5, <3>6, <3>7 DEF InTurn
  <2>. QED
    BY <1>3, <2>6, <2>7 DEF OnSocket
<1>. QED
  BY <1>1, <1>5, <1>6, <1>7

\* The handler of a join goes on: the socket gets the session of the page, and
\* "joined" comes when nothing is under way.
LEMMA JoinStep ==
  ASSUME Kept, Stored, PageTypes, NEW k \in Socket, JoinGoesOn(k), OnSocket(k), k \in online,
         UNCHANGED <<up, sessionId, enabled, isStreaming, current, bubbles>>
  PROVE  OnSocket(k)'
<1>1. UNCHANGED <<turn, clearing, sessions>> /\ TurnsStay(k) /\ (Works' <=> Works)
  BY DEF JoinGoesOn, StoreSession, EmitJoined, store, TurnsStay, Works
<1>2. CASE StoreSession(k)
  <2>1. /\ joining[k].pc = "store" /\ joining[k].session = sessionId /\ UNCHANGED out
        /\ socketSessions'[k] = sessionId /\ joining'[k].pc = "joined"
    BY <1>2 DEF StoreSession, OnSocket, OfSession, Stored, AtRest
  <2>2. \A t \in Turn : /\ Running(k, t)' <=> Running(k, t)
                        /\ Asked(k, t)' <=> Asked(k, t)
                        /\ Failed(k, t)' <=> Failed(k, t)
                        /\ Busy(k, t)' <=> Busy(k, t)
    BY <1>1, TurnsFrame
  <2>3. OfSession(k)' /\ OneActive(k)'
    BY <1>1, <2>1, <2>2 DEF OnSocket, OfSession, OneActive, Active
  <2>4. ASSUME Works'
        PROVE  InTurn(k)'
    <3>1. InTurn(k) /\ (Idle(k)' <=> Idle(k))
      BY <1>1, <2>1, <2>2, <2>4 DEF OnSocket, Idle
    <3>2. Answers(k)'
      BY <1>1, <2>1, <2>2, <3>1 DEF InTurn, Answers
    <3>. QED
      BY <2>1, <2>2, <3>1, <3>2 DEF InTurn
  <2>. QED
    BY <2>3, <2>4 DEF OnSocket
<1>3. CASE EmitJoined(k)
  <2>. DEFINE e == Answer(joining[k].pc)
  <2>1. /\ joining[k].pc \in {"joined", "SESSION_NOT_FOUND"} /\ joining'[k] = AtRest
        /\ Emit(k, e) /\ UNCHANGED socketSessions
    BY <1>3 DEF EmitJoined, Stored
  <2>2. e \in Event /\ Ends(e)
    BY <2>1 DEF Answer, Error, Event, Ends
  <2>3. out'[k] = Append(out[k], e) /\ out[k] \in Seq(Event)
    BY <2>1, <2>2, Emitted DEF PageTypes
  <2>. HIDE DEF e
  <2>. QED
    BY <1>1, <2>1, <2>2, <2>3, EmitStep
<1>. QED
  BY <1>2, <1>3 DEF JoinGoesOn

\* The handler of a clear goes on: it fails only when the session is gone.
LEMMA ClearGoes ==
  ASSUME Kept, Stored, PageTypes, NEW k \in Socket, ClearGoesOn(k), OnSocket(k), k \in online,
         UNCHANGED <<up, sessionId, enabled, isStreaming, current, bubbles>>
  PROVE  OnSocket(k)'
<1>1. UNCHANGED <<joining, sessions, socketSessions>> /\ (Works' <=> Works)
  BY DEF ClearGoesOn, ClearSession, EmitCleared, ClearHistory, store, Works
<1>2. CASE ClearSession(k)
  <2>1. /\ UNCHANGED out /\ clearing[k].session = sessionId
        /\ TurnsStay(k)
    <3>1. CASE ClearHistory(clearing[k].session)
      BY <1>2, <3>1, ClearRuns DEF ClearSession, OnSocket, OfSession
    <3>2. CASE ~ClearHistory(clearing[k].session)
      BY <1>2, <3>2 DEF ClearSession, TurnsStay, OnSocket, OfSession
    <3>. QED
      BY <3>1, <3>2
  <2>2. clearing'[k].pc \in {"cleared", "SESSION_ERROR"} /\ (Works => clearing'[k].pc = "cleared")
    BY <1>2, <2>1 DEF ClearSession, Stored, AtRest, Works
  <2>3. \A t \in Turn : /\ Running(k, t)' <=> Running(k, t)
                        /\ Asked(k, t)' <=> Asked(k, t)
                        /\ Failed(k, t)' <=> Failed(k, t)
                        /\ Busy(k, t)' <=> Busy(k, t)
                        /\ Asked(k, t) => turn'[t].session = turn[t].session
    BY <2>1, TurnsFrame
  <2>4. OfSession(k)' /\ OneActive(k)'
    BY <1>1, <2>1, <2>2, <2>3 DEF OnSocket, OfSession, OneActive, Active
  <2>5. ASSUME Works'
        PROVE  InTurn(k)'
    <3>1. InTurn(k) /\ (Idle(k)' <=> Idle(k)) /\ clearing'[k].pc = "cleared"
      BY <1>1, <2>2, <2>3, <2>5 DEF OnSocket, Idle
    <3>2. Answers(k)'
      BY <1>1, <2>3, <3>1 DEF InTurn, Answers
    <3>. QED
      BY <1>1, <2>1, <2>3, <3>1, <3>2 DEF InTurn
  <2>. QED
    BY <2>4, <2>5 DEF OnSocket
<1>3. CASE EmitCleared(k)
  <2>. DEFINE e == Answer(clearing[k].pc)
  <2>1. /\ clearing[k].pc \in {"cleared", "NOT_JOINED", "SESSION_ERROR"} /\ clearing'[k] = AtRest
        /\ Emit(k, e) /\ TurnsStay(k)
    BY <1>3 DEF EmitCleared, Stored, TurnsStay
  <2>2. /\ e \in Event
        /\ \/ clearing[k].pc = "cleared" /\ e.type = "cleared"
           \/ clearing[k].pc # "cleared" /\ Ends(e)
    BY <2>1 DEF Answer, Error, Event, Ends
  <2>3. out'[k] = Append(out[k], e) /\ out[k] \in Seq(Event)
    BY <2>1, <2>2, Emitted DEF PageTypes
  <2>4. clearing[k].pc # "cleared" => ~(Works /\ InTurn(k))
    BY <2>1 DEF InTurn, Answers
  <2>. HIDE DEF e
  <2>. QED
    BY <1>1, <2>1, <2>2, <2>3, <2>4, EmitStep
<1>. QED
  BY <1>2, <1>3 DEF ClearGoesOn

\* The handlers of the server, of the connection or of an earlier one.
LEMMA ServerStep ==
  ASSUME Kept, Stored, Page, PageInv, Server
  PROVE  PageInv'
<1>1. /\ UNCHANGED <<up, sessionId, enabled, isStreaming, current, bubbles, conn, online, sessions>>
      /\ turn \in [Turn -> TurnRecord] /\ PageTypes
  BY DEF Server, Handler, HandleTurn, GetSession, EmitError, LoadArray, LoadLength, Stream,
     RecvChunk, RecvEOF, RecvError, AppendHistory, EmitDone, JoinGoesOn, StoreSession, EmitJoined,
     ClearGoesOn, ClearSession, EmitCleared, ClearHistory, pageVars, store, Kept, Types, PageInv
<1>2. ASSUME NEW q, NEW e \in Event, Emit(q, e)
      PROVE  out' \in [Socket -> Seq(Event)] /\ \A k \in Socket : q # k => out'[k] = out[k]
  <2>1. CASE Socket = {}
    BY <1>1, <1>2, <2>1 DEF PageTypes, Emit
  <2>2. CASE Socket # {}
    BY <1>1, <1>2, <2>2, Emitted DEF PageTypes
  <2>. QED
    BY <2>1, <2>2
<1>3. ASSUME NEW t \in Turn, HandleTurn(t)
      PROVE  PageInv'
  <2>. DEFINE q == turn[t].socket
  <2>1. UNCHANGED <<socketSessions, joining, clearing>>
    BY <1>3 DEF HandleTurn, GetSession, EmitError, LoadArray, LoadLength, Stream, RecvChunk, RecvEOF,
       RecvError, AppendHistory, EmitDone
  <2>2. UNCHANGED out \/ \E e \in Event : Emit(q, e)
    <3>1. Chunk(t) \in Event
      BY DEF Chunk, Event
    <3>. QED
      BY <1>1, <1>3, <3>1, TurnMoves
  <2>3. out' \in [Socket -> Seq(Event)] /\ \A k \in Socket : q # k => out'[k] = out[k]
    BY <1>1, <1>2, <2>2 DEF PageTypes
  <2>4. ASSUME NEW k \in Socket, OnSocket(k), k \in online
        PROVE  OnSocket(k)'
    <3>1. CASE q = k
      BY <1>1, <1>3, <2>1, <2>4, <3>1, TurnStep
    <3>2. CASE q # k
      <4>1. TurnsStay(k)
        BY <1>1, <1>3, <3>2, TurnMoves DEF TurnsStay
      <4>. QED
        BY <1>1, <2>1, <2>3, <2>4, <3>2, <4>1, QuietStep DEF Works
    <3>. QED
      BY <3>1, <3>2
  <2>. QED
    BY <1>1, <2>3, <2>4, ElsewhereInv
<1>4. ASSUME NEW q \in Socket, JoinGoesOn(q) \/ ClearGoesOn(q)
      PROVE  PageInv'
  <2>1. \/ UNCHANGED out
        \/ \E e \in Event : Emit(q, e)
    <3>1. \A p \in {"joined", "cleared", "SESSION_NOT_FOUND", "NOT_JOINED", "SESSION_ERROR"} :
            Answer(p) \in Event
      BY DEF Answer, Error, Event
    <3>. QED
      BY <1>4, <3>1 DEF JoinGoesOn, StoreSession, EmitJoined, ClearGoesOn, ClearSession, EmitCleared
  <2>2. out' \in [Socket -> Seq(Event)] /\ \A k \in Socket : q # k => out'[k] = out[k]
    BY <1>1, <1>2, <2>1 DEF PageTypes
  <2>3. ASSUME NEW k \in Socket, OnSocket(k), k \in online
        PROVE  OnSocket(k)'
    <3>1. CASE q = k
      BY <1>1, <1>4, <2>3, <3>1, JoinStep, ClearGoes
    <3>2. CASE q # k
      <4>1. /\ joining'[k] = joining[k] /\ clearing'[k] = clearing[k]
            /\ socketSessions'[k] = socketSessions[k]
        BY <1>4, <3>2 DEF JoinGoesOn, StoreSession, EmitJoined, ClearGoesOn, ClearSession, EmitCleared,
           Stored
      <4>2. TurnsStay(k)
        <5>1. CASE UNCHANGED turn
          BY <5>1 DEF TurnsStay
        <5>2. CASE ~UNCHANGED turn
          <6>1. ClearHistory(clearing[q].session)
            BY <1>4, <5>2 DEF JoinGoesOn, StoreSession, EmitJoined, ClearGoesOn, ClearSession,
               EmitCleared
          <6>. QED
            BY <6>1, ClearRuns
        <5>. QED
          BY <5>1, <5>2
      <4>. QED
        BY <1>1, <2>2, <2>3, <3>2, <4>1, <4>2, QuietStep DEF Works
    <3>. QED
      BY <3>1, <3>2
  <2>. QED
    BY <1>1, <2>2, <2>3, ElsewhereInv
<1>. QED
  BY <1>3, <1>4 DEF Server, Handler

\* Other clients delete and clear sessions.
LEMMA OthersStep ==
  ASSUME Kept, Page, PageInv, Others
  PROVE  PageInv'
<1>1. PICK s \in Session : Delete(s) \/ Clear(s)
  BY DEF Others
<1>2. /\ UNCHANGED <<up, sessionId, enabled, isStreaming, current, bubbles, conn, online, out,
                     socketSessions, joining, clearing>>
      /\ sessions' \subseteq sessions
  BY <1>1 DEF Others, Delete, Clear, ClearHistory, pageVars
<1>3. ASSUME NEW k \in Socket
      PROVE  TurnsStay(k)
  <2>1. CASE Delete(s)
    BY <2>1 DEF Delete, TurnsStay
  <2>2. CASE Clear(s)
    BY <2>2, ClearRuns DEF Clear
  <2>. QED
    BY <1>1, <2>1, <2>2
<1>4. ASSUME NEW k \in Socket, OnSocket(k)
      PROVE  OnSocket(k)'
  <2>1. Works' => Works
    BY <1>2 DEF Works
  <2>. QED
    BY <1>2, <1>3, <1>4, <2>1, QuietStep
<1>. QED
  BY <1>2, <1>4, ElsewhereInv DEF PageInv, PageTypes

\* The user asks for the history to be cleared, which says nothing yet.
LEMMA AskClearStep ==
  ASSUME Page, PageInv, clearHistory
  PROVE  PageInv'
<1>1. /\ Connected /\ up \in Seq(Request) /\ up' = Append(up, "clear")
      /\ UNCHANGED <<sessionId, enabled, isStreaming, current, bubbles, sessions, socketSessions,
                     joining, clearing, out, turn, online, conn>>
  BY DEF clearHistory, serverVars, store, Page, Request
<1>2. PICK k \in Socket : k = Here
  BY <1>1 DEF Connected, Page
<1>3. /\ Joins(up') <=> Joins(up)
      /\ JoinFirst(up) => JoinFirst(up')
      /\ Asks(up') <=> Asks(up)
      /\ AsksOnce(up) => AsksOnce(up')
  <2>1. "clear" \in Request \ {"join"} /\ "clear" # "chat"
    BY DEF Request
  <2>. QED
    BY <1>1, <2>1, RequestAdded
<1>4. Connected' /\ Here' = k
  BY <1>1, <1>2 DEF Connected, Here
<1>5. OnSocket(k)
  BY <1>1, <1>2 DEF PageInv
<1>6. OnSocket(k)'
  <2>1. TurnsStay(k) /\ (Works' => Works)
    BY <1>1 DEF TurnsStay, Works
  <2>. QED
    BY <1>1, <1>3, <1>5, <2>1, QuietStep
<1>7. PageTypes'
  BY <1>1 DEF PageInv, PageTypes
<1>. QED
  BY <1>1, <1>3, <1>4, <1>6, <1>7, HereInv DEF PageInv

\* At first there is no connection and no bubble.
LEMMA PageInitial == Init => PageInv
<1>. SUFFICES ASSUME Init
             PROVE  PageInv
  OBVIOUS
<1>1. <<>> \in Seq(Event) /\ <<>> \in Seq(SUBSET Turn) /\ Len(<<>>) = 0
  OBVIOUS
<1>2. PageTypes
  <2>1. out \in [Socket -> Seq(Event)] /\ enabled = FALSE /\ isStreaming = FALSE
    BY <1>1 DEF Init, ServerInit
  <2>2. bubbles \in Seq(SUBSET Turn) /\ current \in 0 .. Len(bubbles)
    BY <1>1 DEF Init
  <2>. QED
    BY <2>1, <2>2 DEF PageTypes
<1>3. JoinFirst(<<>>) /\ ~Connected
  BY DEF Init, JoinFirst, Connected
<1>. QED
  BY <1>1, <1>2, <1>3 DEF Init, PageInv

\* Every step of the page, the server and other clients keeps PageInv, unless a
\* clear came before its connection had joined.
LEMMA PageNext ==
  Kept /\ Stored /\ Page /\ (hasty \/ PageInv) /\ [Next]_vars => (hasty \/ PageInv)'
<1>. SUFFICES ASSUME Kept, Stored, Page, hasty \/ PageInv, [Next]_vars, ~hasty'
             PROVE  PageInv'
  OBVIOUS
<1>1. PageInv
  <2>1. hasty => hasty'
    BY DEF Next, createSession, sendMessage, clearHistory, Open, Lose, Deliver, OnEvent, OnJoined,
       handleChunk, handleDone, handleError, OnCleared, On, Server, Others, vars, pageVars
  <2>. QED
    BY <2>1
<1>2. CASE UNCHANGED vars
  <2>1. UNCHANGED <<up, sessionId, enabled, isStreaming, current, bubbles, conn, online, out,
                    socketSessions, joining, clearing, sessions, turn>>
    BY <1>2 DEF vars, serverVars, pageVars, store
  <2>2. ASSUME NEW k \in Socket, OnSocket(k)
        PROVE  OnSocket(k)'
    <3>1. (Works' => Works) /\ TurnsStay(k)
      BY <2>1 DEF Works, TurnsStay
    <3>. QED
      BY <2>1, <2>2, <3>1, QuietStep
  <2>. QED
    BY <1>1, <2>1, <2>2, ElsewhereInv DEF PageInv, PageTypes
<1>. QED
  BY <1>1, <1>2, EndStep, SendStep, AskClearStep, OpenStep, DeliverStep, EventStep, ServerStep,
     OthersStep DEF Next

\* A bubble on the page has the text of one answer only, whatever connections
\* are lost and sessions cleared, deleted or made anew (handleChunk), as long as
\* the server stored the session of a connection before it handled its clears.
THEOREM BubblesCorrect == Spec => []OneAnswerPerBubble
<1>1. hasty \/ PageInv => OneAnswerPerBubble
  <2>. SUFFICES ASSUME PageInv, NEW i \in 1 .. Len(bubbles)
               PROVE  Cardinality(bubbles[i]) <= 1
    BY DEF OneAnswerPerBubble
  <2>1. PICK t \in Turn : bubbles[i] \subseteq {t}
    BY DEF PageInv
  <2>2. IsFiniteSet({t}) /\ Cardinality({t}) = 1
    BY FS_Singleton
  <2>. QED
    BY <2>1, <2>2, FS_Subset
<1>2. Init => Kept /\ Stored /\ Page /\ (hasty \/ PageInv)
  BY ChatInitial, PageInitial
<1>3. Kept /\ Stored /\ Page /\ (hasty \/ PageInv) /\ [Next]_vars
        => (Kept /\ Stored /\ Page /\ (hasty \/ PageInv))'
  BY ChatKept, StoredStep, PageStep, PageNext
<1>. QED
  BY <1>1, <1>2, <1>3, PTL DEF Spec

=============================================================================
