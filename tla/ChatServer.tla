----------------------------- MODULE ChatServer -----------------------------
(***************************************************************************)
(* The API server of examples/simple-chatbot: SessionStore                 *)
(* (service/session.go), ChatService.ChatStream (service/chat.go) and the  *)
(* handlers of sockets and of REST requests (handler/socketio.go,          *)
(* handler/session.go).  A handler runs in a goroutine of its own and      *)
(* interleaves with the others wherever it does not hold the lock of the   *)
(* store.                                                                  *)
(*                                                                         *)
(* Get returns a pointer to the session under the read lock, and           *)
(* ChatStream reads session.History with no lock.  A slice header is more  *)
(* than one word: the read is two loads, of the array and of the length,   *)
(* in an order the compiler chooses, and writers may run between them.     *)
(* What lies past the end of an array is Garbage.                          *)
(*                                                                         *)
(* A turn is one chat event: the user message and the assistant message    *)
(* it leads to.  Identifiers of sessions and of sockets are never used     *)
(* again (uuid.New, the socket library).                                   *)
(***************************************************************************)
EXTENDS Naturals, Sequences, FiniteSets, SequencesExt

CONSTANTS
  Session, Socket, Turn,
  None,        \* a socket that joined no session, a turn not begun
  MaxChunks,   \* bound: chunks of one answer
  MaxOut       \* bound: events a client has yet to take before it asks more

ASSUME ChatAssumption ==
  /\ None \notin Session \union Socket
  /\ MaxChunks \in Nat
  /\ MaxOut \in Nat \ {0}

Message == {"user", "assistant"} \X Turn
Pair(t) == <<<<"user", t>>, <<"assistant", t>>>>

Event ==
  [type : {"joined", "cleared"}]
    \union [type : {"error"}, code : {"SESSION_NOT_FOUND", "NOT_JOINED", "CHAT_ERROR",
                                      "STREAM_ERROR", "SESSION_ERROR"}]
    \union [type : {"chunk", "done"}, turn : Turn]

Error(code) == [type |-> "error", code |-> code]
Chunk(t) == [type |-> "chunk", turn |-> t]
Done(t) == [type |-> "done", turn |-> t]

\* What the handler of a join or a clear emits at last.
Answer(pc) == IF pc \in {"joined", "cleared"} THEN [type |-> pc] ELSE Error(pc)

VARIABLES
  created,         \* sessions Create has made
  sessions,        \* keys of SessionStore.sessions
  history,         \* Session.History of each object, which outlives its key
  online,          \* sockets connected now
  socketSessions,  \* SocketIOHandler.socketSessions
  joining,         \* per socket: the handleJoin that runs for it
  clearing,        \* per socket: the handleClear that runs for it
  turn,            \* the handleChat of each turn
  out,             \* per socket: events emitted and not yet taken
  told,            \* history: turns a client was told are done, per session,
                   \* that nobody has cleared
  forgotten        \* history: turns cleared between AppendHistory and "done"

store == <<created, sessions, history>>
serverVars == <<created, sessions, history, online, socketSessions, joining,
                clearing, turn, out, told, forgotten>>

\* A handler that is not running.
AtRest == [pc |-> "idle", session |-> None]

NewTurn == [pc |-> "new", socket |-> None, session |-> None,
            loaded |-> {}, array |-> <<>>, length |-> 0, chunks |-> 0, due |-> {}]

ServerInit ==
  /\ created = {} /\ sessions = {} /\ online = {}
  /\ joining = [k \in Socket |-> AtRest]
  /\ clearing = [k \in Socket |-> AtRest]
  /\ history = [s \in Session |-> <<>>]
  /\ socketSessions = [k \in Socket |-> None]
  /\ turn = [t \in Turn |-> NewTurn]
  /\ out = [k \in Socket |-> <<>>]
  /\ told = [s \in Session |-> {}]
  /\ forgotten = [s \in Session |-> {}]

\* What is emitted to a socket that has gone is dropped.
Emit(k, e) == out' = IF k \in online THEN [out EXCEPT ![k] = Append(@, e)] ELSE out

\* Bound: a client that has not taken MaxOut events asks for nothing.
Listens(k) == k \in online /\ Len(out[k]) < MaxOut

-----------------------------------------------------------------------------
(* REST requests: Create, Delete and Clear. *)

Create(s) ==
  /\ s \notin created
  /\ created' = created \union {s}
  /\ sessions' = sessions \union {s}
  /\ UNCHANGED <<history, online, socketSessions, joining, clearing, turn, out, told,
                 forgotten>>

Delete(s) ==
  /\ s \in sessions
  /\ sessions' = sessions \ {s}
  /\ UNCHANGED <<created, history, online, socketSessions, joining, clearing, turn, out,
                 told, forgotten>>

\* The store's ClearHistory, under its lock.
ClearHistory(s) ==
  /\ s \in sessions
  /\ history' = [history EXCEPT ![s] = <<>>]
  /\ told' = [told EXCEPT ![s] = {}]
  /\ turn' = [t \in Turn |-> IF turn[t].session = s THEN [turn[t] EXCEPT !.due = {}]
                             ELSE turn[t]]
  /\ forgotten' = [forgotten EXCEPT ![s] =
                     @ \union {t \in Turn : turn[t].session = s /\ turn[t].pc = "done"}]
  /\ UNCHANGED <<created, sessions>>

Clear(s) ==
  /\ ClearHistory(s)
  /\ UNCHANGED <<online, socketSessions, joining, clearing, out>>

-----------------------------------------------------------------------------
(* Sockets. *)

Connect(k) ==
  /\ k \notin online
  /\ socketSessions[k] = None /\ out[k] = <<>>
  /\ joining[k] = AtRest /\ clearing[k] = AtRest
  /\ \A t \in Turn : turn[t].socket = k => turn[t].pc = "new"
  /\ online' = online \union {k}
  /\ UNCHANGED <<store, socketSessions, joining, clearing, turn, out, told, forgotten>>

\* The connection is lost: the disconnect handler forgets the socket.  The
\* handlers that run for it go on: their context is context.Background().
Disconnect(k) ==
  /\ k \in online
  /\ online' = online \ {k}
  /\ socketSessions' = [socketSessions EXCEPT ![k] = None]
  /\ out' = [out EXCEPT ![k] = <<>>]
  /\ UNCHANGED <<store, joining, clearing, turn, told, forgotten>>

\* handleJoin up to the Get of the session.
handleJoin(k, s) ==
  /\ Listens(k)
  /\ joining[k] = AtRest
  /\ joining' = [joining EXCEPT ![k] =
                   IF s \in sessions THEN [pc |-> "store", session |-> s]
                   ELSE [AtRest EXCEPT !.pc = "SESSION_NOT_FOUND"]]
  /\ UNCHANGED <<store, online, socketSessions, clearing, turn, out, told, forgotten>>

\* The socket is stored, even when it has gone meanwhile.
StoreSession(k) ==
  /\ joining[k].pc = "store"
  /\ socketSessions' = [socketSessions EXCEPT ![k] = joining[k].session]
  /\ joining' = [joining EXCEPT ![k] = [AtRest EXCEPT !.pc = "joined"]]
  /\ UNCHANGED <<store, online, clearing, turn, out, told, forgotten>>

EmitJoined(k) ==
  /\ joining[k].pc \in {"joined", "SESSION_NOT_FOUND"}
  /\ Emit(k, Answer(joining[k].pc))
  /\ joining' = [joining EXCEPT ![k] = AtRest]
  /\ UNCHANGED <<store, online, socketSessions, clearing, turn, told, forgotten>>

JoinGoesOn(k) == StoreSession(k) \/ EmitJoined(k)

\* handleClear up to getSessionID.
handleClear(k) ==
  /\ Listens(k)
  /\ clearing[k] = AtRest
  /\ clearing' = [clearing EXCEPT ![k] =
                    IF socketSessions[k] = None THEN [AtRest EXCEPT !.pc = "NOT_JOINED"]
                    ELSE [pc |-> "clear", session |-> socketSessions[k]]]
  /\ UNCHANGED <<store, online, socketSessions, joining, turn, out, told, forgotten>>

\* Its ClearHistory, which fails when the session is gone.
ClearSession(k) ==
  /\ clearing[k].pc = "clear"
  /\ \/ /\ ClearHistory(clearing[k].session)
        /\ clearing' = [clearing EXCEPT ![k] = [AtRest EXCEPT !.pc = "cleared"]]
     \/ /\ clearing[k].session \notin sessions
        /\ clearing' = [clearing EXCEPT ![k] = [AtRest EXCEPT !.pc = "SESSION_ERROR"]]
        /\ UNCHANGED <<store, turn, told, forgotten>>
  /\ UNCHANGED <<online, socketSessions, joining, out>>

EmitCleared(k) ==
  /\ clearing[k].pc \in {"cleared", "NOT_JOINED", "SESSION_ERROR"}
  /\ Emit(k, Answer(clearing[k].pc))
  /\ clearing' = [clearing EXCEPT ![k] = AtRest]
  /\ UNCHANGED <<store, online, socketSessions, joining, turn, told, forgotten>>

ClearGoesOn(k) == ClearSession(k) \/ EmitCleared(k)

-----------------------------------------------------------------------------
(* handleChat. *)

\* A turn that has left a function or a loop: the variables of that are gone.
Left(t, pc) == [NewTurn EXCEPT !.pc = pc, !.socket = turn[t].socket, !.session = turn[t].session]

\* handleChat up to getSessionID.
handleChat(k, t) ==
  /\ Listens(k)
  /\ turn[t].pc = "new"
  /\ turn' = [turn EXCEPT ![t].socket = k,
                          ![t].session = socketSessions[k],
                          ![t].pc = IF socketSessions[k] = None THEN "NOT_JOINED" ELSE "get"]
  /\ UNCHANGED <<store, online, socketSessions, joining, clearing, out, told, forgotten>>

\* The Get of ChatStream.
GetSession(t) ==
  /\ turn[t].pc = "get"
  /\ LET s == turn[t].session IN
     turn' = IF s \in sessions
             THEN [turn EXCEPT ![t].pc = "read", ![t].due = told[s]]
             ELSE [turn EXCEPT ![t].pc = "CHAT_ERROR"]
  /\ UNCHANGED <<store, online, socketSessions, joining, clearing, out, told, forgotten>>

\* A chat that has no session is answered with an error.
EmitError(t) ==
  /\ turn[t].pc \in {"NOT_JOINED", "CHAT_ERROR"}
  /\ turn' = [turn EXCEPT ![t] = Left(t, "end")]
  /\ Emit(turn[t].socket, Error(turn[t].pc))
  /\ UNCHANGED <<store, online, socketSessions, joining, clearing, told, forgotten>>

LoadArray(t) ==
  /\ turn[t].pc = "read"
  /\ "array" \notin turn[t].loaded
  /\ turn' = [turn EXCEPT ![t].array = history[turn[t].session],
                          ![t].loaded = @ \union {"array"}]
  /\ UNCHANGED <<store, online, socketSessions, joining, clearing, out, told, forgotten>>

LoadLength(t) ==
  /\ turn[t].pc = "read"
  /\ "length" \notin turn[t].loaded
  /\ turn' = [turn EXCEPT ![t].length = Len(history[turn[t].session]),
                          ![t].loaded = @ \union {"length"}]
  /\ UNCHANGED <<store, online, socketSessions, joining, clearing, out, told, forgotten>>

\* chain.Stream has the prompt: it fails, or returns a stream.
Stream(t) ==
  /\ turn[t].pc = "read"
  /\ turn[t].loaded = {"array", "length"}
  /\ \/ /\ turn' = [turn EXCEPT ![t] = Left(t, "stream")]
        /\ UNCHANGED out
     \/ /\ turn' = [turn EXCEPT ![t] = Left(t, "end")]
        /\ Emit(turn[t].socket, Error("CHAT_ERROR"))
  /\ UNCHANGED <<store, online, socketSessions, joining, clearing, told, forgotten>>

\* A Recv of the stream: a chunk with content, the end, or an error.
RecvChunk(t) ==
  /\ turn[t].pc = "stream"
  /\ turn[t].chunks < MaxChunks
  /\ turn' = [turn EXCEPT ![t].chunks = @ + 1]
  /\ Emit(turn[t].socket, Chunk(t))
  /\ UNCHANGED <<store, online, socketSessions, joining, clearing, told, forgotten>>

\* Mutant: tells the client before it appends.
RecvEOFTells(t) ==
  /\ turn[t].pc = "stream"
  /\ turn' = [turn EXCEPT ![t] = Left(t, "append")]
  /\ Emit(turn[t].socket, Done(t))
  /\ told' = [told EXCEPT ![turn[t].session] = @ \union {t}]
  /\ UNCHANGED <<store, online, socketSessions, joining, clearing, forgotten>>

RecvEOF(t) ==
  /\ turn[t].pc = "stream"
  /\ turn' = [turn EXCEPT ![t] = Left(t, "append")]
  /\ UNCHANGED <<store, online, socketSessions, joining, clearing, out, told, forgotten>>

RecvError(t) ==
  /\ turn[t].pc = "stream"
  /\ turn' = [turn EXCEPT ![t] = Left(t, "end")]
  /\ Emit(turn[t].socket, Error("STREAM_ERROR"))
  /\ UNCHANGED <<store, online, socketSessions, joining, clearing, told, forgotten>>

\* The new History: what the session has at that moment, and the two messages.
Appended(t) == history[turn[t].session] \o Pair(t)

\* Mutant: a deleted session ends the handler without a word.
AppendHistoryGivesUp(t) ==
  /\ turn[t].pc = "append"
  /\ turn[t].session \in sessions
  /\ history' = [history EXCEPT ![turn[t].session] = Appended(t)]
  /\ turn' = [turn EXCEPT ![t].pc = "done"]
  /\ UNCHANGED <<created, sessions, online, socketSessions, joining, clearing, out, told,
                 forgotten>>

\* AppendHistory, under the lock; its error is only logged.
AppendHistory(t) ==
  /\ turn[t].pc = "append"
  /\ history' = IF turn[t].session \in sessions
                THEN [history EXCEPT ![turn[t].session] = Appended(t)]
                ELSE history
  /\ turn' = [turn EXCEPT ![t].pc = "done"]
  /\ UNCHANGED <<created, sessions, online, socketSessions, joining, clearing, out, told,
                 forgotten>>

EmitDone(t) ==
  /\ turn[t].pc = "done"
  /\ turn' = [turn EXCEPT ![t] = Left(t, "end")]
  /\ Emit(turn[t].socket, Done(t))
  /\ told' = IF t \in forgotten[turn[t].session] THEN told
             ELSE [told EXCEPT ![turn[t].session] = @ \union {t}]
  /\ UNCHANGED <<store, online, socketSessions, joining, clearing, forgotten>>

HandleTurn(t) ==
  \/ GetSession(t) \/ EmitError(t)
  \/ LoadArray(t) \/ LoadLength(t) \/ Stream(t)
  \/ RecvChunk(t) \/ RecvEOF(t) \/ RecvError(t)
  \/ AppendHistory(t) \/ EmitDone(t)

\* The client on a socket takes the next event.
Take(k) ==
  /\ k \in online
  /\ out[k] # <<>>
  /\ out' = [out EXCEPT ![k] = Tail(@)]
  /\ UNCHANGED <<store, online, socketSessions, joining, clearing, turn, told, forgotten>>

Handler ==
  \/ \E t \in Turn : HandleTurn(t)
  \/ \E k \in Socket : JoinGoesOn(k) \/ ClearGoesOn(k)

-----------------------------------------------------------------------------

(* A history is made of whole turns, each once: the user message of a turn *)
(* is followed by its assistant message whatever chats run on the session  *)
(* at once, and a turn whose stream broke off is not in it                 *)
(* (AppendHistory appends both under one lock).                            *)
WholeTurns ==
  \A s \in Session :
    /\ Len(history[s]) % 2 = 0
    /\ IsInjective(history[s])
    /\ \A i \in 1 .. Len(history[s]) \div 2 :
         \E t \in Turn : SubSeq(history[s], 2 * i - 1, 2 * i) = Pair(t)

Turns(h) == {h[i][2] : i \in 1 .. Len(h)}
HasPrompt(t) == turn[t].loaded = {"array", "length"}
Torn(t) == turn[t].length > Len(turn[t].array)
Prompt(t) == SubSeq(turn[t].array, 1, turn[t].length)

(* A chat that begins after the client was told that earlier turns are     *)
(* done, which nobody clears meanwhile, has those turns in its prompt      *)
(* ("done" is emitted after AppendHistory).  A read of session.History     *)
(* that a concurrent append tears, because ChatStream does not take the    *)
(* lock of the store, is not covered.                                      *)
ContextKept ==
  \A t \in Turn : HasPrompt(t) /\ ~Torn(t) => turn[t].due \subseteq Turns(Prompt(t))

(* The conversation is kept: whole turns, of which every later prompt has  *)
(* those that were done.                                                   *)
ConversationKept == WholeTurns /\ ContextKept

=============================================================================
