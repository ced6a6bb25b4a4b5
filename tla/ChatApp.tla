------------------------------ MODULE ChatApp ------------------------------
(***************************************************************************)
(* The page of examples/chatbot-ui (app.js) against the server ChatServer: *)
(* one browser tab, whose socket.io client reconnects when the connection  *)
(* is lost.  Every connection is a socket of its own for the server, in    *)
(* the order Connection gives; what the page and the server sent on a      *)
(* connection that is lost is lost with it.  Other clients may delete or   *)
(* clear sessions through the REST interface.                              *)
(*                                                                         *)
(* The socket library (external) delivers the events of one connection in  *)
(* the order they were emitted; handlers of the server that have begun run *)
(* concurrently.  What is on the page is a sequence of bubbles.            *)
(***************************************************************************)
EXTENDS ChatServer

CONSTANTS
  Connection,  \* bound: the sequence of sockets the tab may use
  Chats        \* bound: the sequence of turns the user may send

ASSUME AppAssumption ==
  /\ Connection \in Seq(Socket) /\ IsInjective(Connection)
  /\ Chats \in Seq(Turn) /\ IsInjective(Chats)

VARIABLES
  sessionId,  \* ChatApp.sessionId
  conn,       \* how many connections were used; the last one is current
  up,         \* requests emitted on the current connection, not yet handled
  wants,      \* this.socket is set: the client library connects again
  enabled,    \* the message input and the send button
  isStreaming,
  current,    \* currentBotMessage: a bubble, or 0
  bubbles,    \* bot bubbles ever added: the set of turns whose text each has
  typed,      \* how many turns the user has sent
  hasty       \* history: the server handled a clear before it had stored the
              \* session of the connection

pageVars == <<sessionId, conn, up, wants, enabled, isStreaming, current, bubbles, typed,
              hasty>>
vars == <<serverVars, pageVars>>

Here == Connection[conn]
Connected == conn > 0 /\ Here \in online

Init ==
  /\ ServerInit
  /\ sessionId = None /\ conn = 0 /\ up = <<>> /\ wants = FALSE
  /\ enabled = FALSE /\ isStreaming = FALSE /\ current = 0
  /\ bubbles = <<>> /\ typed = 0 /\ hasty = FALSE

-----------------------------------------------------------------------------
(* What the user does. *)

\* handleConnect and createNewSession: the old socket is disconnected, the
\* server makes a session and a new connection will join it.  Neither touches
\* isStreaming or currentBotMessage.
createSession ==
  \E s \in Session :
    /\ s \notin created
    /\ created' = created \union {s}
    /\ sessions' = sessions \union {s}
    /\ sessionId' = s
    /\ wants' = TRUE
    /\ up' = <<>>
    /\ enabled' = FALSE
    /\ IF Connected
       THEN /\ online' = online \ {Here}
            /\ socketSessions' = [socketSessions EXCEPT ![Here] = None]
            /\ out' = [out EXCEPT ![Here] = <<>>]
       ELSE UNCHANGED <<online, socketSessions, out>>
    /\ UNCHANGED <<history, joining, clearing, turn, told, forgotten,
                   conn, isStreaming, current, bubbles, typed, hasty>>

CanSend == Connected /\ enabled /\ ~isStreaming

sendMessage ==
  /\ CanSend
  /\ typed < Len(Chats)
  /\ typed' = typed + 1
  /\ up' = Append(up, "chat")
  /\ enabled' = FALSE
  /\ UNCHANGED <<serverVars, sessionId, conn, wants, isStreaming, current, bubbles,
                 hasty>>

\* The button is never disabled.  Bound: one clear at a time.
clearHistory ==
  /\ Connected
  /\ "clear" \notin Range(up) /\ clearing[Here] = AtRest
  /\ Answer("cleared") \notin Range(out[Here])
  /\ up' = Append(up, "clear")
  /\ UNCHANGED <<serverVars, sessionId, conn, wants, enabled, isStreaming, current,
                 bubbles, typed, hasty>>

-----------------------------------------------------------------------------
(* The connection. *)

\* A connection opens; the connect handler emits join.
Open ==
  /\ wants
  /\ ~Connected
  /\ conn < Len(Connection)
  /\ conn' = conn + 1
  /\ Connect(Connection[conn + 1])
  /\ up' = <<"join">>
  /\ UNCHANGED <<sessionId, wants, enabled, isStreaming, current, bubbles, typed, hasty>>

\* It is lost; the disconnect handler of the page.
Lose ==
  /\ Connected
  /\ Disconnect(Here)
  /\ up' = <<>>
  /\ enabled' = FALSE
  /\ UNCHANGED <<sessionId, conn, wants, isStreaming, current, bubbles, typed, hasty>>

\* The server begins to handle the next request of the connection.
Deliver ==
  /\ Connected
  /\ up # <<>>
  /\ CASE Head(up) = "join"  -> handleJoin(Here, sessionId)
       [] Head(up) = "chat"  -> handleChat(Here, Chats[typed])
       [] Head(up) = "clear" -> handleClear(Here)
  /\ up' = Tail(up)
  /\ hasty' = (hasty \/ (Head(up) = "clear" /\ socketSessions[Here] = None))
  /\ UNCHANGED <<sessionId, conn, wants, enabled, isStreaming, current, bubbles, typed>>

-----------------------------------------------------------------------------
(* The handlers of the page.  Each takes the first event of the connection. *)

On(type) ==
  /\ Connected
  /\ out[Here] # <<>>
  /\ Head(out[Here]).type = type
  /\ Take(Here)
  /\ UNCHANGED <<sessionId, conn, up, wants, typed, hasty>>

OnJoined ==
  /\ On("joined")
  /\ enabled' = TRUE
  /\ UNCHANGED <<isStreaming, current, bubbles>>

handleChunk ==
  /\ On("chunk")
  /\ LET t == Head(out[Here]).turn
         opened == ~isStreaming
         shown == IF opened THEN Append(bubbles, {}) ELSE bubbles
         at == IF opened THEN Len(shown) ELSE current
     IN /\ isStreaming' = TRUE
        /\ current' = at
        /\ bubbles' = IF at = 0 THEN shown ELSE [shown EXCEPT ![at] = @ \union {t}]
  /\ UNCHANGED enabled

handleDone ==
  /\ On("done")
  /\ isStreaming' = FALSE
  /\ current' = 0
  /\ enabled' = TRUE
  /\ UNCHANGED bubbles

handleError ==
  /\ On("error")
  /\ isStreaming' = FALSE
  /\ current' = 0
  /\ enabled' = TRUE
  /\ UNCHANGED bubbles

\* Mutant: a clear ends the answer on the page.
OnClearedResets ==
  /\ On("cleared")
  /\ isStreaming' = FALSE
  /\ current' = 0
  /\ enabled' = TRUE
  /\ UNCHANGED bubbles

\* clearMessages empties the page: a bubble in progress is off it, and grows on.
OnCleared ==
  /\ On("cleared")
  /\ UNCHANGED <<enabled, isStreaming, current, bubbles>>

OnEvent == OnJoined \/ handleChunk \/ handleDone \/ handleError \/ OnCleared

Server == Handler /\ UNCHANGED pageVars

\* Others: the REST interface.
Others ==
  /\ \E s \in Session : Delete(s) \/ Clear(s)
  /\ UNCHANGED pageVars

Next ==
  \/ createSession \/ sendMessage \/ clearHistory
  \/ Open \/ Lose \/ Deliver
  \/ OnEvent
  \/ Server \/ Others

Spec == Init /\ [][Next]_vars
          /\ WF_vars(Deliver) /\ WF_vars(OnEvent)
          /\ \A t \in Turn : WF_vars(HandleTurn(t) /\ UNCHANGED pageVars)
          /\ \A k \in Socket : /\ WF_vars(JoinGoesOn(k) /\ UNCHANGED pageVars)
                               /\ WF_vars(ClearGoesOn(k) /\ UNCHANGED pageVars)

-----------------------------------------------------------------------------

(* A bubble holds the text of one answer only.  handleChunk ignores        *)
(* message_id: it relies on nobody sending a message before the answer to  *)
(* the last one has ended, through joins, clears, errors, lost connections *)
(* and new sessions.  It does not hold once the server has handled a clear *)
(* before it stored the session of the connection: NOT_JOINED enables the  *)
(* input, and "joined", or NOT_JOINED when it comes late, enables it again *)
(* while the answer to a message sent meanwhile is under way.              *)
OneAnswerPerBubble ==
  hasty \/ \A i \in 1 .. Len(bubbles) : Cardinality(bubbles[i]) <= 1

(* After a message is sent on a connection, that connection is lost or the *)
(* input is enabled again: the server answers every chat with "done" or an *)
(* error, whatever happens to the session.                                 *)
InputComesBack ==
  \A t \in 1 .. Len(Chats) :
    (typed = t /\ ~enabled /\ Connected) ~> (enabled \/ ~Connected \/ typed > t)

=============================================================================
