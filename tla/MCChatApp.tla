----------------------------- MODULE MCChatApp -----------------------------
(* An instance of ChatApp for TLC: the sockets and the turns in an order. *)
EXTENDS ChatApp

CONSTANTS s1, k1, k2, t1, t2

OneSession == {s1}
Sockets == {k1, k2}
AllTurns == {t1, t2}
Connections == <<k1, k2>>
BothChats == <<t1, t2>>

\* Bound: what follows a hasty clear is explored up to the end of the first
\* connection and to the second message sent.
HastyBound == hasty => typed <= 1 /\ conn = 1

=============================================================================
