------------------------------- MODULE Stream -------------------------------
(***************************************************************************)
(* stream of src/schema/stream.go, what schema.Pipe makes: a Go channel of *)
(* items that the sender closes, and a channel `closed' that the receiver  *)
(* closes.  The modules that own such streams hold them as records and     *)
(* step through send with these operators.                                 *)
(*                                                                         *)
(* send looks at `closed' first and then selects between `closed' and the  *)
(* room in items: the receiver may close in between, and when both cases   *)
(* are ready the select may still take the item.                           *)
(***************************************************************************)
EXTENDS Naturals, Sequences

\* items in the channel; ended: items is closed; closed: closed is closed.
newStream == [items |-> <<>>, ended |-> FALSE, closed |-> FALSE]

HasRoom(s, cap) == Len(s.items) < cap

Sent(s, i) == [s EXCEPT !.items = Append(@, i)]

\* A receive on items goes on: an item is there, or there will be none.
Received(s) == [s EXCEPT !.items = Tail(@)]
HasItem(s) == s.items # <<>>
AtEnd(s) == s.items = <<>> /\ s.ended

closeSend(s) == [s EXCEPT !.ended = TRUE]
closeRecv(s) == [s EXCEPT !.closed = TRUE]

=============================================================================
