------------------------------ MODULE Mailbox ------------------------------
(***************************************************************************)
(* What UnboundedChan promises, without threads, mutex or condition        *)
(* variable: what was received is always a prefix of what was sent, one    *)
(* item at a time, and after the mailbox is shut nothing enters it.        *)
(***************************************************************************)
EXTENDS Naturals, Sequences

CONSTANT Item

VARIABLES sent, received, shut

Init == sent = <<>> /\ received = <<>> /\ shut = FALSE

Put(i) ==
  /\ ~shut
  /\ sent' = Append(sent, i)
  /\ UNCHANGED <<received, shut>>

Get ==
  /\ Len(received) < Len(sent)
  /\ received' = Append(received, sent[Len(received) + 1])
  /\ UNCHANGED <<sent, shut>>

Shut ==
  /\ shut' = TRUE
  /\ UNCHANGED <<sent, received>>

Next == Get \/ Shut \/ \E i \in Item : Put(i)

Spec == Init /\ [][Next]_<<sent, received, shut>>

=============================================================================
