------------------------------- MODULE Channel -------------------------------
(***************************************************************************)
(* What a connection promises to the two programs it connects: the         *)
(* messages given to send_message on one side reach the other side's User  *)
(* in that order, none skipped, repeated or changed.  It may stop at any   *)
(* time: whoever is still waiting for a message then gets none.  A queue   *)
(* between the two threads of a User promises the same of its items.       *)
(***************************************************************************)
EXTENDS Naturals, Sequences

CONSTANT Messages

VARIABLES
    given,       \* the messages given to send_message on one side
    received     \* the messages on_message_received got on the other side

Init == given = <<>> /\ received = <<>>

Send == \E m \in Messages : given' = Append(given, m) /\ UNCHANGED received

Receive ==
    /\ Len(received) < Len(given)
    /\ received' = Append(received, given[Len(received) + 1])
    /\ UNCHANGED given

Spec == Init /\ [][Send \/ Receive]_<<given, received>>
===============================================================================
