----------------------------- MODULE MCConnection -----------------------------
(***************************************************************************)
(* Small instances of Connection for TLC.                                  *)
(***************************************************************************)
EXTENDS Connection

\* A message without and one with a body.
MCOutgoing == {[key |-> "correct", internal_id |-> "not_internal", id |-> i, size |-> s] :
                 i \in {CHOOSE i \in Ids : TRUE}, s \in {0, 1}}

\* User's messages on both sides of the limits (which range over everything, "not
\* accepted" included), an internal message with a body, and a wrong key.
MCIncoming == MCOutgoing \cup
    {[key |-> k, internal_id |-> "server_accept", id |-> i, size |-> 1] :
        k \in {"correct", "wrong"}, i \in {CHOOSE i \in Ids : TRUE}}

\* A server that sends its server_accept and no more.
MCAccept == {h \in MCIncoming : h.internal_id = "server_accept" /\ h.key = "correct"}

\* A peer that sends nothing.
MCSilent == {}
===============================================================================
