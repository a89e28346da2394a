------------------------- MODULE ClientReplication -------------------------
(***************************************************************************)
(* ClientSync as an implementation of ValueReplication.  The store is what *)
(* the broker retains on the topics of values, and the channel is the      *)
(* packets on their way to it, of which only publications of values count. *)
(***************************************************************************)
EXTENDS ClientSync

Update(p) ==
  IF p.type = "publish" /\ p.topic[2] = "value" THEN <<p.topic[1], p.payload>> ELSE <<>>

Carried(q) == [i \in DOMAIN q |-> Update(q[i])]

Link ==
  CASE phase \in {"down", "connecting"} -> "off"
    [] phase = "up" -> "open"
    [] phase \in {"announcing", "session"} -> "announced"

Replication == INSTANCE ValueReplication WITH
  Names <- Items,
  Nothing <- Empty,
  link <- Link,
  current <- value,
  channel <- Carried(toBroker),
  store <- [n \in Items |-> retained[ValueTopic(n)]]

\* Every step of the client, of the connection and of the broker is one that
\* ValueReplication allows: each change that is made while the socket is open is
\* sent exactly once (unless it is to Undefined) and in order, all values are sent
\* once when a connection is made, nothing else reaches the retained values, and
\* nothing but them survives the process.
ImplementsReplication == Replication!Spec
=============================================================================
