-------------------------- MODULE ValueReplication --------------------------
(***************************************************************************)
(* What the client promises about values, without options, parameters,     *)
(* validators, subscriptions and messages: each name has a current value,  *)
(* each change travels in order to a store that keeps the last one, and    *)
(* when a connection is made everything is sent once.  An abstract         *)
(* specification: ClientSync is shown to implement it.                     *)
(***************************************************************************)
EXTENDS Integers, Sequences

CONSTANTS
  Names, Values,
  Undefined,  \* no current value
  Nothing     \* nothing in the store

VARIABLES
  link,     \* off, open (changes are sent), announced (all has been sent)
  current,  \* the current value of each name
  channel,  \* <<name, value>>, or <<>> for what does not concern the store
  store     \* the last value the store has received

vars == <<link, current, channel, store>>

Init ==
  /\ link = "off"
  /\ current = [n \in Names |-> Undefined]
  /\ channel = <<>>
  /\ store \in [Names -> Values \cup {Nothing}]

\* What is appended to the channel are the updates U, each of them once, in
\* some order, and perhaps other things.
Sends(U) ==
  LET appended == (Len(channel) + 1)..Len(channel')
  IN /\ Len(channel') >= Len(channel)
     /\ \A i \in 1..Len(channel) : channel'[i] = channel[i]
     /\ {channel'[i] : i \in appended} \ {<<>>} = U
     /\ \A i, j \in appended : channel'[i] = channel'[j] /\ channel'[i] # <<>> => i = j

\* A value changes, at the wish of the application or of the remote side.  An
\* undefined value is not sent.
Change(n, v) ==
  /\ v # current[n]
  /\ current' = [current EXCEPT ![n] = v]
  /\ Sends(IF link = "off" \/ v = Undefined THEN {} ELSE {<<n, v>>})
  /\ UNCHANGED <<link, store>>

\* Things that do not concern the store.
Chatter == link # "off" /\ Sends({}) /\ UNCHANGED <<link, current, store>>

Open == link = "off" /\ link' = "open" /\ UNCHANGED <<current, channel, store>>

\* All defined values are sent once more, after the changes since Open.
Announce ==
  /\ link = "open" /\ link' = "announced"
  /\ Sends({<<n, current[n]>> : n \in {m \in Names : current[m] # Undefined}})
  /\ UNCHANGED <<current, store>>

\* The store receives the oldest thing in the channel.
Persist ==
  /\ link # "off"
  /\ channel # <<>>
  /\ channel' = Tail(channel)
  /\ store' = IF Head(channel) = <<>> THEN store
              ELSE [store EXCEPT ![Head(channel)[1]] = Head(channel)[2]]
  /\ UNCHANGED <<link, current>>

\* The connection is lost, and what is in the channel with it.
Close == link' = "off" /\ channel' = <<>> /\ UNCHANGED <<current, store>>

\* The process ends: only the store remains.
Crash ==
  /\ link' = "off" /\ channel' = <<>>
  /\ current' = [n \in Names |-> Undefined]
  /\ UNCHANGED store

Next ==
  \/ \E n \in Names, v \in Values \cup {Undefined} : Change(n, v)
  \/ Chatter \/ Open \/ Announce \/ Persist \/ Close \/ Crash

Spec == Init /\ [][Next]_vars
=============================================================================
