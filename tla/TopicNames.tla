----------------------------- MODULE TopicNames -----------------------------
(***************************************************************************)
(* The topics of options as they are: segments joined by '/', of which a   *)
(* name may have several, under an id that Client::setClientId may change  *)
(* at any time.  Client::handleMessage takes a topic apart again.          *)
(*                                                                         *)
(* ClientSync has the queue to the broker, validators and parameters; here *)
(* the broker processes packets at once, and a value is the name of the    *)
(* option it is meant for.                                                 *)
(*                                                                         *)
(* A definition named ...Fault is a plausible mistake in the one after it. *)
(***************************************************************************)
EXTENDS Integers, SequencesExt

CONSTANTS
  Ids,        \* client ids
  Segments,   \* what names consist of
  NameList,   \* the names of options, each a sequence of segments, in the
              \* order of the map
  Undefined,  \* no value
  MaxSteps    \* bound on calls and failures of the environment

Names == ToSet(NameList)

ASSUME NamesAssumption ==
  /\ NameList \in Seq(Seq(Segments) \ {<<>>})
  /\ Undefined \notin Names
  /\ MaxSteps \in Nat

\* Without the leading side_assist.
Topic(id, n) == <<id, "option">> \o n
SetTopic(id, n) == Topic(id, n) \o <<"set">>
Topics == {Topic(id, n) : id \in Ids, n \in Names} \cup {SetTopic(id, n) : id \in Ids, n \in Names}

VARIABLES
  client_id,
  phase,     \* down, announcing (between uploadAll and setupSubscriptions),
             \* session
  options,   \* the names in options_
  value,     \* NamedValue::value_
  watching,  \* options that will unsubscribe from their own topic
  subs,      \* the broker's subscriptions of this client
  retained,  \* the broker's retained values
  received,  \* messages the broker has sent, not yet handled
  renamed,   \* history: setClientId was called since the connection was made
  steps

vars == <<client_id, phase, options, value, watching, subs, retained, received, renamed, steps>>

EnvironmentStep == steps < MaxSteps /\ steps' = steps + 1

\* Earlier processes have published under each id and name, or not.
Init ==
  /\ client_id \in Ids
  /\ phase = "down"
  /\ options = {}
  /\ value = [n \in Names |-> Undefined]
  /\ watching = {}
  /\ subs = {}
  /\ \E saved \in SUBSET (Ids \X Names) :
       retained = [t \in Topics |->
         IF \E s \in saved : t = Topic(s[1], s[2])
         THEN (CHOOSE s \in saved : t = Topic(s[1], s[2]))[2] ELSE Undefined]
  /\ received = <<>>
  /\ renamed = FALSE
  /\ steps = 0

-----------------------------------------------------------------------------
(***************************************************************************)
(* Subscriptions and publications.                                         *)
(***************************************************************************)

\* The retained message of each topic of the list ts that has one.
RetainedOn(ts) ==
  FlattenSeq([i \in DOMAIN ts |->
    IF retained[ts[i]] = Undefined THEN <<>>
    ELSE <<[topic |-> ts[i], payload |-> retained[ts[i]]]>>])

\* The value is asked for, the remote side's wishes are not.
SubscriptionsFault(n, acceptSaved) == IF acceptSaved THEN <<Topic(client_id, n)>> ELSE <<>>

\* setupSubscriptionsForOption.
Subscriptions(n, acceptSaved) ==
  <<SetTopic(client_id, n)>> \o (IF acceptSaved THEN <<Topic(client_id, n)>> ELSE <<>>)

SubscribeTo(ts) ==
  /\ subs' = subs \cup ToSet(ts)
  /\ received' = received \o RetainedOn(ts)

\* uploadAll does not know about options.
UploadsFault == {}

\* uploadAll.  The client is subscribed to nothing yet.
Uploads == {n \in options : value[n] # Undefined}

\* An undefined value is sent like any other.
SentFault(v) == TRUE

Sent(v) == v # Undefined

\* uploadChangedOptionValue, then the unsubscription, both under the id the
\* client has now.  The messages in queue are not yet handled.
Publish(n, v, queue) ==
  LET t == Topic(client_id, n) IN
  /\ retained' = IF Sent(v) THEN [retained EXCEPT ![t] = v] ELSE retained
  /\ received' = IF Sent(v) /\ t \in subs
                 THEN Append(queue, [topic |-> t, payload |-> v]) ELSE queue
  /\ subs' = IF n \in watching /\ v # Undefined THEN subs \ {t} ELSE subs
  /\ watching' = IF v # Undefined THEN watching \ {n} ELSE watching

SetValue(n, v, queue) ==
  /\ value' = [value EXCEPT ![n] = v]
  /\ IF v # value[n] /\ phase # "down"
     THEN Publish(n, v, queue)
     ELSE received' = queue /\ UNCHANGED <<retained, subs, watching>>

-----------------------------------------------------------------------------
(***************************************************************************)
(* The application.                                                        *)
(***************************************************************************)

\* setClientId hands the id to QMQTT and does nothing else.
SetClientId(id) ==
  /\ EnvironmentStep
  /\ id # client_id
  /\ client_id' = id
  /\ renamed' = TRUE
  /\ UNCHANGED <<phase, options, value, watching, subs, retained, received>>

AddOption(n, acceptSaved) ==
  /\ EnvironmentStep
  /\ n \notin options
  /\ options' = options \cup {n}
  /\ IF phase = "down"
     THEN UNCHANGED <<subs, received, watching>>
     ELSE /\ SubscribeTo(Subscriptions(n, acceptSaved))
          /\ watching' = IF acceptSaved THEN watching \cup {n} ELSE watching
  /\ UNCHANGED <<client_id, phase, value, retained, renamed>>

\* The application gives an option its own value, or resets it.
AppSetValue(n, v) ==
  /\ EnvironmentStep
  /\ n \in options
  /\ v # value[n]
  /\ SetValue(n, v, received)
  /\ UNCHANGED <<client_id, phase, options, renamed>>

-----------------------------------------------------------------------------
(***************************************************************************)
(* The connection.                                                         *)
(***************************************************************************)

\* A clean session, and uploadAll.
Connected ==
  /\ phase = "down"
  /\ phase' = "announcing"
  /\ subs' = {}
  /\ received' = <<>>
  /\ retained' = [t \in Topics |->
       IF \E n \in Uploads : t = Topic(client_id, n)
       THEN value[CHOOSE n \in Uploads : t = Topic(client_id, n)] ELSE retained[t]]
  /\ renamed' = FALSE
  /\ UNCHANGED <<client_id, options, value, watching, steps>>

\* setupSubscriptions, under the id the client has by now.
SetupSubscriptions ==
  LET undefined == {n \in options : value[n] = Undefined}
  IN /\ phase = "announcing"
     /\ phase' = "session"
     /\ SubscribeTo(FlattenSeq([i \in DOMAIN NameList |->
          IF NameList[i] \in options
          THEN Subscriptions(NameList[i], NameList[i] \in undefined) ELSE <<>>]))
     /\ watching' = watching \cup undefined
     /\ UNCHANGED <<client_id, options, value, retained, renamed, steps>>

Disconnected ==
  /\ EnvironmentStep
  /\ phase = "session"
  /\ phase' = "down"
  /\ received' = <<>>
  /\ UNCHANGED <<client_id, options, value, watching, subs, retained, renamed>>

\* The remote side sets what it takes for option n of client id.
RemoteSet(id, n) ==
  /\ EnvironmentStep
  /\ SetTopic(id, n) \in subs
  /\ phase # "down"
  /\ received' = Append(received, [topic |-> SetTopic(id, n), payload |-> n])
  /\ UNCHANGED <<client_id, phase, options, value, watching, subs, retained, renamed>>

-----------------------------------------------------------------------------
(***************************************************************************)
(* handleMessage.                                                          *)
(***************************************************************************)

\* Any client's topic will do.
HasPrefixFault(t) == TRUE

\* The topic begins with side_assist, the id the client has now.
HasPrefix(t) == t[1] = client_id

\* Three segments are an operation, whatever it is called.
IsSetFault(t) == Len(t) = 4

IsSet(t) == Len(t) = 4 /\ t[4] = "set"
IsSaved(t) == Len(t) = 3

\* The second of the segments is taken for the name.
NameIn(t) == <<t[3]>>

Routable(t) ==
  HasPrefix(t) /\ t[2] = "option" /\ (IsSet(t) \/ IsSaved(t)) /\ NameIn(t) \in options

HandleMessage ==
  /\ phase = "session"
  /\ received # <<>>
  /\ LET t == Head(received).topic
         n == NameIn(t)
     IN IF Routable(t) /\ (IsSaved(t) => value[n] = Undefined)
        THEN SetValue(n, Head(received).payload, Tail(received))
        ELSE received' = Tail(received) /\ UNCHANGED <<value, retained, subs, watching>>
  /\ UNCHANGED <<client_id, phase, options, renamed, steps>>

Next ==
  \/ \E id \in Ids : SetClientId(id)
  \/ \E n \in Names, acceptSaved \in BOOLEAN : AddOption(n, acceptSaved)
  \/ \E n \in Names : AppSetValue(n, n) \/ AppSetValue(n, Undefined)
  \/ \E id \in Ids, n \in Names : RemoteSet(id, n)
  \/ Connected \/ SetupSubscriptions \/ Disconnected \/ HandleMessage

Spec == Init /\ [][Next]_vars

-----------------------------------------------------------------------------
(***************************************************************************)
(* Properties.                                                             *)
(***************************************************************************)
TypeOK ==
  /\ client_id \in Ids
  /\ phase \in {"down", "announcing", "session"}
  /\ options \subseteq Names
  /\ value \in [Names -> Names \cup {Undefined}]
  /\ watching \subseteq options
  /\ subs \subseteq Topics
  /\ retained \in [Topics -> Names \cup {Undefined}]
  /\ received \in Seq([topic : Topics, payload : Names])
  /\ renamed \in BOOLEAN
  /\ steps \in 0..MaxSteps

IsPlain(n) == Len(n) = 1

\* An option never gets a value meant for another one, with the exception of
\* n and n/set: the topic of the second is the one on which the first is set,
\* and the retained value of the second sets the first (and so on, n/set/set).
NoForeignValues ==
  \A n \in Names : value[n] # Undefined =>
    /\ IsPrefix(n, value[n])
    /\ \A i \in Len(n) + 1..Len(value[n]) : value[n][i] = "set"

\* A message sent to the client under an earlier id changes nothing, although
\* its subscriptions stay in force until the connection ends.
EarlierIdsAreNotHeard ==
  [][\A n \in Names : HandleMessage /\ value'[n] # value[n] =>
       Head(received).topic \in {Topic(client_id, n), SetTopic(client_id, n)}]_vars

\* In a session without a change of id exactly the options with a plain name can
\* be set: others are subscribed to, but no message is routed to them.  Here, too,
\* n/set is an exception, since its first value cancels the subscription of n.
PlainNamesAreHeard ==
  phase = "session" /\ ~renamed =>
    \A n \in options :
      LET t == SetTopic(client_id, n) IN
        /\ t \in subs \/ Append(n, "set") \in options
        /\ IsPlain(n) <=> Routable(t) /\ NameIn(t) = n

\* What a change of the id leaves unpublished is published by the next
\* connection: in a session of one id the broker has each value under it.
PublishedUnderTheId ==
  phase # "down" /\ ~renamed =>
    \A n \in options : value[n] # Undefined => retained[Topic(client_id, n)] = value[n]
=============================================================================
