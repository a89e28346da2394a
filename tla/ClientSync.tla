----------------------------- MODULE ClientSync -----------------------------
(***************************************************************************)
(* The synchronisation protocol of SideAssist::Qt::Client.  A process      *)
(* holds options (which the remote side may set) and parameters (which it  *)
(* only reports).  Each has a topic on an MQTT broker, where the last      *)
(* value is retained; the retained value of an option outlives the process *)
(* and is its initial value in the next one.                               *)
(*                                                                         *)
(* The client runs in one Qt event loop, so one action is one event        *)
(* handler or one call by the application, with every slot it triggers.    *)
(* The QMQTT library, TCP, the broker and the remote side are external.    *)
(***************************************************************************)
EXTENDS Integers, SequencesExt

CONSTANTS
  Options,      \* names the application may give to addOption
  Params,       \* names the application may give to addParameter
  Values,       \* JSON values other than Undefined
  Validators,   \* validator objects, compared by pointer
  Accepts,      \* Accepts[w]: the values validator w accepts
  AppValues,    \* what the application passes to NamedValue::setValue
  Undefined,    \* QJsonValue::Undefined
  NoValidator,  \* the null validator pointer
  Malformed,    \* a payload that is not JSON or has no "value"
  Empty,        \* the zero-length payload; on the broker: nothing retained
  MaxSteps      \* bound on calls and failures of the environment

Items == Options \cup Params
Payloads == Values \cup Validators \cup {Malformed, Empty}

ASSUME ConstantsAssumption ==
  /\ IsFiniteSet(Options) /\ IsFiniteSet(Params)
  /\ Options \cap Params = {}
  /\ Values \cap Validators = {}
  /\ {Undefined, Malformed, Empty, NoValidator} \cap (Values \cup Validators) = {}
  /\ Undefined \notin {Malformed, Empty}
  /\ Malformed # Empty
  /\ Accepts \in [Validators -> SUBSET Values]
  /\ AppValues \subseteq Values \cup {Undefined}
  /\ MaxSteps \in Nat

(***************************************************************************)
(* Topics, written <<name, kind>>, stand for side_assist/<client id>/      *)
(* {option,param}/<name>, the same with /set, and with /validator.         *)
(***************************************************************************)
Topics == Items \X {"value", "set", "validator"}
ValueTopic(n) == <<n, "value">>
SetTopic(n) == <<n, "set">>
ValidatorTopic(n) == <<n, "validator">>

Publish(t, p) == [type |-> "publish", topic |-> t, payload |-> p]
Subscribe(t) == [type |-> "subscribe", topic |-> t, payload |-> Empty]
Unsubscribe(t) == [type |-> "unsubscribe", topic |-> t, payload |-> Empty]

Packets == {Publish(t, p) : t \in Topics, p \in Payloads}
           \cup {Subscribe(t) : t \in Topics}
           \cup {Unsubscribe(t) : t \in Topics}
Messages == [topic : Topics, payload : Payloads]

VARIABLES
  phase,      \* QMQTT's connection: down, connecting, up (socket open, no
              \* CONNACK yet), announcing (between the two slots that run
              \* on connected), session
  created,    \* the names in options_ and parameters_
  value,      \* NamedValue::value_
  validator,  \* NamedValue::validator_
  watching,   \* options whose valueChanged is connected to
              \* unsubscribeInitialValueWhenOptionIsNotUndefined
  toBroker,   \* packets sent and not yet processed by the broker
  toClient,   \* messages the broker has sent, not yet handled
  retained,   \* the broker's retained message of each topic
  subs,       \* the broker's subscriptions of this client
  steps       \* environment steps so far

clientVars == <<created, value, validator, watching>>
netVars == <<toBroker, toClient, retained, subs>>
vars == <<phase, created, value, validator, watching,
          toBroker, toClient, retained, subs, steps>>

TypeOK ==
  /\ phase \in {"down", "connecting", "up", "announcing", "session"}
  /\ created \subseteq Items
  /\ value \in [Items -> Values \cup {Undefined}]
  /\ validator \in [Items -> Validators \cup {NoValidator}]
  /\ watching \subseteq Options
  /\ toBroker \in Seq(Packets)
  /\ toClient \in Seq(Messages)
  /\ retained \in [Topics -> Payloads]
  /\ subs \subseteq Topics
  /\ steps \in 0..MaxSteps

\* mqtt_client_->isConnectedToHost(): the socket is open.
Online == phase \in {"up", "announcing", "session"}

\* The environment takes one of its MaxSteps steps.
EnvironmentStep == steps < MaxSteps /\ steps' = steps + 1

\* The broker may retain what earlier processes published.
Init ==
  /\ phase = "down"
  /\ created = {}
  /\ value = [n \in Items |-> Undefined]
  /\ validator = [n \in Items |-> NoValidator]
  /\ watching = {}
  /\ toBroker = <<>>
  /\ toClient = <<>>
  /\ \E saved \in [Items -> Values \cup {Empty}],
        rules \in [Items -> Validators \cup {Empty}] :
       retained = [t \in Topics |-> CASE t[2] = "value" -> saved[t[1]]
                                      [] t[2] = "set" -> Empty
                                      [] t[2] = "validator" -> rules[t[1]]]
  /\ subs = {}
  /\ steps = 0

-----------------------------------------------------------------------------
(***************************************************************************)
(* What the handlers send.                                                 *)
(***************************************************************************)

(***************************************************************************)
(* A definition named ...Fault is a plausible mistake in the one after it. *)
(***************************************************************************)

\* The value is sent with the next connection only.
UploadValueFault(n, v) == <<>>

\* uploadOptionValue, uploadParameterValue: an undefined value is not sent.
UploadValue(n, v) ==
  IF v = Undefined THEN <<>> ELSE <<Publish(ValueTopic(n), v)>>

\* uploadOptionValidator, uploadParameterValidator: a null validator is sent
\* as the empty payload, which erases the retained one.
UploadValidator(n, w) ==
  <<Publish(ValidatorTopic(n), IF w = NoValidator THEN Empty ELSE w)>>

\* One of the two maps is forgotten, or the validators are.
UploadAllOptionsFault ==
  {Publish(ValueTopic(n), value[n]) :
     n \in {i \in created \cap Options : value[i] # Undefined}}

UploadAllValuesFault ==
  {Publish(ValueTopic(n), value[n]) : n \in {i \in created : value[i] # Undefined}}

\* uploadAll.  Null validators are skipped here.
UploadAll ==
  {Publish(ValueTopic(n), value[n]) : n \in {i \in created : value[i] # Undefined}}
  \cup
  {Publish(ValidatorTopic(n), validator[n]) :
     n \in {i \in created : validator[i] # NoValidator}}

\* The condition on the value is inverted.
UnsubscribeSavedFault(n, v) ==
  IF n \in watching /\ v = Undefined THEN <<Unsubscribe(ValueTopic(n))>> ELSE <<>>

\* unsubscribeInitialValueWhenOptionIsNotUndefined.
UnsubscribeSaved(n, v) ==
  IF n \in watching /\ v # Undefined THEN <<Unsubscribe(ValueTopic(n))>> ELSE <<>>

\* The upload is connected twice.
ValueSlotsFault(n, v) == UploadValue(n, v) \o UploadValue(n, v) \o UnsubscribeSaved(n, v)

\* The slots of valueChanged, in the order in which they were connected:
\* uploadChangedOptionValue (or ...ParameterValue), then the unsubscription.
ValueSlots(n, v) == UploadValue(n, v) \o UnsubscribeSaved(n, v)

\* Only one of the two topics is subscribed to, or never the second.
OneSubscriptionFault(n, acceptSaved) ==
  {Subscribe(IF acceptSaved THEN ValueTopic(n) ELSE SetTopic(n))}

NoSavedValueFault(n, acceptSaved) == {Subscribe(SetTopic(n))}

\* setupSubscriptionsForOption.
OptionSubscriptions(n, acceptSaved) ==
  {Subscribe(SetTopic(n))} \cup
  (IF acceptSaved THEN {Subscribe(ValueTopic(n))} ELSE {})

\* A loop over a map that sends the packets S.  They are on distinct topics,
\* so that their order within the loop does not matter to the broker.
SendAll(S) == toBroker' = toBroker \o SetToSeq(S)

\* NamedValue::setValue.  A changed value runs the slots of valueChanged.
\* The unsubscription disconnects its slot, every duplicate of it included.
SetValue(n, v) ==
  /\ value' = [value EXCEPT ![n] = v]
  /\ IF v # value[n] /\ Online
     THEN /\ toBroker' = toBroker \o ValueSlots(n, v)
          /\ watching' = IF v # Undefined THEN watching \ {n} ELSE watching
     ELSE UNCHANGED <<toBroker, watching>>

-----------------------------------------------------------------------------
(***************************************************************************)
(* Calls by the application.                                               *)
(***************************************************************************)

\* addOption, or option with create_if_not_found, of a new name.  For a name
\* that exists both only return the object.
AddOption(n, acceptSaved) ==
  /\ EnvironmentStep
  /\ n \in Options \ created
  /\ created' = created \cup {n}
  /\ IF Online
     THEN /\ SendAll(OptionSubscriptions(n, acceptSaved))
          /\ watching' = IF acceptSaved THEN watching \cup {n} ELSE watching
     ELSE UNCHANGED <<toBroker, watching>>
  /\ UNCHANGED <<phase, value, validator, toClient, retained, subs>>

\* addParameter, or parameter with create_if_not_found, of a new name.
AddParameter(n) ==
  /\ EnvironmentStep
  /\ n \in Params \ created
  /\ created' = created \cup {n}
  /\ UNCHANGED <<phase, value, validator, watching>>
  /\ UNCHANGED netVars

AppSetValue(n, v) ==
  /\ EnvironmentStep
  /\ n \in created
  /\ v # value[n]
  /\ SetValue(n, v)
  /\ UNCHANGED <<phase, created, validator, toClient, retained, subs>>

\* NamedValue::setValidator and the upload its validatorChanged triggers.
\* The current value is not validated again.
AppSetValidator(n, w) ==
  /\ EnvironmentStep
  /\ n \in created
  /\ w # validator[n]
  /\ validator' = [validator EXCEPT ![n] = w]
  /\ toBroker' = IF Online THEN toBroker \o UploadValidator(n, w) ELSE toBroker
  /\ UNCHANGED <<phase, created, value, watching, toClient, retained, subs>>

ConnectToHost ==
  /\ EnvironmentStep
  /\ phase = "down"
  /\ phase' = "connecting"
  /\ UNCHANGED clientVars
  /\ UNCHANGED netVars

-----------------------------------------------------------------------------
(***************************************************************************)
(* The connection.                                                         *)
(***************************************************************************)

\* The broker keeps the session, and what it holds for a former process.
KeptSessionFault == FALSE

\* connectToHost asks for a clean session each time.
CleanSession == TRUE

\* The socket opens and CONNECT is on its way.  For a clean session the
\* broker starts with no subscription and no queued message.
SocketUp ==
  /\ phase = "connecting"
  /\ phase' = "up"
  /\ subs' = IF CleanSession THEN {} ELSE subs
  /\ toClient' = IF CleanSession THEN <<>> ELSE toClient
  /\ UNCHANGED <<toBroker, retained, steps>>
  /\ UNCHANGED clientVars

\* An error other than a refused connection is only logged.
ConnectFails ==
  /\ phase = "connecting"
  /\ phase' = "down"
  /\ UNCHANGED <<steps>>
  /\ UNCHANGED clientVars
  /\ UNCHANGED netVars

\* CONNACK arrives and QMQTT emits connected.  Its first slot re-emits it as
\* Client::connected, whose slots are uploadAll and then the application's.
HandleConnected ==
  /\ phase = "up"
  /\ phase' = "announcing"
  /\ SendAll(UploadAll)
  /\ UNCHANGED clientVars
  /\ UNCHANGED <<toClient, retained, subs, steps>>

\* The second slot of QMQTT's connected, after the application's slots.
SetupSubscriptions ==
  LET options == created \cap Options
      undefined == {n \in options : value[n] = Undefined}
  IN /\ phase = "announcing"
     /\ phase' = "session"
     /\ SendAll(UNION {OptionSubscriptions(n, n \in undefined) : n \in options})
     /\ watching' = watching \cup undefined
     /\ UNCHANGED <<created, value, validator, toClient, retained, subs, steps>>

\* The connection breaks: what is in flight is lost, in both directions.
LinkLost ==
  /\ EnvironmentStep
  /\ phase \in {"up", "session"}
  /\ phase' = "down"
  /\ toBroker' = <<>>
  /\ toClient' = <<>>
  /\ UNCHANGED <<retained, subs>>
  /\ UNCHANGED clientVars

\* The process ends and another one starts: it crashed, was closed, or
\* handleMqttError called exit because the connection was refused.
Restart ==
  /\ EnvironmentStep
  /\ phase' = "down"
  /\ created' = {}
  /\ value' = [n \in Items |-> Undefined]
  /\ validator' = [n \in Items |-> NoValidator]
  /\ watching' = {}
  /\ toBroker' = <<>>
  /\ toClient' = <<>>
  /\ UNCHANGED <<retained, subs>>

-----------------------------------------------------------------------------
(***************************************************************************)
(* The broker and the remote side (external).                              *)
(***************************************************************************)

\* The subscribed topics, of values and of sets, never carry Empty: it only
\* means that there is nothing retained to deliver.
Deliver(t, p) ==
  toClient' = IF t \in subs' /\ p # Empty
              THEN Append(toClient, [topic |-> t, payload |-> p]) ELSE toClient

\* The broker processes the next packet.  A publication is retained and sent
\* to the subscriber, who may be its author; a subscription is answered with
\* the retained message.
BrokerReceive ==
  /\ Online
  /\ toBroker # <<>>
  /\ LET p == Head(toBroker) IN
       /\ subs' = CASE p.type = "subscribe" -> subs \cup {p.topic}
                    [] p.type = "unsubscribe" -> subs \ {p.topic}
                    [] p.type = "publish" -> subs
       /\ IF p.type = "publish"
          THEN /\ retained' = [retained EXCEPT ![p.topic] = p.payload]
               /\ Deliver(p.topic, p.payload)
          ELSE /\ UNCHANGED retained
               /\ Deliver(p.topic, retained[p.topic])
  /\ toBroker' = Tail(toBroker)
  /\ UNCHANGED <<phase, steps>>
  /\ UNCHANGED clientVars

\* The remote side publishes on /set, without the retain flag.
RemoteSet(n, p) ==
  /\ EnvironmentStep
  /\ SetTopic(n) \in subs
  /\ UNCHANGED subs
  /\ Deliver(SetTopic(n), p)
  /\ UNCHANGED <<phase, toBroker, retained>>
  /\ UNCHANGED clientVars

-----------------------------------------------------------------------------
(***************************************************************************)
(* Client::handleMessage.                                                  *)
(***************************************************************************)

\* NamedValue::validate.
Validates(n, v) ==
  validator[n] = NoValidator \/ v \in Accepts[validator[n]]

\* The topic names an option of this client and an operation it knows.
Routable(t) == t[1] \in created \cap Options /\ t[2] \in {"value", "set"}

\* A message on the option's own topic counts even if it is an echo.
AwaitedFault(m) == TRUE

\* A saved value counts only while the option has none.
Awaited(m) == m.topic[2] = "value" => value[m.topic[1]] = Undefined

\* The parse error is logged, and the message used.
WellFormedFault(m) == TRUE

\* The payload is JSON with a "value".
WellFormed(m) == m.payload \in Values

HandleMessage ==
  /\ phase = "session"
  /\ toClient # <<>>
  /\ LET m == Head(toClient) IN
       IF Routable(m.topic) /\ Awaited(m) /\ WellFormed(m) /\ Validates(m.topic[1], m.payload)
       THEN SetValue(m.topic[1], m.payload)
       ELSE UNCHANGED <<value, toBroker, watching>>
  /\ toClient' = Tail(toClient)
  /\ UNCHANGED <<phase, created, validator, retained, subs, steps>>

-----------------------------------------------------------------------------
AppCalls ==
  \/ \E n \in Options, accept \in BOOLEAN : AddOption(n, accept)
  \/ \E n \in Params : AddParameter(n)
  \/ \E n \in Items, v \in AppValues : AppSetValue(n, v)
  \/ \E n \in Items, w \in Validators \cup {NoValidator} : AppSetValidator(n, w)
  \/ ConnectToHost

Failures == LinkLost \/ Restart \/ ConnectFails

Next ==
  \/ AppCalls
  \/ Failures
  \/ \E n \in Options, p \in Values \cup {Malformed} : RemoteSet(n, p)
  \/ SocketUp
  \/ HandleConnected
  \/ SetupSubscriptions
  \/ BrokerReceive
  \/ HandleMessage

Spec == Init /\ [][Next]_vars

\* The event loop runs, and the broker and TCP make progress while the
\* connection lasts.  Nothing obliges the application or the remote side.
FairSpec ==
  /\ Spec
  /\ WF_vars(SocketUp)
  /\ WF_vars(HandleConnected)
  /\ WF_vars(SetupSubscriptions)
  /\ WF_vars(BrokerReceive)
  /\ WF_vars(HandleMessage)

-----------------------------------------------------------------------------
(***************************************************************************)
(* Properties.                                                             *)
(***************************************************************************)

Publishes(x, t) == x.type = "publish" /\ x.topic = t

\* A broker that holds store retains p on t once it has processed q.
WillHold(q, store, t, p) ==
  \/ \E i \in DOMAIN q : /\ q[i] = Publish(t, p)
                         /\ \A j \in DOMAIN q : j > i => ~Publishes(q[j], t)
  \/ store[t] = p /\ \A i \in DOMAIN q : ~Publishes(q[i], t)

\* A client with the subscriptions ts has t once the broker has processed q.
WillSubscribe(q, ts, t) ==
  \/ \E i \in DOMAIN q : /\ q[i] = Subscribe(t)
                         /\ \A j \in DOMAIN q : j > i => q[j] # Unsubscribe(t)
  \/ t \in ts /\ \A i \in DOMAIN q : q[i] # Unsubscribe(t)

\* While connected, what the broker holds or is about to hold for an option
\* or parameter that has a value is that value, whoever set it and whether it
\* changed before, during or after the connection was made (uploadAll and the
\* upload slots together miss no change and never publish in a wrong order).
BrokerFollowsValues ==
  phase \in {"announcing", "session"} =>
    \A n \in created : value[n] # Undefined =>
      WillHold(toBroker, retained, ValueTopic(n), value[n])

\* The same for a validator.  It is not so for the null validator: one that
\* was removed while offline stays on the broker, since uploadAll skips it.
BrokerFollowsValidators ==
  phase \in {"announcing", "session"} =>
    \A n \in created : validator[n] # NoValidator =>
      WillHold(toBroker, retained, ValidatorTopic(n), validator[n])

\* In a session the remote side can set every option: wherever addOption was
\* called (offline, while connecting, in a slot of connected, or online), the
\* subscription to /set has been made or is on its way.
EveryOptionIsSettable ==
  phase = "session" =>
    \A n \in created \cap Options : WillSubscribe(toBroker, subs, SetTopic(n))

\* todo.md: subscribe only to options that exist, and drop the subscription
\* to the option's own topic once its value is not Undefined.  While such a
\* subscription lives, the slot that will drop it is connected.
SavedSubscriptionIsTemporary ==
  Online => \A t \in Topics : WillSubscribe(toBroker, subs, t) =>
    /\ Routable(t)
    /\ t[2] = "value" => value[t[1]] = Undefined /\ t[1] \in watching

\* Every message that reaches the client can be routed: the branches of
\* handleMessage for an illegal option name or operation are never taken,
\* not even by messages meant for an earlier connection or process.
MessagesAreRoutable ==
  phase = "session" => \A i \in DOMAIN toClient : Routable(toClient[i].topic)

\* A remote message that changes an option passes the validator installed at
\* that time, and a saved value is adopted only if it is the newest one: what
\* the broker holds and will hold, not the echo of a value since replaced.
RemoteUpdatesAreSound ==
  [][\A n \in Items : HandleMessage /\ value'[n] # value[n] =>
       /\ Validates(n, value'[n])
       /\ Head(toClient).topic = ValueTopic(n) =>
            WillHold(toBroker, retained, ValueTopic(n), value'[n])]_vars

\* If a session lasts, the broker ends up holding every value and validator.
Converged ==
  \A n \in created :
    /\ value[n] # Undefined => retained[ValueTopic(n)] = value[n]
    /\ validator[n] # NoValidator => retained[ValidatorTopic(n)] = validator[n]

ValuesReachBroker == <>[](phase = "session") => <>[]Converged

\* A saved value reaches a new process: an option that is undefined when the
\* session starts becomes defined if the broker holds a value its validator
\* accepts, unless the connection ends or the validator turns it down.
SavedValueIsRecovered ==
  \A n \in Options :
    (/\ phase = "announcing" /\ n \in created /\ value[n] = Undefined
     /\ retained[ValueTopic(n)] \in Values
     /\ Validates(n, retained[ValueTopic(n)]))
    ~> \/ value[n] # Undefined
       \/ phase \in {"down", "connecting"}
       \/ ~Validates(n, retained[ValueTopic(n)])
=============================================================================
