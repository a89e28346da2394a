------------------------------ MODULE EchoApp ------------------------------
(***************************************************************************)
(* The applications echo and client_id_tester: each option has a parameter *)
(* that repeats its value.  Both are clients as ClientSync describes them, *)
(* whose options only change by remote messages and whose parameters are   *)
(* slots of the options' valueChanged.  They connect once.                 *)
(***************************************************************************)
EXTENDS ClientSync

CONSTANTS
  ParamOf,   \* ParamOf[o]: the parameter connected to option o
  RuleOf     \* RuleOf[o]: the validator that main installs for o

ASSUME EchoAssumption ==
  /\ ParamOf \in [Options -> Params]
  /\ \A o1, o2 \in Options : ParamOf[o1] = ParamOf[o2] => o1 = o2
  /\ RuleOf \in [Options -> Validators]

\* What main has installed when it calls exec().
Installed == [n \in Items |-> IF n \in Options THEN RuleOf[n] ELSE NoValidator]

\* main has run up to exec(): connectToHost was called first, but the socket
\* opens in the event loop only.  The broker may retain what earlier processes
\* published before they were stopped, perhaps between two publications.
EchoInit ==
  /\ phase = "connecting"
  /\ created = Items
  /\ value = [n \in Items |-> Undefined]
  /\ validator = Installed
  /\ watching = {} /\ toBroker = <<>> /\ toClient = <<>> /\ subs = {}
  /\ \E kept \in [Items -> Values \cup {Empty}] :
       retained = [t \in Topics |-> IF t[2] = "value" THEN kept[t[1]] ELSE Empty]
  /\ steps = 0

EchoRestart ==
  /\ EnvironmentStep
  /\ phase' = "connecting"
  /\ value' = [n \in Items |-> Undefined]
  /\ watching' = {} /\ toBroker' = <<>> /\ toClient' = <<>>
  /\ UNCHANGED <<created, validator, retained, subs>>

-----------------------------------------------------------------------------
\* The parameter does not hear of the saved value.
EchoSlotsFault(o, v) ==
  IF o \in watching THEN ValueSlots(o, v)
  ELSE UploadValue(o, v) \o UploadValue(ParamOf[o], v)

\* The slots of an option's valueChanged in the order of their connection: the
\* upload by addOption, the parameter's setValue (and the upload of that) by
\* main, the unsubscription by setupSubscriptions.
EchoSlots(o, v) ==
  UploadValue(o, v)
  \o (IF v # value[ParamOf[o]] THEN UploadValue(ParamOf[o], v) ELSE <<>>)
  \o UnsubscribeSaved(o, v)

\* NamedValue::setValue of an option, by handleMessage in a session.
EchoSetValue(o, v) ==
  IF v # value[o]
  THEN /\ value' = [value EXCEPT ![o] = v, ![ParamOf[o]] = v]
       /\ toBroker' = toBroker \o EchoSlots(o, v)
       /\ watching' = watching \ {o}
  ELSE UNCHANGED <<value, toBroker, watching>>

\* Client::handleMessage, as in ClientSync, with the slots of this program.
EchoHandleMessage ==
  /\ phase = "session"
  /\ toClient # <<>>
  /\ LET m == Head(toClient) IN
       IF Routable(m.topic) /\ Awaited(m) /\ WellFormed(m) /\ Validates(m.topic[1], m.payload)
       THEN EchoSetValue(m.topic[1], m.payload)
       ELSE UNCHANGED <<value, toBroker, watching>>
  /\ toClient' = Tail(toClient)
  /\ UNCHANGED <<phase, created, validator, retained, subs, steps>>

EchoNext ==
  \/ SocketUp \/ HandleConnected \/ SetupSubscriptions
  \/ BrokerReceive \/ EchoHandleMessage
  \/ ConnectFails \/ LinkLost \/ EchoRestart
  \/ \E n \in Options, p \in Values \cup {Malformed} : RemoteSet(n, p)

EchoSpec == EchoInit /\ [][EchoNext]_vars

\* As FairSpec of ClientSync.
EchoFairSpec ==
  /\ EchoSpec
  /\ WF_vars(SocketUp)
  /\ WF_vars(HandleConnected)
  /\ WF_vars(SetupSubscriptions)
  /\ WF_vars(BrokerReceive)
  /\ WF_vars(EchoHandleMessage)

-----------------------------------------------------------------------------
\* Whoever reads the parameter will read what the option has become: once an
\* option has a value, saved or set remotely, the broker holds it for both, or
\* will when it has processed what was sent.
EchoFollows ==
  phase = "session" =>
    \A o \in Options : value[o] # Undefined =>
      /\ WillHold(toBroker, retained, ValueTopic(o), value[o])
      /\ WillHold(toBroker, retained, ValueTopic(ParamOf[o]), value[o])

\* Echo and option become equal on the broker if a session lasts, even after a
\* process that published a new value for the option and ended before it did
\* so for the parameter.  (An option whose saved value the validator refuses
\* stays undefined, and its parameter keeps what it had.)
EchoConverges ==
  <>[](phase = "session") =>
    <>[](\A o \in Options :
           retained[ValueTopic(o)] \in Accepts[RuleOf[o]] =>
             retained[ValueTopic(ParamOf[o])] = retained[ValueTopic(o)])
=============================================================================
