----------------------------- MODULE EchoProofs -----------------------------
(***************************************************************************)
(* echo and client_id_tester, for every set of options, with a parameter   *)
(* each, every validator and any number of steps.  All but two of their    *)
(* actions are actions of ClientSync, and keep what those keep.            *)
(***************************************************************************)
EXTENDS EchoApp, ClientSyncProofs

\* The parameters say what the options say, also while not connected.
Repeats == \A o \in Options : value[ParamOf[o]] = value[o]

\* An invariant that each step of EchoNext keeps.
EchoInv ==
  /\ TypeOK
  /\ created = Items
  /\ BrokerFollowsValues
  /\ Repeats

-----------------------------------------------------------------------------
(***************************************************************************)
(* The slots of an option's valueChanged.                                  *)
(***************************************************************************)

\* The parameter of an option is another item.
LEMMA ParamOfOption ==
  ASSUME NEW o \in Options
  PROVE  /\ o \in Items /\ ParamOf[o] \in Items
         /\ ParamOf[o] \notin Options /\ ParamOf[o] # o
         /\ \A i \in Options : ParamOf[i] = ParamOf[o] => i = o
BY EchoAssumption, ConstantsAssumption DEF EchoAssumption, ConstantsAssumption, Items

\* The slots publish the value for the option and for its parameter, and then
\* perhaps unsubscribe.
LEMMA EchoSlotsAppend ==
  ASSUME NEW o \in Options, NEW v \in Values, v # value[ParamOf[o]]
  PROVE  /\ EchoSlots(o, v) \in Seq(Packets)
         /\ 1 \in DOMAIN EchoSlots(o, v) /\ 2 \in DOMAIN EchoSlots(o, v)
         /\ EchoSlots(o, v)[1] = Publish(ValueTopic(o), v)
         /\ EchoSlots(o, v)[2] = Publish(ValueTopic(ParamOf[o]), v)
         /\ \A j \in DOMAIN EchoSlots(o, v) :
              j \notin {1, 2} => EchoSlots(o, v)[j] = Unsubscribe(ValueTopic(o))
<1> DEFINE a == Publish(ValueTopic(o), v)
           b == Publish(ValueTopic(ParamOf[o]), v)
           c == Unsubscribe(ValueTopic(o))
<1>1. a \in Packets /\ b \in Packets /\ c \in Packets
  BY ParamOfOption, PacketTypes DEF Payloads
<1>2. v # Undefined
  BY ConstantsAssumption DEF ConstantsAssumption
<1>3. UploadValue(o, v) = <<a>> /\ UploadValue(ParamOf[o], v) = <<b>>
  BY <1>2 DEF UploadValue
<1>4. UnsubscribeSaved(o, v) = <<>> \/ UnsubscribeSaved(o, v) = <<c>>
  BY DEF UnsubscribeSaved
<1> HIDE DEF a, b, c
<1>5. EchoSlots(o, v) = (<<a>> \o <<b>>) \o UnsubscribeSaved(o, v)
  BY <1>3 DEF EchoSlots
<1>6. /\ <<a>> \o <<b>> \in Seq(Packets)
      /\ Len(<<a>> \o <<b>>) = 2
      /\ (<<a>> \o <<b>>)[1] = a /\ (<<a>> \o <<b>>)[2] = b
  <2>1. <<a>> \in Seq(Packets) /\ <<b>> \in Seq(Packets)
    BY <1>1
  <2> QED
    BY <2>1, ConcatProperties
<1>7. UnsubscribeSaved(o, v) \in Seq(Packets)
      /\ \A i \in 1..Len(UnsubscribeSaved(o, v)) : UnsubscribeSaved(o, v)[i] = c
  <2>1. CASE UnsubscribeSaved(o, v) = <<>>
    BY <2>1, EmptySeq, LenProperties
  <2>2. CASE UnsubscribeSaved(o, v) = <<c>>
    BY <1>1, <2>2
  <2> QED
    BY <1>4, <2>1, <2>2
<1>8. /\ EchoSlots(o, v) \in Seq(Packets)
      /\ Len(EchoSlots(o, v)) = 2 + Len(UnsubscribeSaved(o, v))
      /\ \A i \in 1..Len(EchoSlots(o, v)) :
           EchoSlots(o, v)[i] = IF i <= 2 THEN (<<a>> \o <<b>>)[i]
                                ELSE UnsubscribeSaved(o, v)[i - 2]
  BY <1>5, <1>6, <1>7, ConcatProperties
<1>9. /\ DOMAIN EchoSlots(o, v) = 1..Len(EchoSlots(o, v))
      /\ Len(UnsubscribeSaved(o, v)) \in Nat
  BY <1>7, <1>8, LenProperties
<1>10. \A j \in DOMAIN EchoSlots(o, v) : j \notin {1, 2} => EchoSlots(o, v)[j] = c
  BY <1>7, <1>8, <1>9
<1>11. /\ 1 \in DOMAIN EchoSlots(o, v) /\ 2 \in DOMAIN EchoSlots(o, v)
       /\ EchoSlots(o, v)[1] = a /\ EchoSlots(o, v)[2] = b
  BY <1>6, <1>8, <1>9
<1> QED
  BY <1>8, <1>10, <1>11 DEF a, b, c

-----------------------------------------------------------------------------
(***************************************************************************)
(* A remote message.                                                       *)
(***************************************************************************)

\* What a new value of an option changes.
LEMMA EchoSetValueKeeps ==
  ASSUME EchoInv, phase = "session", NEW o \in Options, NEW v \in Values, v # value[o],
         EchoSetValue(o, v)
  PROVE  /\ value' \in [Items -> Values \cup {Undefined}]
         /\ toBroker' \in Seq(Packets)
         /\ watching' \subseteq Options
         /\ \A i \in Options : value'[ParamOf[i]] = value'[i]
         /\ \A i \in Items : value'[i] # Undefined =>
              WillHold(toBroker', retained, ValueTopic(i), value'[i])
<1>0. o \in Items /\ ParamOf[o] \in Items /\ ParamOf[o] # o
  BY ParamOfOption
<1>1. value \in [Items -> Values \cup {Undefined}] /\ toBroker \in Seq(Packets)
      /\ watching \subseteq Options
  BY DEF EchoInv, TypeOK
<1>2. /\ value' = [value EXCEPT ![o] = v, ![ParamOf[o]] = v]
      /\ toBroker' = toBroker \o EchoSlots(o, v)
      /\ watching' = watching \ {o}
  BY DEF EchoSetValue
<1>3. v # value[ParamOf[o]]
  BY DEF EchoInv, Repeats
<1>4. /\ EchoSlots(o, v) \in Seq(Packets)
      /\ 1 \in DOMAIN EchoSlots(o, v) /\ 2 \in DOMAIN EchoSlots(o, v)
      /\ EchoSlots(o, v)[1] = Publish(ValueTopic(o), v)
      /\ EchoSlots(o, v)[2] = Publish(ValueTopic(ParamOf[o]), v)
      /\ \A j \in DOMAIN EchoSlots(o, v) :
           j \notin {1, 2} => EchoSlots(o, v)[j] = Unsubscribe(ValueTopic(o))
  BY <1>3, EchoSlotsAppend
<1>5. \A i \in Items : value'[i] = IF i \in {o, ParamOf[o]} THEN v ELSE value[i]
  BY <1>0, <1>1, <1>2
<1>6. ASSUME NEW i \in Options PROVE value'[ParamOf[i]] = value'[i]
  BY <1>5, <1>6, ParamOfOption DEF EchoInv, Repeats
<1>7. ASSUME NEW i \in Items, value'[i] # Undefined
      PROVE  WillHold(toBroker', retained, ValueTopic(i), value'[i])
  <2>1. CASE i = o
    <3>1. \A j \in DOMAIN EchoSlots(o, v) :
            j # 1 => ~Publishes(EchoSlots(o, v)[j], ValueTopic(o))
      BY <1>0, <1>4, PacketsDiffer, TopicsDiffer
    <3> QED
      BY <1>1, <1>2, <1>4, <1>5, <2>1, <3>1, HoldsAfterPublish
  <2>2. CASE i = ParamOf[o]
    <3>1. \A j \in DOMAIN EchoSlots(o, v) :
            j # 2 => ~Publishes(EchoSlots(o, v)[j], ValueTopic(ParamOf[o]))
      BY <1>0, <1>4, PacketsDiffer, TopicsDiffer
    <3>2. value'[i] = v
      BY <1>5, <2>2
    <3> QED
      BY <1>1, <1>2, <1>4, <2>2, <3>1, <3>2, HoldsAfterPublish
  <2>3. CASE i \notin {o, ParamOf[o]}
    <3>1. ASSUME NEW j \in DOMAIN EchoSlots(o, v)
          PROVE  ~Publishes(EchoSlots(o, v)[j], ValueTopic(i))
      <4>1. ValueTopic(i) # ValueTopic(o) /\ ValueTopic(i) # ValueTopic(ParamOf[o])
        BY <2>3, TopicsDiffer
      <4>2. \/ EchoSlots(o, v)[j] = Publish(ValueTopic(o), v)
            \/ EchoSlots(o, v)[j] = Publish(ValueTopic(ParamOf[o]), v)
            \/ EchoSlots(o, v)[j] = Unsubscribe(ValueTopic(o))
        BY <1>4, <3>1
      <4> QED
        BY <4>1, <4>2, PacketsDiffer
    <3>2. value'[i] = value[i]
      BY <1>5, <2>3
    <3>3. WillHold(toBroker, retained, ValueTopic(i), value[i])
      BY <1>7, <3>2 DEF EchoInv, BrokerFollowsValues
    <3> QED
      BY <1>1, <1>2, <1>4, <3>1, <3>2, <3>3, HoldsAfterOthers
  <2> QED
    BY <2>1, <2>2, <2>3
<1>8. value' \in [Items -> Values \cup {Undefined}]
  BY <1>1, <1>2
<1>9. toBroker' \in Seq(Packets)
  BY <1>1, <1>2, <1>4, ConcatProperties
<1> QED
  BY <1>1, <1>2, <1>6, <1>7, <1>8, <1>9

\* handleMessage keeps the invariant.
LEMMA EchoHandleMessageKeeps == EchoInv /\ EchoHandleMessage => EchoInv'
<1> SUFFICES ASSUME EchoInv, EchoHandleMessage PROVE EchoInv'
  OBVIOUS
<1> DEFINE m == Head(toClient)
           good == Routable(m.topic) /\ Awaited(m) /\ WellFormed(m)
                   /\ Validates(m.topic[1], m.payload)
<1>1. /\ phase = "session" /\ toClient' = Tail(toClient) /\ toClient # <<>>
      /\ UNCHANGED <<phase, created, validator, retained, subs, steps>>
  BY DEF EchoHandleMessage
<1>2. toClient' \in Seq(Messages)
  BY <1>1, HeadTailProperties DEF EchoInv, TypeOK
<1>3. CASE UNCHANGED <<value, toBroker, watching>>
  BY <1>1, <1>2, <1>3 DEF EchoInv, TypeOK, BrokerFollowsValues, Repeats
<1>4. CASE good /\ m.payload # value[m.topic[1]]
  <2>1. m.topic[1] \in Options /\ m.payload \in Values
    BY <1>4 DEF Routable, WellFormed
  <2>2. EchoSetValue(m.topic[1], m.payload)
    BY <1>4 DEF EchoHandleMessage
  <2> HIDE DEF m
  <2>3. /\ value' \in [Items -> Values \cup {Undefined}]
        /\ toBroker' \in Seq(Packets)
        /\ watching' \subseteq Options
        /\ \A i \in Options : value'[ParamOf[i]] = value'[i]
        /\ \A i \in Items : value'[i] # Undefined =>
             WillHold(toBroker', retained, ValueTopic(i), value'[i])
    BY <1>1, <1>4, <2>1, <2>2, EchoSetValueKeeps
  <2>4. TypeOK'
    BY <1>1, <1>2, <2>3 DEF EchoInv, TypeOK
  <2>5. BrokerFollowsValues'
    BY <1>1, <2>3 DEF EchoInv, BrokerFollowsValues
  <2> QED
    BY <1>1, <2>3, <2>4, <2>5 DEF EchoInv, Repeats
<1> QED
  BY <1>3, <1>4 DEF EchoHandleMessage, EchoSetValue

-----------------------------------------------------------------------------
(***************************************************************************)
(* The other actions.                                                      *)
(***************************************************************************)

\* The programs start in the invariant, whatever the broker retains.
LEMMA EchoInitInv == EchoInit => EchoInv
<1> SUFFICES ASSUME EchoInit PROVE EchoInv
  OBVIOUS
<1>1. PICK kept \in [Items -> Values \cup {Empty}] :
        retained = [t \in Topics |-> IF t[2] = "value" THEN kept[t[1]] ELSE Empty]
  BY DEF EchoInit
<1>2. \A t \in Topics : t[1] \in Items
  BY DEF Topics
<1>3. retained \in [Topics -> Payloads]
  BY <1>1, <1>2 DEF Payloads
<1>4. validator \in [Items -> Validators \cup {NoValidator}]
  BY EchoAssumption DEF EchoInit, Installed, EchoAssumption
<1>5. TypeOK
  BY <1>3, <1>4, ConstantsAssumption DEF EchoInit, TypeOK, ConstantsAssumption
<1>6. Repeats
  BY ParamOfOption DEF EchoInit, Repeats, Items
<1> QED
  BY <1>5, <1>6 DEF EchoInit, EchoInv, BrokerFollowsValues

\* A new process has no values and is not connected.
LEMMA EchoRestartKeeps == EchoInv /\ EchoRestart => EchoInv'
<1> SUFFICES ASSUME EchoInv, EchoRestart PROVE EchoInv'
  OBVIOUS
<1>1. value' \in [Items -> Values \cup {Undefined}]
  BY DEF EchoRestart
<1>2. steps' \in 0..MaxSteps
  BY ConstantsAssumption DEF EchoInv, EchoRestart, EnvironmentStep, TypeOK, ConstantsAssumption
<1>3. TypeOK'
  BY <1>1, <1>2 DEF EchoInv, EchoRestart, TypeOK
<1>4. Repeats'
  BY ParamOfOption DEF EchoRestart, Repeats, Items
<1> QED
  BY <1>3, <1>4 DEF EchoInv, EchoRestart, BrokerFollowsValues

\* EchoInv is inductive.
LEMMA EchoInvInductive == EchoInv /\ [EchoNext]_vars => EchoInv'
<1> SUFFICES ASSUME EchoInv, [EchoNext]_vars PROVE EchoInv'
  OBVIOUS
<1>1. CASE EchoHandleMessage
  BY <1>1, EchoHandleMessageKeeps
<1>2. CASE EchoRestart
  BY <1>2, EchoRestartKeeps
<1>3. CASE [Next]_vars /\ UNCHANGED <<created, value>>
  <2>1. TypeOK'
    BY <1>3, NextTypeOK DEF EchoInv
  <2>2. FreshUntilCreated
    BY DEF EchoInv, FreshUntilCreated
  <2>3. BrokerFollowsValues'
    BY <1>3, <2>2, ValuesFollowedInductive DEF EchoInv
  <2> QED
    BY <1>3, <2>1, <2>3 DEF EchoInv, Repeats
<1> QED
  BY <1>1, <1>2, <1>3
  DEF EchoNext, Next, Failures, SocketUp, HandleConnected, SetupSubscriptions, BrokerReceive,
      ConnectFails, LinkLost, RemoteSet, vars, clientVars

-----------------------------------------------------------------------------
\* In a session, an option that has a value and the parameter that repeats it
\* are retained with that value, or will be when the broker has processed what
\* was sent, whatever was retained before and however often the process or the
\* connection ended in between.  (An option whose saved value was refused has no
\* value.)
THEOREM EchoFollowed == EchoSpec => []EchoFollows
<1>1. EchoInv => EchoFollows
  BY ParamOfOption DEF EchoInv, EchoFollows, BrokerFollowsValues, Repeats
<1> QED
  BY <1>1, EchoInitInv, EchoInvInductive, PTL DEF EchoSpec
=============================================================================
