------------------------- MODULE ReplicationProofs -------------------------
(***************************************************************************)
(* ClientSync implements ValueReplication, for any options, parameters,    *)
(* values and validators.                                                  *)
(***************************************************************************)
EXTENDS ClientReplication, ClientSyncProofs

-----------------------------------------------------------------------------
(***************************************************************************)
(* The channel.                                                            *)
(***************************************************************************)

Updates == {Update(p) : p \in Packets}

\* What is carried is a sequence as long as that of the packets.
LEMMA CarriedSeq ==
  ASSUME NEW q \in Seq(Packets)
  PROVE  /\ Carried(q) \in Seq(Updates)
         /\ Len(Carried(q)) = Len(q)
         /\ \A i \in 1..Len(q) : Carried(q)[i] = Update(q[i])
  <1>1. DOMAIN q = 1..Len(q) /\ Len(q) \in Nat /\ \A i \in 1..Len(q) : q[i] \in Packets
    BY LenProperties, ElementOfSeq
  <1>2. Carried(q) = [i \in 1..Len(q) |-> Update(q[i])]
    BY <1>1 DEF Carried
  <1>3. \A i \in 1..Len(q) : Update(q[i]) \in Updates
    BY <1>1 DEF Updates
  <1>4. Carried(q) \in Seq(Updates)
    BY <1>1, <1>2, <1>3
  <1>5. DOMAIN Carried(q) = 1..Len(q)
    BY <1>2
  <1> QED
    BY <1>1, <1>2, <1>4, <1>5, LenProperties

\* Sending packets sends the updates among them, if no two are the same.
LEMMA CarriedAfterSending ==
  ASSUME toBroker \in Seq(Packets), NEW r \in Seq(Packets), toBroker' = toBroker \o r,
         \A k, l \in DOMAIN r : Update(r[k]) = Update(r[l]) /\ Update(r[k]) # <<>> => k = l,
         NEW U, U = {Update(r[k]) : k \in DOMAIN r} \ {<<>>}
  PROVE  Replication!Sends(U)
  <1> DEFINE q == toBroker
             c == Carried(q)
             d == Carried(q \o r)
  <1>1. /\ q \o r \in Seq(Packets) /\ Len(q \o r) = Len(q) + Len(r)
        /\ \A i \in 1..Len(q) + Len(r) : (q \o r)[i] = IF i <= Len(q) THEN q[i] ELSE r[i - Len(q)]
    BY ConcatProperties
  <1>2. Len(c) = Len(q) /\ \A i \in 1..Len(q) : c[i] = Update(q[i])
    BY CarriedSeq
  <1>3. Len(d) = Len(q) + Len(r) /\ \A i \in 1..Len(q) + Len(r) : d[i] = Update((q \o r)[i])
    BY <1>1, CarriedSeq
  <1>4. Len(q) \in Nat /\ Len(r) \in Nat /\ DOMAIN r = 1..Len(r)
    BY LenProperties
  <1>5. Carried(toBroker)' = d
    BY DEF Carried
  <1> HIDE DEF c, d, q
  <1>6. \A i \in 1..Len(q) : d[i] = c[i]
    BY <1>1, <1>2, <1>3, <1>4
  <1>7. {d[i] : i \in (Len(q) + 1)..(Len(q) + Len(r))} = {Update(r[k]) : k \in DOMAIN r}
    <2>1. \A i \in (Len(q) + 1)..(Len(q) + Len(r)) :
            i - Len(q) \in DOMAIN r /\ d[i] = Update(r[i - Len(q)])
      BY <1>1, <1>3, <1>4
    <2>2. \A k \in DOMAIN r : /\ k + Len(q) \in (Len(q) + 1)..(Len(q) + Len(r))
                              /\ d[k + Len(q)] = Update(r[k])
      BY <1>1, <1>3, <1>4
    <2> DEFINE A == {d[i] : i \in (Len(q) + 1)..(Len(q) + Len(r))}
               B == {Update(r[k]) : k \in DOMAIN r}
    <2>3. ASSUME NEW x \in A PROVE x \in B
      <3>1. PICK i \in (Len(q) + 1)..(Len(q) + Len(r)) : x = d[i]
        OBVIOUS
      <3>2. i - Len(q) \in DOMAIN r /\ x = Update(r[i - Len(q)])
        BY <2>1, <3>1
      <3> QED
        BY <3>2
    <2>4. ASSUME NEW x \in B PROVE x \in A
      <3>1. PICK k \in DOMAIN r : x = Update(r[k])
        OBVIOUS
      <3>2. k + Len(q) \in (Len(q) + 1)..(Len(q) + Len(r)) /\ x = d[k + Len(q)]
        BY <2>2, <3>1
      <3> QED
        BY <3>2
    <2> QED
      BY <2>3, <2>4
  <1>8. Len(d) >= Len(c)
    BY <1>2, <1>3, <1>4
  <1>9. Carried(toBroker) = c
    BY DEF c, q
  <1>10. ASSUME NEW i \in (Len(q) + 1)..(Len(q) + Len(r)),
                NEW j \in (Len(q) + 1)..(Len(q) + Len(r)),
                d[i] = d[j], d[i] # <<>>
         PROVE  i = j
    <2>1. /\ i - Len(q) \in DOMAIN r /\ d[i] = Update(r[i - Len(q)])
          /\ j - Len(q) \in DOMAIN r /\ d[j] = Update(r[j - Len(q)])
      BY <1>1, <1>3, <1>4
    <2>2. i - Len(q) = j - Len(q)
      BY <1>10, <2>1
    <2> QED
      BY <1>4, <2>2
  <1> QED
    BY <1>2, <1>3, <1>5, <1>6, <1>7, <1>8, <1>9, <1>10 DEF Replication!Sends

\* The broker processes the first of what is carried.
LEMMA CarriedTail ==
  ASSUME NEW q \in Seq(Packets), q # <<>>
  PROVE  /\ Carried(q) # <<>>
         /\ Head(Carried(q)) = Update(Head(q))
         /\ Carried(Tail(q)) = Tail(Carried(q))
  <1> DEFINE c == Carried(q)
             t == Tail(q)
             d == Carried(t)
  <1>1. /\ c \in Seq(Updates) /\ Len(c) = Len(q)
        /\ \A i \in 1..Len(q) : c[i] = Update(q[i])
    BY CarriedSeq
  <1>2. /\ Len(q) \in Nat \ {0} /\ t \in Seq(Packets) /\ Len(t) = Len(q) - 1
        /\ \A i \in 1..Len(t) : t[i] = q[i + 1]
        /\ Head(q) = q[1]
    BY EmptySeq, HeadTailProperties
  <1>3. /\ d \in Seq(Updates) /\ Len(d) = Len(t)
        /\ \A i \in 1..Len(t) : d[i] = Update(t[i])
    BY <1>2, CarriedSeq
  <1> HIDE DEF c, d, t
  <1>4. c # <<>>
    BY <1>1, <1>2, EmptySeq
  <1>5. /\ Tail(c) \in Seq(Updates) /\ Len(Tail(c)) = Len(c) - 1
        /\ \A i \in 1..Len(Tail(c)) : Tail(c)[i] = c[i + 1]
        /\ Head(c) = c[1]
    BY <1>1, <1>4, HeadTailProperties
  <1>6. ASSUME NEW i \in 1..Len(d) PROVE d[i] = Tail(c)[i]
    <2>1. i \in 1..Len(t) /\ i \in 1..Len(Tail(c)) /\ i + 1 \in 1..Len(q)
      BY <1>1, <1>2, <1>3, <1>5
    <2>2. d[i] = Update(q[i + 1])
      BY <1>2, <1>3, <2>1
    <2> QED
      BY <1>1, <1>5, <2>1, <2>2
  <1>7. d = Tail(c)
    BY <1>1, <1>2, <1>3, <1>5, <1>6, SeqEqual
  <1>8. Head(c) = Update(Head(q))
    BY <1>1, <1>2, <1>5
  <1> QED
    BY <1>4, <1>7, <1>8 DEF c, d, t

\* What the packets of the client are as updates.
LEMMA UpdateOf ==
  /\ \A n, v : Update(Publish(ValueTopic(n), v)) = <<n, v>>
  /\ \A n, w : Update(Publish(ValidatorTopic(n), w)) = <<>>
  /\ \A t : Update(Subscribe(t)) = <<>> /\ Update(Unsubscribe(t)) = <<>>
  BY DEF Update, Publish, Subscribe, Unsubscribe, ValueTopic, ValidatorTopic

\* Packets that carry nothing are chatter.
LEMMA ChatterSent ==
  ASSUME toBroker \in Seq(Packets), NEW r \in Seq(Packets), toBroker' = toBroker \o r,
         \A k \in DOMAIN r : Update(r[k]) = <<>>
  PROVE  Replication!Sends({})
  <1>1. {Update(r[k]) : k \in DOMAIN r} \ {<<>>} = {}
    OBVIOUS
  <1> QED
    BY <1>1, CarriedAfterSending

\* One packet carries the update u, the others nothing.
LEMMA OneUpdateSent ==
  ASSUME toBroker \in Seq(Packets), NEW r \in Seq(Packets), toBroker' = toBroker \o r,
         NEW u, u # <<>>, NEW k \in DOMAIN r, Update(r[k]) = u,
         \A j \in DOMAIN r : j # k => Update(r[j]) = <<>>
  PROVE  Replication!Sends({u})
  <1>1. {Update(r[j]) : j \in DOMAIN r} \ {<<>>} = {u}
    <2>1. \A j \in DOMAIN r : Update(r[j]) \in {u, <<>>}
      OBVIOUS
    <2> QED
      BY <2>1
  <1> QED
    BY <1>1, CarriedAfterSending

\* The slots of valueChanged carry the new value.
LEMMA ValueSent ==
  ASSUME TypeOK, NEW n \in Items, NEW v \in Values \cup {Undefined},
         toBroker' = toBroker \o ValueSlots(n, v)
  PROVE  Replication!Sends(IF v = Undefined THEN {} ELSE {<<n, v>>})
  <1> DEFINE r == ValueSlots(n, v)
  <1>1. r \in Seq(Packets) /\ toBroker \in Seq(Packets)
    BY ValueSlotsAppend DEF TypeOK
  <1>2. CASE v = Undefined
    <2>1. r = <<>>
      BY <1>2, ValueSlotsAppend
    <2>2. \A k \in DOMAIN r : Update(r[k]) = <<>>
      BY <2>1
    <2> QED
      BY <1>1, <1>2, <2>2, ChatterSent
  <1>3. CASE v # Undefined
    <2>1. PICK k \in DOMAIN r : /\ r[k] = Publish(ValueTopic(n), v)
                                /\ \A j \in DOMAIN r : j # k => r[j] = Unsubscribe(ValueTopic(n))
      BY <1>3, ValueSlotsAppend
    <2>2. Update(r[k]) = <<n, v>> /\ \A j \in DOMAIN r : j # k => Update(r[j]) = <<>>
      BY <2>1, UpdateOf
    <2>3. <<n, v>> # <<>>
      OBVIOUS
    <2>4. toBroker' = toBroker \o r
      OBVIOUS
    <2> HIDE DEF r
    <2>5. Replication!Sends({<<n, v>>})
      BY <1>1, <2>2, <2>3, <2>4, OneUpdateSent
    <2> QED
      BY <1>3, <2>5
  <1> QED
    BY <1>2, <1>3

-----------------------------------------------------------------------------
(***************************************************************************)
(* Every step.                                                             *)
(***************************************************************************)

\* What a step leaves alone looks the same from above.
LEMMA Unseen ==
  /\ UNCHANGED phase => UNCHANGED Link
  /\ UNCHANGED toBroker => UNCHANGED Carried(toBroker)
  /\ UNCHANGED retained => UNCHANGED [n \in Items |-> retained[ValueTopic(n)]]
  BY DEF Link, Carried

\* While nothing is online the abstract link is off.
LEMMA LinkOff ==
  ASSUME TypeOK
  PROVE  Link = "off" <=> ~Online
  BY DEF Link, Online, TypeOK

\* setValue, by whomever, is a change; to the same value, it is nothing.
LEMMA SetValueReplicates ==
  ASSUME TypeOK, NEW n \in Items, NEW v \in Values \cup {Undefined}, SetValue(n, v),
         UNCHANGED <<phase, retained>>
  PROVE  Replication!Change(n, v) \/ UNCHANGED Replication!vars
  <1>1. UNCHANGED Link /\ UNCHANGED [i \in Items |-> retained[ValueTopic(i)]]
    BY Unseen
  <1>2. CASE v = value[n]
    <2>1. UNCHANGED value /\ UNCHANGED toBroker
      BY <1>2 DEF SetValue, TypeOK
    <2> QED
      BY <1>1, <2>1, Unseen DEF Replication!vars
  <1>3. CASE v # value[n] /\ Online
    <2>1. value' = [value EXCEPT ![n] = v] /\ toBroker' = toBroker \o ValueSlots(n, v)
      BY <1>3 DEF SetValue
    <2>2. Replication!Sends(IF v = Undefined THEN {} ELSE {<<n, v>>})
      BY <2>1, ValueSent
    <2> QED
      BY <1>1, <1>3, <2>1, <2>2, LinkOff DEF Replication!Change
  <1>4. CASE v # value[n] /\ ~Online
    <2>1. value' = [value EXCEPT ![n] = v] /\ UNCHANGED toBroker
      BY <1>4 DEF SetValue
    <2>2. PICK r \in Seq(Packets) : r = <<>> /\ toBroker' = toBroker \o r
      BY <2>1, EmptySeq, ConcatEmptySeq DEF TypeOK
    <2>3. \A k \in DOMAIN r : Update(r[k]) = <<>>
      BY <2>2
    <2>4. Replication!Sends({})
      BY <2>2, <2>3, ChatterSent DEF TypeOK
    <2> QED
      BY <1>1, <1>4, <2>1, <2>4, LinkOff DEF Replication!Change
  <1> QED
    BY <1>2, <1>3, <1>4

\* A loop that sends only subscriptions is chatter.
LEMMA SubscriptionsChatter ==
  ASSUME TypeOK, NEW S, S \subseteq Packets, IsFiniteSet(S), SendAll(S),
         \A x \in S : Update(x) = <<>>
  PROVE  Replication!Sends({})
  <1>1. PICK r \in Seq(Packets) : toBroker' = toBroker \o r /\ \A i \in DOMAIN r : r[i] \in S
    BY SendAllAppends
  <1> QED
    BY <1>1, ChatterSent DEF TypeOK

\* uploadAll sends the value of everything that has one.
LEMMA UploadAllSent ==
  ASSUME TypeOK, FreshUntilCreated, SendAll(UploadAll)
  PROVE  Replication!Sends({<<n, value[n]>> : n \in {m \in Items : value[m] # Undefined}})
  <1> DEFINE U == {<<n, value[n]>> : n \in {m \in Items : value[m] # Undefined}}
  <1>1. PICK r \in Seq(Packets) :
          /\ toBroker' = toBroker \o r
          /\ \A i \in DOMAIN r : r[i] \in UploadAll
          /\ \A x \in UploadAll : \E k \in DOMAIN r :
               r[k] = x /\ \A j \in DOMAIN r : j # k => r[j] # x
    BY UploadAllPackets, SendAllAppends
  <1>2. \A x \in UploadAll : Update(x) \in U \cup {<<>>}
    BY UpdateOf DEF UploadAll, TypeOK
  <1>3. \A u \in U : u # <<>> /\ \E x \in UploadAll : Update(x) = u
    <2> SUFFICES ASSUME NEW n \in Items, value[n] # Undefined
                 PROVE  /\ <<n, value[n]>> # <<>>
                        /\ \E x \in UploadAll : Update(x) = <<n, value[n]>>
      OBVIOUS
    <2>1. n \in created
      BY DEF FreshUntilCreated
    <2>2. Publish(ValueTopic(n), value[n]) \in UploadAll
      BY <2>1 DEF UploadAll
    <2> QED
      BY <2>2, UpdateOf
  <1>4. {Update(r[k]) : k \in DOMAIN r} \ {<<>>} = U
    <2>1. \A k \in DOMAIN r : Update(r[k]) \in U \cup {<<>>}
      BY <1>1, <1>2
    <2>2. \A u \in U : u # <<>> /\ \E k \in DOMAIN r : Update(r[k]) = u
      BY <1>1, <1>3
    <2> HIDE DEF U
    <2> QED
      BY <2>1, <2>2
  <1>5. ASSUME NEW x \in UploadAll, NEW y \in UploadAll, Update(x) = Update(y), Update(x) # <<>>
        PROVE  x = y
    <2>1. \A z \in UploadAll : Update(z) # <<>> =>
            \E n \in Items : z = Publish(ValueTopic(n), value[n]) /\ Update(z) = <<n, value[n]>>
      BY UpdateOf DEF UploadAll, TypeOK
    <2>2. PICK n \in Items : x = Publish(ValueTopic(n), value[n]) /\ Update(x) = <<n, value[n]>>
      BY <1>5, <2>1
    <2>3. PICK m \in Items : y = Publish(ValueTopic(m), value[m]) /\ Update(y) = <<m, value[m]>>
      BY <1>5, <2>1
    <2>4. n = m
      BY <1>5, <2>2, <2>3
    <2> QED
      BY <2>2, <2>3, <2>4
  <1>6. ASSUME NEW k \in DOMAIN r, NEW l \in DOMAIN r,
               Update(r[k]) = Update(r[l]), Update(r[k]) # <<>>
        PROVE  k = l
    <2>1. r[k] = r[l] /\ r[k] \in UploadAll
      BY <1>1, <1>5, <1>6
    <2>2. PICK i \in DOMAIN r : r[i] = r[k] /\ \A j \in DOMAIN r : j # i => r[j] # r[k]
      BY <1>1, <2>1
    <2> QED
      BY <2>1, <2>2
  <1> QED
    BY <1>1, <1>4, <1>6, CarriedAfterSending DEF TypeOK

\* The broker retains the value that is first in the channel, and nothing else
\* changes what it retains as values.
LEMMA BrokerPersists ==
  ASSUME TypeOK, BrokerReceive
  PROVE  Replication!Persist
  <1> DEFINE p == Head(toBroker)
  <1>1. toBroker \in Seq(Packets) /\ toBroker # <<>> /\ toBroker' = Tail(toBroker)
    BY DEF TypeOK, BrokerReceive
  <1>2. p \in Packets /\ Carried(toBroker) # <<>> /\ Head(Carried(toBroker)) = Update(p)
        /\ Carried(toBroker)' = Tail(Carried(toBroker))
    <2>1. Carried(toBroker)' = Carried(Tail(toBroker))
      BY <1>1 DEF Carried
    <2> QED
      BY <1>1, <2>1, CarriedTail, HeadTailProperties
  <1>3. Link # "off" /\ UNCHANGED Link /\ UNCHANGED value
    BY LinkOff, Unseen DEF BrokerReceive, clientVars
  <1> DEFINE store == [n \in Items |-> retained[ValueTopic(n)]]
  <1>4. store' = IF Update(p) = <<>> THEN store
                 ELSE [store EXCEPT ![Update(p)[1]] = Update(p)[2]]
    <2>1. CASE p.type # "publish"
      <3>1. UNCHANGED retained /\ Update(p) = <<>>
        BY <2>1 DEF BrokerReceive, Update
      <3> QED
        BY <3>1
    <2>2. CASE p.type = "publish" /\ p.topic[2] # "value"
      <3>1. Update(p) = <<>> /\ retained' = [retained EXCEPT ![p.topic] = p.payload]
        BY <2>2 DEF BrokerReceive, Update
      <3>2. \A n \in Items : p.topic # ValueTopic(n)
        BY <2>2 DEF ValueTopic
      <3> QED
        BY <3>1, <3>2, PacketTypes DEF TypeOK
    <2>3. CASE p.type = "publish" /\ p.topic[2] = "value"
      <3>1. /\ Update(p) = <<p.topic[1], p.payload>>
            /\ retained' = [retained EXCEPT ![p.topic] = p.payload]
        BY <2>3 DEF BrokerReceive, Update
      <3>2. p.topic \in Topics
        BY <1>2 DEF Packets, Publish, Subscribe, Unsubscribe
      <3>3. p.topic[1] \in Items /\ p.topic = ValueTopic(p.topic[1])
        BY <2>3, <3>2 DEF Topics, ValueTopic
      <3>4. \A n \in Items : ValueTopic(n) = p.topic <=> n = p.topic[1]
        BY <3>3 DEF ValueTopic
      <3>5. \A n \in Items : retained'[ValueTopic(n)] =
                               IF n = p.topic[1] THEN p.payload ELSE retained[ValueTopic(n)]
        BY <3>1, <3>4, PacketTypes DEF TypeOK
      <3> QED
        BY <3>1, <3>3, <3>5
    <2> QED
      BY <2>1, <2>2, <2>3
  <1> QED
    BY <1>2, <1>3, <1>4 DEF Replication!Persist

\* The initial state is one of the abstract specification's.
LEMMA InitReplicates == Init => Replication!Init
  <1> SUFFICES ASSUME Init PROVE Replication!Init
    OBVIOUS
  <1>1. Link = "off" /\ value = [n \in Items |-> Undefined]
    BY DEF Init, Link
  <1>2. Carried(toBroker) = <<>>
    BY DEF Init, Carried
  <1>3. [n \in Items |-> retained[ValueTopic(n)]] \in [Items -> Values \cup {Empty}]
    <2>1. PICK saved \in [Items -> Values \cup {Empty}], rules \in [Items -> Validators \cup {Empty}] :
            retained = [t \in Topics |-> CASE t[2] = "value" -> saved[t[1]]
                                           [] t[2] = "set" -> Empty
                                           [] t[2] = "validator" -> rules[t[1]]]
      BY DEF Init
    <2>2. \A n \in Items : retained[ValueTopic(n)] = saved[n]
      BY <2>1, PacketTypes DEF ValueTopic
    <2> QED
      BY <2>2
  <1> QED
    BY <1>1, <1>2, <1>3 DEF Replication!Init

\* Every step is allowed by the abstract specification.
LEMMA NextReplicates ==
  TypeOK /\ FreshUntilCreated /\ [Next]_vars => [Replication!Next]_(Replication!vars)
  <1> SUFFICES ASSUME TypeOK, FreshUntilCreated, [Next]_vars
               PROVE  Replication!Next \/ UNCHANGED Replication!vars
    OBVIOUS
  <1>1. CASE UNCHANGED <<phase, value, toBroker, retained>>
    BY <1>1, Unseen DEF Replication!vars
  <1>2. CASE UNCHANGED <<phase, value, retained>> /\ Online /\ Replication!Sends({})
    <2>1. Replication!Chatter
      BY <1>2, Unseen, LinkOff DEF Replication!Chatter
    <2> QED
      BY <2>1 DEF Replication!Next
  <1>3. ASSUME NEW n \in Items, NEW v \in Values \cup {Undefined}, SetValue(n, v),
               UNCHANGED <<phase, retained>>
        PROVE  Replication!Next \/ UNCHANGED Replication!vars
    BY <1>3, SetValueReplicates DEF Replication!Next
  <1>4. ASSUME NEW n \in Options, NEW accept \in BOOLEAN, AddOption(n, accept)
        PROVE  Replication!Next \/ UNCHANGED Replication!vars
    <2>1. CASE Online
      <3>1. SendAll(OptionSubscriptions(n, accept))
        BY <1>4, <2>1 DEF AddOption
      <3>2. \A x \in OptionSubscriptions(n, accept) : Update(x) = <<>>
        BY UpdateOf DEF OptionSubscriptions
      <3>3. Replication!Sends({})
        BY <3>1, <3>2, OptionSubscriptionsPackets, SubscriptionsChatter
      <3> QED
        BY <1>2, <1>4, <2>1, <3>3 DEF AddOption
    <2>2. CASE ~Online
      BY <1>1, <1>4, <2>2 DEF AddOption
    <2> QED
      BY <2>1, <2>2
  <1>5. ASSUME NEW n \in Items, NEW v \in AppValues, AppSetValue(n, v)
        PROVE  Replication!Next \/ UNCHANGED Replication!vars
    BY <1>3, <1>5, ConstantsAssumption DEF AppSetValue, ConstantsAssumption
  <1>6. ASSUME NEW n \in Items, NEW w \in Validators \cup {NoValidator}, AppSetValidator(n, w)
        PROVE  Replication!Next \/ UNCHANGED Replication!vars
    <2>1. CASE Online
      <3>1. PICK p \in Payloads : UploadValidator(n, w) = <<Publish(ValidatorTopic(n), p)>>
        BY DEF UploadValidator, Payloads
      <3>2. UploadValidator(n, w) \in Seq(Packets)
        BY <3>1, PacketTypes
      <3>3. \A k \in DOMAIN UploadValidator(n, w) : Update(UploadValidator(n, w)[k]) = <<>>
        BY <3>1, UpdateOf
      <3>4. Replication!Sends({})
        BY <1>6, <2>1, <3>2, <3>3, ChatterSent DEF AppSetValidator, TypeOK
      <3> QED
        BY <1>2, <1>6, <2>1, <3>4 DEF AppSetValidator
    <2>2. CASE ~Online
      BY <1>1, <1>6, <2>2 DEF AppSetValidator
    <2> QED
      BY <2>1, <2>2
  <1>7. CASE ConnectToHost \/ ConnectFails
    <2>1. UNCHANGED Link
      BY <1>7 DEF ConnectToHost, ConnectFails, Link
    <2> QED
      BY <1>7, <2>1, Unseen DEF ConnectToHost, ConnectFails, clientVars, netVars, Replication!vars
  <1>8. CASE SocketUp
    <2>1. Link = "off" /\ Link' = "open"
      BY <1>8 DEF SocketUp, Link
    <2>2. Replication!Open
      BY <1>8, <2>1, Unseen DEF SocketUp, clientVars, Replication!Open
    <2> QED
      BY <2>2 DEF Replication!Next
  <1>9. CASE HandleConnected
    <2>1. Link = "open" /\ Link' = "announced"
      BY <1>9 DEF HandleConnected, Link
    <2>2. SendAll(UploadAll)
      BY <1>9 DEF HandleConnected
    <2>3. Replication!Announce
      BY <1>9, <2>1, <2>2, Unseen, UploadAllSent DEF HandleConnected, clientVars, Replication!Announce
    <2> QED
      BY <2>3 DEF Replication!Next
  <1>10. CASE SetupSubscriptions
    <2> DEFINE options == created \cap Options
               undefined == {n \in options : value[n] = Undefined}
               all == UNION {OptionSubscriptions(n, n \in undefined) : n \in options}
    <2>1. all \subseteq Packets /\ IsFiniteSet(all)
      <3>1. options \in SUBSET Options
        OBVIOUS
      <3> HIDE DEF options, undefined
      <3> QED
        BY <3>1, AllSubscriptionsPackets
    <2>2. SendAll(all)
      BY <1>10 DEF SetupSubscriptions
    <2>3. \A x \in all : Update(x) = <<>>
      BY UpdateOf DEF OptionSubscriptions
    <2> HIDE DEF all
    <2>4. Replication!Sends({})
      BY <2>1, <2>2, <2>3, SubscriptionsChatter
    <2>5. Link = "announced" /\ UNCHANGED Link
      BY <1>10 DEF SetupSubscriptions, Link
    <2>6. Replication!Chatter
      BY <1>10, <2>4, <2>5, Unseen DEF SetupSubscriptions, Replication!Chatter
    <2> QED
      BY <2>6 DEF Replication!Next
  <1>11. CASE LinkLost \/ Restart
    <2>1. Link' = "off" /\ UNCHANGED [n \in Items |-> retained[ValueTopic(n)]]
      BY <1>11, Unseen DEF LinkLost, Restart, Link
    <2>2. Carried(toBroker)' = <<>>
      BY <1>11 DEF LinkLost, Restart, Carried
    <2>3. Replication!Close \/ Replication!Crash
      BY <1>11, <2>1, <2>2 DEF LinkLost, Restart, clientVars, Replication!Close, Replication!Crash
    <2> QED
      BY <2>3 DEF Replication!Next
  <1>12. CASE BrokerReceive
    BY <1>12, BrokerPersists DEF Replication!Next
  <1>13. CASE HandleMessage
    <2> DEFINE m == Head(toClient)
    <2>1. CASE Routable(m.topic) /\ Awaited(m) /\ WellFormed(m) /\ Validates(m.topic[1], m.payload)
      <3>1. m.topic[1] \in Items /\ m.payload \in Values
        BY <2>1 DEF Routable, WellFormed, Items
      <3>2. SetValue(m.topic[1], m.payload) /\ UNCHANGED <<phase, retained>>
        BY <1>13, <2>1 DEF HandleMessage
      <3> QED
        BY <1>3, <3>1, <3>2
    <2>2. CASE ~(Routable(m.topic) /\ Awaited(m) /\ WellFormed(m) /\ Validates(m.topic[1], m.payload))
      BY <1>1, <1>13, <2>2 DEF HandleMessage
    <2> QED
      BY <2>1, <2>2
  <1>14. CASE \/ \E n \in Params : AddParameter(n)
              \/ \E n \in Options, p \in Values \cup {Malformed} : RemoteSet(n, p)
              \/ UNCHANGED vars
    BY <1>1, <1>14 DEF AddParameter, RemoteSet, clientVars, netVars, vars
  <1> QED
    BY <1>4, <1>5, <1>6, <1>7, <1>8, <1>9, <1>10, <1>11, <1>12, <1>13, <1>14
       DEF Next, AppCalls, Failures

\* Options, parameters, subscriptions and messages together do what the
\* abstract specification says of values, whatever is lost or restarted.
THEOREM ClientReplicates == Spec => ImplementsReplication
  <1>1. Spec => []TypeOK /\ []FreshUntilCreated
    BY InitTypeOK, NextTypeOK, FreshInductive, PTL DEF Spec
  <1> QED
    BY <1>1, InitReplicates, NextReplicates, PTL DEF Spec, ImplementsReplication, Replication!Spec
=============================================================================
