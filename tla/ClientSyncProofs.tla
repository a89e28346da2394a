-------------------------- MODULE ClientSyncProofs --------------------------
(***************************************************************************)
(* Safety of ClientSync for every set of options, parameters, values and   *)
(* validators, and any number of steps.                                    *)
(***************************************************************************)
EXTENDS ClientSync, SequenceTheorems, FiniteSetTheorems, TLAPS

-----------------------------------------------------------------------------
(***************************************************************************)
(* SetToSeq, which models a loop over a map, lists a finite set without    *)
(* repetition.                                                             *)
(***************************************************************************)

\* SetToSeq(S) is a sequence of elements of S in which each occurs once.
LEMMA SetToSeqLists ==
  ASSUME NEW S, IsFiniteSet(S)
  PROVE  /\ SetToSeq(S) \in Seq(S)
         /\ \A x \in S : \E k \in DOMAIN SetToSeq(S) :
              /\ SetToSeq(S)[k] = x
              /\ \A j \in DOMAIN SetToSeq(S) : j # k => SetToSeq(S)[j] # x
<1> DEFINE C == Cardinality(S)
           s == SetToSeq(S)
<1>1. C \in Nat /\ ExistsBijection(1..C, S)
  BY FS_CardinalityType
<1>2. \E f \in [1..C -> S] : IsInjective(f)
  BY <1>1 DEF ExistsBijection, Bijection, Injection
<1>3. s \in [1..C -> S] /\ IsInjective(s)
  BY <1>2 DEF SetToSeq
<1>4. s \in Seq(S)
  BY <1>1, <1>3, SeqDef
<1>5. s \in Surjection(1..C, S)
  <2>1. s \in Injection(1..C, S)
    BY <1>3 DEF Injection
  <2>2. Cardinality(1..C) = C
    BY <1>1, FS_Interval
  <2> QED
    BY <2>1, <2>2, FS_Injection
<1>6. \A x \in S : \E k \in 1..C : s[k] = x
  BY <1>5 DEF Surjection
<1>7. DOMAIN s = 1..C
  BY <1>3
<1>8. \A k, j \in 1..C : s[k] = s[j] => k = j
  BY <1>3, <1>7 DEF IsInjective
<1> HIDE DEF s, C
<1>9. \A x \in S : \E k \in DOMAIN s :
        s[k] = x /\ \A j \in DOMAIN s : j # k => s[j] # x
  BY <1>6, <1>7, <1>8
<1> QED
  BY <1>4, <1>9 DEF s

-----------------------------------------------------------------------------
(***************************************************************************)
(* What the broker will hold and who will be subscribed, when packets are  *)
(* added to the queue or leave it.                                         *)
(***************************************************************************)

\* Packets that publish nothing on t leave what the broker will hold there.
LEMMA HoldsAfterOthers ==
  ASSUME NEW q \in Seq(Packets), NEW r \in Seq(Packets), NEW store, NEW t, NEW p,
         WillHold(q, store, t, p),
         \A i \in DOMAIN r : ~Publishes(r[i], t)
  PROVE  WillHold(q \o r, store, t, p)
<1>1. /\ Len(q) \in Nat /\ Len(r) \in Nat
      /\ DOMAIN q = 1..Len(q) /\ DOMAIN r = 1..Len(r)
      /\ DOMAIN (q \o r) = 1..(Len(q) + Len(r))
      /\ \A i \in 1..(Len(q) + Len(r)) :
           (q \o r)[i] = IF i <= Len(q) THEN q[i] ELSE r[i - Len(q)]
  BY ConcatProperties, LenProperties
<1>2. \A i \in DOMAIN (q \o r) : i \notin DOMAIN q => ~Publishes((q \o r)[i], t)
  BY <1>1
<1>3. \A i \in DOMAIN q : i \in DOMAIN (q \o r) /\ (q \o r)[i] = q[i]
  BY <1>1
<1> QED
  BY <1>2, <1>3 DEF WillHold

\* The only publication on t among the added packets decides.
LEMMA HoldsAfterPublish ==
  ASSUME NEW q \in Seq(Packets), NEW r \in Seq(Packets), NEW store, NEW t, NEW p,
         NEW k \in DOMAIN r, r[k] = Publish(t, p),
         \A j \in DOMAIN r : j # k => ~Publishes(r[j], t)
  PROVE  WillHold(q \o r, store, t, p)
<1>1. /\ Len(q) \in Nat /\ Len(r) \in Nat
      /\ DOMAIN r = 1..Len(r)
      /\ DOMAIN (q \o r) = 1..(Len(q) + Len(r))
      /\ \A i \in 1..(Len(q) + Len(r)) :
           (q \o r)[i] = IF i <= Len(q) THEN q[i] ELSE r[i - Len(q)]
  BY ConcatProperties, LenProperties
<1>2. Len(q) + k \in DOMAIN (q \o r) /\ (q \o r)[Len(q) + k] = Publish(t, p)
  BY <1>1
<1>3. \A j \in DOMAIN (q \o r) : j > Len(q) + k => ~Publishes((q \o r)[j], t)
  BY <1>1
<1> QED
  BY <1>2, <1>3 DEF WillHold

\* The broker's step on the first packet does not change what it will hold.
LEMMA HoldsAfterReceive ==
  ASSUME NEW q \in Seq(Packets), q # <<>>,
         NEW store \in [Topics -> Payloads], NEW t \in Topics, NEW p,
         WillHold(q, store, t, p),
         NEW after,
         after = IF Head(q).type = "publish"
                 THEN [store EXCEPT ![Head(q).topic] = Head(q).payload] ELSE store
  PROVE  WillHold(Tail(q), after, t, p)
<1>1. /\ Len(q) \in Nat \ {0} /\ DOMAIN q = 1..Len(q) /\ Head(q) = q[1]
      /\ DOMAIN Tail(q) = 1..(Len(q) - 1)
      /\ \A i \in 1..(Len(q) - 1) : Tail(q)[i] = q[i + 1]
  BY HeadTailProperties, LenProperties, EmptySeq
<1>2. CASE \E i \in DOMAIN q : /\ q[i] = Publish(t, p)
                               /\ \A j \in DOMAIN q : j > i => ~Publishes(q[j], t)
  <2>1. PICK i \in DOMAIN q : /\ q[i] = Publish(t, p)
                              /\ \A j \in DOMAIN q : j > i => ~Publishes(q[j], t)
    BY <1>2
  <2>2. CASE i = 1
    <3>1. after[t] = p
      BY <1>1, <2>1, <2>2 DEF Publish
    <3>2. \A j \in DOMAIN Tail(q) : ~Publishes(Tail(q)[j], t)
      BY <1>1, <2>1, <2>2
    <3> QED
      BY <3>1, <3>2 DEF WillHold
  <2>3. CASE i # 1
    <3>1. i - 1 \in DOMAIN Tail(q) /\ Tail(q)[i - 1] = Publish(t, p)
      BY <1>1, <2>1, <2>3
    <3>2. \A j \in DOMAIN Tail(q) : j > i - 1 => ~Publishes(Tail(q)[j], t)
      BY <1>1, <2>1
    <3> QED
      BY <3>1, <3>2 DEF WillHold
  <2> QED
    BY <2>2, <2>3
<1>3. CASE store[t] = p /\ \A i \in DOMAIN q : ~Publishes(q[i], t)
  <2>1. after[t] = p
    BY <1>1, <1>3 DEF Publishes
  <2>2. \A j \in DOMAIN Tail(q) : ~Publishes(Tail(q)[j], t)
    BY <1>1, <1>3
  <2> QED
    BY <2>1, <2>2 DEF WillHold
<1> QED
  BY <1>2, <1>3 DEF WillHold

\* A subscription is not lost while no unsubscription is added.
LEMMA SubscribedAfterOthers ==
  ASSUME NEW q \in Seq(Packets), NEW r \in Seq(Packets), NEW ts, NEW t,
         \A i \in DOMAIN r : r[i] # Unsubscribe(t),
         \/ WillSubscribe(q, ts, t)
         \/ \E k \in DOMAIN r : r[k] = Subscribe(t)
  PROVE  WillSubscribe(q \o r, ts, t)
<1>1. /\ Len(q) \in Nat /\ Len(r) \in Nat
      /\ DOMAIN q = 1..Len(q) /\ DOMAIN r = 1..Len(r)
      /\ DOMAIN (q \o r) = 1..(Len(q) + Len(r))
      /\ \A i \in 1..(Len(q) + Len(r)) :
           (q \o r)[i] = IF i <= Len(q) THEN q[i] ELSE r[i - Len(q)]
  BY ConcatProperties, LenProperties
<1>2. \A i \in DOMAIN (q \o r) : i \notin DOMAIN q => (q \o r)[i] # Unsubscribe(t)
  BY <1>1
<1>3. \A i \in DOMAIN q : i \in DOMAIN (q \o r) /\ (q \o r)[i] = q[i]
  BY <1>1
<1>4. CASE WillSubscribe(q, ts, t)
  BY <1>2, <1>3, <1>4 DEF WillSubscribe
<1>5. CASE \E k \in DOMAIN r : r[k] = Subscribe(t)
  <2>1. PICK k \in DOMAIN r : r[k] = Subscribe(t)
    BY <1>5
  <2>2. Len(q) + k \in DOMAIN (q \o r) /\ (q \o r)[Len(q) + k] = Subscribe(t)
    BY <1>1, <2>1
  <2>3. \A j \in DOMAIN (q \o r) : j > Len(q) + k => (q \o r)[j] # Unsubscribe(t)
    BY <1>1
  <2> QED
    BY <2>2, <2>3 DEF WillSubscribe
<1> QED
  BY <1>4, <1>5

\* A subscription that no added packet asked for was there before, and none
\* of the added packets cancels it.
LEMMA SubscribedBefore ==
  ASSUME NEW q \in Seq(Packets), NEW r \in Seq(Packets), NEW ts, NEW t,
         \A i \in DOMAIN r : r[i] # Subscribe(t),
         WillSubscribe(q \o r, ts, t)
  PROVE  /\ WillSubscribe(q, ts, t)
         /\ \A i \in DOMAIN r : r[i] # Unsubscribe(t)
<1>1. /\ Len(q) \in Nat /\ Len(r) \in Nat
      /\ DOMAIN q = 1..Len(q) /\ DOMAIN r = 1..Len(r)
      /\ DOMAIN (q \o r) = 1..(Len(q) + Len(r))
      /\ \A i \in 1..(Len(q) + Len(r)) :
           (q \o r)[i] = IF i <= Len(q) THEN q[i] ELSE r[i - Len(q)]
  BY ConcatProperties, LenProperties
<1>2. \A i \in DOMAIN q : i \in DOMAIN (q \o r) /\ (q \o r)[i] = q[i]
  BY <1>1
<1>3. \A i \in DOMAIN r : /\ Len(q) + i \in DOMAIN (q \o r)
                          /\ (q \o r)[Len(q) + i] = r[i]
                          /\ \A j \in DOMAIN q : Len(q) + i > j
  BY <1>1
<1>4. \A i \in DOMAIN (q \o r) : (q \o r)[i] = Subscribe(t) => i \in DOMAIN q
  BY <1>1
<1> QED
  BY <1>2, <1>3, <1>4 DEF WillSubscribe

\* The broker's step on the first packet does not change who will be
\* subscribed.
LEMMA SubscribedAfterReceive ==
  ASSUME NEW q \in Seq(Packets), q # <<>>, NEW ts, NEW t \in Topics,
         NEW after,
         after = CASE Head(q).type = "subscribe" -> ts \cup {Head(q).topic}
                   [] Head(q).type = "unsubscribe" -> ts \ {Head(q).topic}
                   [] Head(q).type = "publish" -> ts
  PROVE  WillSubscribe(Tail(q), after, t) <=> WillSubscribe(q, ts, t)
<1>1. /\ Len(q) \in Nat \ {0} /\ DOMAIN q = 1..Len(q) /\ Head(q) = q[1]
      /\ DOMAIN Tail(q) = 1..(Len(q) - 1)
      /\ \A i \in 1..(Len(q) - 1) : Tail(q)[i] = q[i + 1]
      /\ Head(q) \in Packets
  BY HeadTailProperties, LenProperties, EmptySeq
<1>2. /\ t \in after <=> Head(q) = Subscribe(t) \/ (t \in ts /\ Head(q) # Unsubscribe(t))
  BY <1>1 DEF Packets, Subscribe, Unsubscribe, Publish
<1>3. Subscribe(t) # Unsubscribe(t)
  BY DEF Subscribe, Unsubscribe
<1>4. \A i \in DOMAIN q : i # 1 => i - 1 \in DOMAIN Tail(q) /\ Tail(q)[i - 1] = q[i]
  BY <1>1
<1>5. \A i \in DOMAIN Tail(q) : i + 1 \in DOMAIN q /\ i + 1 # 1 /\ Tail(q)[i] = q[i + 1]
  BY <1>1
<1>6. ASSUME WillSubscribe(q, ts, t) PROVE WillSubscribe(Tail(q), after, t)
  <2>1. CASE t \in ts /\ \A i \in DOMAIN q : q[i] # Unsubscribe(t)
    <3>1. t \in after
      <4>1. 1 \in DOMAIN q
        BY <1>1
      <4>2. Head(q) # Unsubscribe(t)
        BY <1>1, <2>1, <4>1
      <4> QED
        BY <1>2, <2>1, <4>2
    <3>2. \A i \in DOMAIN Tail(q) : Tail(q)[i] # Unsubscribe(t)
      BY <1>5, <2>1
    <3> QED
      BY <3>1, <3>2 DEF WillSubscribe
  <2>2. CASE \E i \in DOMAIN q : /\ q[i] = Subscribe(t)
                                 /\ \A j \in DOMAIN q : j > i => q[j] # Unsubscribe(t)
    <3>1. PICK i \in DOMAIN q : /\ q[i] = Subscribe(t)
                                /\ \A j \in DOMAIN q : j > i => q[j] # Unsubscribe(t)
      BY <2>2
    <3>2. CASE i = 1
      <4>1. \A j \in DOMAIN Tail(q) : Tail(q)[j] # Unsubscribe(t)
        BY <1>1, <3>1, <3>2
      <4> QED
        BY <1>1, <1>2, <3>1, <3>2, <4>1 DEF WillSubscribe
    <3>3. CASE i # 1
      <4>1. \A j \in DOMAIN Tail(q) : j > i - 1 => Tail(q)[j] # Unsubscribe(t)
        BY <1>1, <3>1
      <4> QED
        BY <1>4, <3>1, <3>3, <4>1 DEF WillSubscribe
    <3> QED
      BY <3>2, <3>3
  <2> QED
    BY <1>6, <2>1, <2>2 DEF WillSubscribe
<1>7. ASSUME WillSubscribe(Tail(q), after, t) PROVE WillSubscribe(q, ts, t)
  <2>1. CASE \E i \in DOMAIN Tail(q) :
               /\ Tail(q)[i] = Subscribe(t)
               /\ \A j \in DOMAIN Tail(q) : j > i => Tail(q)[j] # Unsubscribe(t)
    <3>1. PICK i \in DOMAIN Tail(q) :
               /\ Tail(q)[i] = Subscribe(t)
               /\ \A j \in DOMAIN Tail(q) : j > i => Tail(q)[j] # Unsubscribe(t)
      BY <2>1
    <3>2. \A j \in DOMAIN q : j > i + 1 => j - 1 > i /\ j # 1
      BY <1>1, <3>1
    <3>3. \A j \in DOMAIN q : j > i + 1 => q[j] # Unsubscribe(t)
      BY <1>4, <3>1, <3>2
    <3> QED
      BY <1>5, <3>1, <3>3 DEF WillSubscribe
  <2>2. CASE t \in after /\ \A i \in DOMAIN Tail(q) : Tail(q)[i] # Unsubscribe(t)
    <3>1. \A j \in DOMAIN q : j # 1 => q[j] # Unsubscribe(t)
      BY <1>4, <2>2
    <3>2. CASE Head(q) = Subscribe(t)
      <4>1. 1 \in DOMAIN q /\ \A j \in DOMAIN q : j > 1 => j # 1
        BY <1>1
      <4> QED
        BY <1>1, <3>1, <3>2, <4>1 DEF WillSubscribe
    <3>3. CASE t \in ts /\ Head(q) # Unsubscribe(t)
      BY <1>1, <3>1, <3>3 DEF WillSubscribe
    <3> QED
      BY <1>2, <2>2, <3>2, <3>3
  <2> QED
    BY <1>7, <2>1, <2>2 DEF WillSubscribe
<1> QED
  BY <1>6, <1>7

-----------------------------------------------------------------------------
(***************************************************************************)
(* What each handler adds to the queue.                                    *)
(***************************************************************************)

\* What handlers send are packets, on topics of the items.
LEMMA PacketTypes ==
  /\ \A t \in Topics, p \in Payloads : Publish(t, p) \in Packets
  /\ \A t \in Topics : Subscribe(t) \in Packets /\ Unsubscribe(t) \in Packets
  /\ \A n \in Items : /\ ValueTopic(n) \in Topics
                      /\ SetTopic(n) \in Topics
                      /\ ValidatorTopic(n) \in Topics
BY DEF Packets, Topics, ValueTopic, SetTopic, ValidatorTopic

\* Packets of different kinds or topics differ.
LEMMA PacketsDiffer ==
  ASSUME NEW t, NEW u, NEW p
  PROVE  /\ Publish(t, p) # Subscribe(u)
         /\ Publish(t, p) # Unsubscribe(u)
         /\ Subscribe(t) # Unsubscribe(u)
         /\ Publishes(Publish(t, p), u) <=> t = u
         /\ ~Publishes(Subscribe(t), u)
         /\ ~Publishes(Unsubscribe(t), u)
         /\ Subscribe(t) = Subscribe(u) => t = u
         /\ Unsubscribe(t) = Unsubscribe(u) => t = u
         /\ Subscribe(t).topic = t
         /\ Publish(t, p).type # "subscribe"
         /\ Unsubscribe(t).type # "subscribe"
BY DEF Publish, Subscribe, Unsubscribe, Publishes

\* So do the topics of different kinds or items.
LEMMA TopicsDiffer ==
  ASSUME NEW n, NEW m
  PROVE  /\ ValueTopic(n) # SetTopic(m)
         /\ ValueTopic(n) # ValidatorTopic(m)
         /\ SetTopic(n) # ValidatorTopic(m)
         /\ ValueTopic(n) = ValueTopic(m) => n = m
         /\ ValidatorTopic(n) = ValidatorTopic(m) => n = m
<1>1. ValueTopic(n) # SetTopic(m)
  BY DEF ValueTopic, SetTopic
<1>2. ValueTopic(n) # ValidatorTopic(m)
  BY DEF ValueTopic, ValidatorTopic
<1>3. SetTopic(n) # ValidatorTopic(m)
  BY DEF SetTopic, ValidatorTopic
<1>4. ValueTopic(n) = ValueTopic(m) => n = m
  BY DEF ValueTopic
<1>5. ValidatorTopic(n) = ValidatorTopic(m) => n = m
  BY DEF ValidatorTopic
<1> QED
  BY <1>1, <1>2, <1>3, <1>4, <1>5

\* A set of packets with one for each of finitely many names is finite.
LEMMA OnePerName ==
  ASSUME NEW N, IsFiniteSet(N), NEW f, DOMAIN f = N
  PROVE  IsFiniteSet({f[n] : n \in N})
<1> DEFINE T == {f[n] : n \in N}
           g == [n \in N |-> f[n]]
<1>1. g \in [N -> T]
  OBVIOUS
<1>2. \A x \in T : \E n \in N : g[n] = x
  OBVIOUS
<1>3. g \in Surjection(N, T)
  BY <1>1, <1>2 DEF Surjection
<1> HIDE DEF T, g
<1>4. IsFiniteSet(T)
  BY <1>3, FS_Surjection
<1> QED
  BY <1>4 DEF T

\* The uploads made on connection are finitely many packets.
LEMMA UploadAllPackets ==
  ASSUME TypeOK
  PROVE  UploadAll \subseteq Packets /\ IsFiniteSet(UploadAll)
<1> DEFINE V == {i \in created : value[i] # Undefined}
           W == {i \in created : validator[i] # NoValidator}
           f == [n \in V |-> Publish(ValueTopic(n), value[n])]
           g == [n \in W |-> Publish(ValidatorTopic(n), validator[n])]
<1>1. IsFiniteSet(V) /\ IsFiniteSet(W)
  <2>1. IsFiniteSet(Items)
    BY ConstantsAssumption, FS_Union DEF ConstantsAssumption, Items
  <2>2. V \in SUBSET Items /\ W \in SUBSET Items
    BY DEF TypeOK
  <2> QED
    BY <2>1, <2>2, FS_Subset
<1>2. IsFiniteSet({f[n] : n \in V}) /\ IsFiniteSet({g[n] : n \in W})
  <2> HIDE DEF V, W
  <2>1. DOMAIN f = V /\ DOMAIN g = W
    OBVIOUS
  <2> HIDE DEF f, g
  <2> QED
    BY <1>1, <2>1, OnePerName
<1>3. UploadAll = {f[n] : n \in V} \cup {g[n] : n \in W}
  BY DEF UploadAll
<1>4. UploadAll \subseteq Packets
  <2>1. \A n \in V : n \in Items /\ value[n] \in Payloads
    BY DEF TypeOK, Payloads
  <2>2. \A n \in W : n \in Items /\ validator[n] \in Payloads
    BY DEF TypeOK, Payloads
  <2> QED
    BY <2>1, <2>2, PacketTypes DEF UploadAll
<1> QED
  BY <1>2, <1>3, <1>4, FS_Union

\* The subscriptions of one option are finitely many packets.
LEMMA OptionSubscriptionsPackets ==
  ASSUME NEW n \in Options, NEW accept
  PROVE  /\ OptionSubscriptions(n, accept) \subseteq Packets
         /\ IsFiniteSet(OptionSubscriptions(n, accept))
<1>1. n \in Items
  BY DEF Items
<1>2. Subscribe(SetTopic(n)) \in Packets /\ Subscribe(ValueTopic(n)) \in Packets
  BY <1>1, PacketTypes
<1>3. CASE accept
  <2>1. OptionSubscriptions(n, accept) = {Subscribe(SetTopic(n))} \cup {Subscribe(ValueTopic(n))}
    BY <1>3 DEF OptionSubscriptions
  <2>2. IsFiniteSet({Subscribe(SetTopic(n))} \cup {Subscribe(ValueTopic(n))})
    BY FS_Singleton, FS_AddElement
  <2> QED
    BY <1>2, <2>1, <2>2
<1>4. CASE ~accept
  <2>1. OptionSubscriptions(n, accept) = {Subscribe(SetTopic(n))}
    BY <1>4 DEF OptionSubscriptions
  <2> QED
    BY <1>2, <2>1, FS_Singleton
<1> QED
  BY <1>3, <1>4

\* The subscriptions of all options are finitely many packets.
LEMMA AllSubscriptionsPackets ==
  ASSUME NEW O \in SUBSET Options, NEW accepting
  PROVE  LET all == UNION {OptionSubscriptions(n, n \in accepting) : n \in O}
         IN  all \subseteq Packets /\ IsFiniteSet(all)
<1> DEFINE f == [n \in O |-> OptionSubscriptions(n, n \in accepting)]
           all == UNION {OptionSubscriptions(n, n \in accepting) : n \in O}
<1>1. \A n \in O : f[n] \subseteq Packets /\ IsFiniteSet(f[n])
  BY OptionSubscriptionsPackets
<1>2. IsFiniteSet(O)
  BY ConstantsAssumption, FS_Subset DEF ConstantsAssumption
<1>3. all = UNION {f[n] : n \in O}
  OBVIOUS
<1>4. IsFiniteSet({f[n] : n \in O})
  <2>1. DOMAIN f = O
    OBVIOUS
  <2> HIDE DEF f
  <2> QED
    BY <1>2, <2>1, OnePerName
<1> HIDE DEF f
<1>5. IsFiniteSet(UNION {f[n] : n \in O})
  <2> DEFINE T == {f[n] : n \in O}
  <2>1. \A x \in T : IsFiniteSet(x)
    BY <1>1
  <2>2. IsFiniteSet(T)
    BY <1>4
  <2> HIDE DEF T
  <2>3. IsFiniteSet(UNION T)
    BY <2>1, <2>2, FS_UNION
  <2> QED
    BY <2>3 DEF T
<1>6. UNION {f[n] : n \in O} \subseteq Packets
  BY <1>1
<1> QED
  BY <1>3, <1>5, <1>6

\* A loop appends each packet of the set once.
LEMMA SendAllAppends ==
  ASSUME NEW S, S \subseteq Packets, IsFiniteSet(S), SendAll(S)
  PROVE  \E r \in Seq(Packets) :
           /\ toBroker' = toBroker \o r
           /\ \A i \in DOMAIN r : r[i] \in S
           /\ \A x \in S : \E k \in DOMAIN r :
                r[k] = x /\ \A j \in DOMAIN r : j # k => r[j] # x
<1> DEFINE r == SetToSeq(S)
<1>1. r \in Seq(S)
  BY SetToSeqLists
<1>2. \A x \in S : \E k \in DOMAIN r :
        r[k] = x /\ \A j \in DOMAIN r : j # k => r[j] # x
  BY SetToSeqLists
<1>3. toBroker' = toBroker \o r
  BY DEF SendAll
<1> HIDE DEF r
<1>4. r \in Seq(Packets)
  BY <1>1, SeqMonotonic
<1>5. \A i \in DOMAIN r : r[i] \in S
  BY <1>1, ElementOfSeq, LenProperties
<1> QED
  BY <1>2, <1>3, <1>4, <1>5

\* The slots of valueChanged append the publication of the new value, if it
\* is defined, and then the unsubscription, if its slot is connected.
LEMMA ValueSlotsAppend ==
  ASSUME NEW n \in Items, NEW v \in Values \cup {Undefined}
  PROVE  /\ ValueSlots(n, v) \in Seq(Packets)
         /\ v = Undefined => ValueSlots(n, v) = <<>>
         /\ v # Undefined => \E k \in DOMAIN ValueSlots(n, v) :
              /\ ValueSlots(n, v)[k] = Publish(ValueTopic(n), v)
              /\ \A j \in DOMAIN ValueSlots(n, v) :
                   j # k => ValueSlots(n, v)[j] = Unsubscribe(ValueTopic(n))
         /\ v # Undefined /\ n \in watching =>
              \E k \in DOMAIN ValueSlots(n, v) :
                ValueSlots(n, v)[k] = Unsubscribe(ValueTopic(n))
<1>1. v # Undefined => Publish(ValueTopic(n), v) \in Packets
  BY PacketTypes DEF Payloads
<1>2. Unsubscribe(ValueTopic(n)) \in Packets
  BY PacketTypes
<1>3. CASE v = Undefined
  <2>1. ValueSlots(n, v) = <<>> \o <<>>
    BY <1>3 DEF ValueSlots, UploadValue, UnsubscribeSaved
  <2>2. ValueSlots(n, v) = <<>>
    BY <2>1, ConcatEmptySeq, EmptySeq
  <2> QED
    BY <1>3, <2>2
<1>4. CASE v # Undefined /\ n \in watching
  <2>1. ValueSlots(n, v) = <<Publish(ValueTopic(n), v)>> \o <<Unsubscribe(ValueTopic(n))>>
    BY <1>4 DEF ValueSlots, UploadValue, UnsubscribeSaved
  <2>2. /\ <<Publish(ValueTopic(n), v)>> \in Seq(Packets)
        /\ <<Unsubscribe(ValueTopic(n))>> \in Seq(Packets)
    BY <1>1, <1>2, <1>4
  <2>3. /\ ValueSlots(n, v) \in Seq(Packets)
        /\ DOMAIN ValueSlots(n, v) = 1..2
        /\ ValueSlots(n, v)[1] = Publish(ValueTopic(n), v)
        /\ ValueSlots(n, v)[2] = Unsubscribe(ValueTopic(n))
    BY <2>1, <2>2, ConcatProperties, LenProperties
  <2> QED
    BY <1>4, <2>3
<1>5. CASE v # Undefined /\ n \notin watching
  <2>1. ValueSlots(n, v) = <<Publish(ValueTopic(n), v)>> \o <<>>
    BY <1>5 DEF ValueSlots, UploadValue, UnsubscribeSaved
  <2>2. <<Publish(ValueTopic(n), v)>> \in Seq(Packets)
    BY <1>1, <1>5
  <2>3. ValueSlots(n, v) = <<Publish(ValueTopic(n), v)>>
    BY <2>1, <2>2, ConcatEmptySeq
  <2>4. /\ ValueSlots(n, v) \in Seq(Packets)
        /\ DOMAIN ValueSlots(n, v) = 1..1
        /\ ValueSlots(n, v)[1] = Publish(ValueTopic(n), v)
    BY <2>2, <2>3
  <2> QED
    BY <1>5, <2>4
<1> QED
  BY <1>3, <1>4, <1>5

-----------------------------------------------------------------------------
(***************************************************************************)
(* Type correctness.                                                       *)
(***************************************************************************)

\* The initial state is well typed, whatever the broker retains.
LEMMA InitTypeOK == Init => TypeOK
<1> SUFFICES ASSUME Init PROVE TypeOK
  OBVIOUS
<1>1. PICK saved \in [Items -> Values \cup {Empty}], rules \in [Items -> Validators \cup {Empty}] :
        retained = [t \in Topics |-> CASE t[2] = "value" -> saved[t[1]]
                                       [] t[2] = "set" -> Empty
                                       [] t[2] = "validator" -> rules[t[1]]]
  BY DEF Init
<1>2. \A t \in Topics : /\ t[1] \in Items
                        /\ t[2] \in {"value", "set", "validator"}
  BY DEF Topics
<1>3. \A t \in Topics : retained[t] \in Payloads
  <2> SUFFICES ASSUME NEW t \in Topics PROVE retained[t] \in Payloads
    OBVIOUS
  <2>1. CASE t[2] = "value"
    BY <1>1, <1>2, <2>1 DEF Payloads
  <2>2. CASE t[2] = "set"
    BY <1>1, <1>2, <2>2 DEF Payloads
  <2>3. CASE t[2] = "validator"
    BY <1>1, <1>2, <2>3 DEF Payloads
  <2> QED
    BY <1>2, <2>1, <2>2, <2>3
<1>4. retained \in [Topics -> Payloads]
  BY <1>1, <1>3
<1>5. /\ value \in [Items -> Values \cup {Undefined}]
      /\ validator \in [Items -> Validators \cup {NoValidator}]
  BY DEF Init
<1>6. toBroker \in Seq(Packets) /\ toClient \in Seq(Messages)
  BY EmptySeq DEF Init
<1>7. steps \in 0..MaxSteps
  BY ConstantsAssumption DEF Init, ConstantsAssumption
<1> QED
  BY <1>4, <1>5, <1>6, <1>7 DEF Init, TypeOK

\* Setting a value keeps the types.
LEMMA SetValueTypes ==
  ASSUME TypeOK, NEW n \in Items, NEW v \in Values \cup {Undefined}, SetValue(n, v)
  PROVE  /\ value' \in [Items -> Values \cup {Undefined}]
         /\ watching' \subseteq Options
         /\ toBroker' \in Seq(Packets)
<1>1. ValueSlots(n, v) \in Seq(Packets)
  BY ValueSlotsAppend
<1>2. toBroker \o ValueSlots(n, v) \in Seq(Packets)
  BY <1>1, ConcatProperties DEF TypeOK
<1>3. value' \in [Items -> Values \cup {Undefined}]
  BY DEF TypeOK, SetValue
<1>4. watching' \subseteq Options /\ toBroker' \in Seq(Packets)
  BY <1>2 DEF TypeOK, SetValue
<1> QED
  BY <1>3, <1>4

\* So does the delivery of a message.
LEMMA DeliverTypes ==
  ASSUME TypeOK, NEW t \in Topics, NEW p \in Payloads, Deliver(t, p)
  PROVE  toClient' \in Seq(Messages)
<1>1. [topic |-> t, payload |-> p] \in Messages
  BY DEF Messages
<1>2. Append(toClient, [topic |-> t, payload |-> p]) \in Seq(Messages)
  BY <1>1, AppendProperties DEF TypeOK
<1> QED
  BY <1>2 DEF Deliver, TypeOK

\* And a loop that sends packets.
LEMMA SendAllTypes ==
  ASSUME TypeOK, NEW S, S \subseteq Packets, IsFiniteSet(S), SendAll(S)
  PROVE  toBroker' \in Seq(Packets)
<1>1. PICK r \in Seq(Packets) : toBroker' = toBroker \o r
  BY SendAllAppends
<1> QED
  BY <1>1, ConcatProperties DEF TypeOK

\* Every step keeps the types.
LEMMA NextTypeOK == TypeOK /\ [Next]_vars => TypeOK'
<1> SUFFICES ASSUME TypeOK, [Next]_vars PROVE TypeOK'
  OBVIOUS
<1>0. EnvironmentStep => steps' \in 0..MaxSteps
  BY ConstantsAssumption DEF EnvironmentStep, TypeOK, ConstantsAssumption
<1>1. ASSUME NEW n \in Options, NEW accept \in BOOLEAN, AddOption(n, accept) PROVE TypeOK'
  <2>1. toBroker' \in Seq(Packets)
    BY <1>1, OptionSubscriptionsPackets, SendAllTypes DEF AddOption, TypeOK
  <2>2. created' \subseteq Items /\ watching' \subseteq Options
    BY <1>1 DEF AddOption, TypeOK, Items
  <2> QED
    BY <1>0, <1>1, <2>1, <2>2 DEF AddOption, TypeOK
<1>2. ASSUME NEW n \in Params, AddParameter(n) PROVE TypeOK'
  BY <1>0, <1>2 DEF AddParameter, TypeOK, Items, netVars
<1>3. ASSUME NEW n \in Items, NEW v \in AppValues, AppSetValue(n, v) PROVE TypeOK'
  <2>1. v \in Values \cup {Undefined}
    BY ConstantsAssumption DEF ConstantsAssumption
  <2> QED
    BY <1>0, <1>3, <2>1, SetValueTypes DEF AppSetValue, TypeOK
<1>4. ASSUME NEW n \in Items, NEW w \in Validators \cup {NoValidator}, AppSetValidator(n, w)
      PROVE  TypeOK'
  <2>1. UploadValidator(n, w) \in Seq(Packets)
    BY PacketTypes DEF UploadValidator, Payloads
  <2>2. toBroker \o UploadValidator(n, w) \in Seq(Packets)
    BY <2>1, ConcatProperties DEF TypeOK
  <2> QED
    BY <1>0, <1>4, <2>2 DEF AppSetValidator, TypeOK
<1>5. CASE ConnectToHost
  BY <1>0, <1>5 DEF ConnectToHost, TypeOK, clientVars, netVars
<1>6. CASE LinkLost
  BY <1>0, <1>6 DEF LinkLost, TypeOK, clientVars
<1>7. CASE Restart
  BY <1>0, <1>7 DEF Restart, TypeOK
<1>8. CASE ConnectFails
  BY <1>8 DEF ConnectFails, TypeOK, clientVars, netVars
<1>9. ASSUME NEW n \in Options, NEW p \in Values \cup {Malformed}, RemoteSet(n, p) PROVE TypeOK'
  <2>1. SetTopic(n) \in Topics /\ p \in Payloads
    BY PacketTypes DEF Items, Payloads
  <2> QED
    BY <1>0, <1>9, <2>1, DeliverTypes DEF RemoteSet, TypeOK, clientVars
<1>10. CASE SocketUp
  BY <1>10 DEF SocketUp, TypeOK, clientVars, CleanSession
<1>11. CASE HandleConnected
  <2>1. toBroker' \in Seq(Packets)
    BY <1>11, UploadAllPackets, SendAllTypes DEF HandleConnected
  <2> QED
    BY <1>11, <2>1 DEF HandleConnected, TypeOK, clientVars
<1>12. CASE SetupSubscriptions
  <2> DEFINE options == created \cap Options
             undefined == {n \in options : value[n] = Undefined}
             all == UNION {OptionSubscriptions(n, n \in undefined) : n \in options}
  <2>1. all \subseteq Packets /\ IsFiniteSet(all)
    <3>1. options \in SUBSET Options
      OBVIOUS
    <3> HIDE DEF options, undefined
    <3> QED
      BY <3>1, AllSubscriptionsPackets
  <2>2. toBroker' \in Seq(Packets)
    BY <1>12, <2>1, SendAllTypes DEF SetupSubscriptions
  <2> QED
    BY <1>12, <2>2 DEF SetupSubscriptions, TypeOK
<1>13. CASE BrokerReceive
  <2> DEFINE p == Head(toBroker)
  <2>1. p \in Packets /\ toBroker' \in Seq(Packets)
    BY <1>13, HeadTailProperties DEF BrokerReceive, TypeOK
  <2>2. /\ p.topic \in Topics /\ p.payload \in Payloads
        /\ p.type \in {"publish", "subscribe", "unsubscribe"}
    BY <2>1 DEF Packets, Publish, Subscribe, Unsubscribe, Payloads
  <2>3. subs' \subseteq Topics
    <3>1. CASE p.type = "subscribe"
      BY <1>13, <2>2, <3>1 DEF BrokerReceive, TypeOK
    <3>2. CASE p.type = "unsubscribe"
      BY <1>13, <2>2, <3>2 DEF BrokerReceive, TypeOK
    <3>3. CASE p.type = "publish"
      BY <1>13, <2>2, <3>3 DEF BrokerReceive, TypeOK
    <3> QED
      BY <2>2, <3>1, <3>2, <3>3
  <2>4. retained' \in [Topics -> Payloads] /\ toClient' \in Seq(Messages)
    <3>1. CASE p.type = "publish"
      BY <1>13, <2>2, <3>1, DeliverTypes DEF BrokerReceive, TypeOK
    <3>2. CASE p.type # "publish"
      <4>1. retained[p.topic] \in Payloads
        BY <2>2 DEF TypeOK
      <4> QED
        BY <1>13, <2>2, <3>2, <4>1, DeliverTypes DEF BrokerReceive, TypeOK
    <3> QED
      BY <3>1, <3>2
  <2> QED
    BY <1>13, <2>1, <2>3, <2>4 DEF BrokerReceive, TypeOK, clientVars
<1>14. CASE HandleMessage
  <2> DEFINE m == Head(toClient)
  <2>1. m \in Messages /\ toClient' \in Seq(Messages)
    BY <1>14, HeadTailProperties DEF HandleMessage, TypeOK
  <2>2. /\ value' \in [Items -> Values \cup {Undefined}]
        /\ watching' \subseteq Options
        /\ toBroker' \in Seq(Packets)
    <3>1. CASE Routable(m.topic) /\ Awaited(m) /\ WellFormed(m) /\ Validates(m.topic[1], m.payload)
      <4>1. m.topic[1] \in Items /\ m.payload \in Values
        BY <3>1 DEF Routable, WellFormed, Items
      <4> QED
        BY <1>14, <3>1, <4>1, SetValueTypes DEF HandleMessage
    <3>2. CASE ~(Routable(m.topic) /\ Awaited(m) /\ WellFormed(m) /\ Validates(m.topic[1], m.payload))
      BY <1>14, <3>2 DEF HandleMessage, TypeOK
    <3> QED
      BY <3>1, <3>2
  <2> QED
    BY <1>14, <2>1, <2>2 DEF HandleMessage, TypeOK
<1>15. CASE UNCHANGED vars
  BY <1>15 DEF TypeOK, vars
<1> QED
  BY <1>1, <1>2, <1>3, <1>4, <1>5, <1>6, <1>7, <1>8, <1>9, <1>10, <1>11, <1>12,
     <1>13, <1>14, <1>15 DEF Next, AppCalls, Failures

\* The state has the types it is declared with, for every set of options,
\* parameters, values and validators.
THEOREM TypeCorrect == Spec => []TypeOK
BY InitTypeOK, NextTypeOK, PTL DEF Spec

-----------------------------------------------------------------------------
(***************************************************************************)
(* The broker follows the values.                                          *)
(***************************************************************************)

\* An item that was not created has the initial value and validator.
FreshUntilCreated ==
  \A n \in Items \ created :
    value[n] = Undefined /\ validator[n] = NoValidator /\ n \notin watching

\* No value and no validator before addOption or addParameter.
LEMMA FreshInductive ==
  /\ Init => FreshUntilCreated
  /\ TypeOK /\ FreshUntilCreated /\ [Next]_vars => FreshUntilCreated'
<1>1. Init => FreshUntilCreated
  BY DEF Init, FreshUntilCreated
<1> SUFFICES ASSUME TypeOK, FreshUntilCreated, [Next]_vars PROVE FreshUntilCreated'
  BY <1>1
<1>2. ASSUME NEW n \in created, NEW v, SetValue(n, v), created' = created,
             validator' = validator
      PROVE  FreshUntilCreated'
  BY <1>2 DEF SetValue, FreshUntilCreated, TypeOK
<1>3. ASSUME NEW n \in Options, NEW accept \in BOOLEAN, AddOption(n, accept)
      PROVE  FreshUntilCreated'
  BY <1>3 DEF AddOption, FreshUntilCreated
<1>4. ASSUME NEW n \in Params, AddParameter(n) PROVE FreshUntilCreated'
  BY <1>4 DEF AddParameter, FreshUntilCreated
<1>5. ASSUME NEW n \in Items, NEW v \in AppValues, AppSetValue(n, v)
      PROVE  FreshUntilCreated'
  BY <1>2, <1>5 DEF AppSetValue
<1>6. ASSUME NEW n \in Items, NEW w \in Validators \cup {NoValidator}, AppSetValidator(n, w)
      PROVE  FreshUntilCreated'
  BY <1>6 DEF AppSetValidator, FreshUntilCreated, TypeOK
<1>7. CASE HandleMessage
  <2> DEFINE m == Head(toClient)
  <2>1. CASE Routable(m.topic) /\ Awaited(m) /\ WellFormed(m) /\ Validates(m.topic[1], m.payload)
    BY <1>2, <1>7, <2>1 DEF HandleMessage, Routable
  <2>2. CASE ~(Routable(m.topic) /\ Awaited(m) /\ WellFormed(m) /\ Validates(m.topic[1], m.payload))
    BY <1>7, <2>2 DEF HandleMessage, FreshUntilCreated
  <2> QED
    BY <2>1, <2>2
<1>8. CASE SetupSubscriptions
  BY <1>8 DEF SetupSubscriptions, FreshUntilCreated
<1>9. CASE Restart
  BY <1>9 DEF Restart, FreshUntilCreated
<1>10. CASE UNCHANGED clientVars
  BY <1>10 DEF clientVars, FreshUntilCreated
<1> QED
  BY <1>3, <1>4, <1>5, <1>6, <1>7, <1>8, <1>9, <1>10
  DEF Next, AppCalls, Failures, ConnectToHost, LinkLost, ConnectFails, RemoteSet,
      SocketUp, HandleConnected, BrokerReceive, vars, clientVars

\* Setting a value keeps the broker following.
LEMMA SetValueFollowed ==
  ASSUME TypeOK, BrokerFollowsValues, NEW n \in created, NEW v \in Values \cup {Undefined},
         SetValue(n, v), phase' = phase, created' = created, retained' = retained
  PROVE  BrokerFollowsValues'
<1> SUFFICES ASSUME phase \in {"announcing", "session"},
                    NEW i \in created, value'[i] # Undefined
             PROVE  WillHold(toBroker', retained, ValueTopic(i), value'[i])
  BY DEF BrokerFollowsValues
<1>0. n \in Items /\ i \in Items /\ Online
  BY DEF TypeOK, Online
<1>1. CASE v = value[n]
  <2>1. value' = value /\ toBroker' = toBroker
    BY <1>0, <1>1 DEF SetValue, TypeOK
  <2> QED
    BY <2>1 DEF BrokerFollowsValues
<1>2. CASE v # value[n]
  <2>1. toBroker' = toBroker \o ValueSlots(n, v)
    BY <1>0, <1>2 DEF SetValue
  <2>2. toBroker \in Seq(Packets) /\ ValueSlots(n, v) \in Seq(Packets)
    BY <1>0, ValueSlotsAppend DEF TypeOK
  <2>3. CASE i = n
    <3>1. value'[i] = v
      BY <1>0, <2>3 DEF SetValue, TypeOK
    <3>2. PICK k \in DOMAIN ValueSlots(n, v) :
            /\ ValueSlots(n, v)[k] = Publish(ValueTopic(n), v)
            /\ \A j \in DOMAIN ValueSlots(n, v) :
                 j # k => ValueSlots(n, v)[j] = Unsubscribe(ValueTopic(n))
      BY <1>0, <2>3, <3>1, ValueSlotsAppend
    <3>3. \A j \in DOMAIN ValueSlots(n, v) :
            j # k => ~Publishes(ValueSlots(n, v)[j], ValueTopic(n))
      BY <3>2, PacketsDiffer
    <3> QED
      BY <2>1, <2>2, <2>3, <3>1, <3>2, <3>3, HoldsAfterPublish
  <2>4. CASE i # n
    <3>1. value'[i] = value[i]
      BY <1>0, <2>4 DEF SetValue, TypeOK
    <3>2. \A j \in DOMAIN ValueSlots(n, v) : ~Publishes(ValueSlots(n, v)[j], ValueTopic(i))
      <4>1. CASE v = Undefined
        BY <1>0, <4>1, ValueSlotsAppend
      <4>2. CASE v # Undefined
        <5>1. \A j \in DOMAIN ValueSlots(n, v) :
                \/ ValueSlots(n, v)[j] = Publish(ValueTopic(n), v)
                \/ ValueSlots(n, v)[j] = Unsubscribe(ValueTopic(n))
          BY <1>0, <4>2, ValueSlotsAppend
        <5> QED
          BY <2>4, <5>1, PacketsDiffer, TopicsDiffer
      <4> QED
        BY <4>1, <4>2
    <3>3. WillHold(toBroker, retained, ValueTopic(i), value[i])
      BY <3>1 DEF BrokerFollowsValues
    <3> QED
      BY <2>1, <2>2, <3>1, <3>2, <3>3, HoldsAfterOthers
  <2> QED
    BY <2>3, <2>4
<1> QED
  BY <1>1, <1>2

\* So do packets that publish no value, while the values stay the same.
LEMMA OthersFollowed ==
  ASSUME TypeOK, BrokerFollowsValues, phase \in {"announcing", "session"},
         NEW r \in Seq(Packets), toBroker' = toBroker \o r,
         \A n \in created : \A j \in DOMAIN r : ~Publishes(r[j], ValueTopic(n)),
         value' = value, retained' = retained,
         \A n \in created' : n \in created \/ value[n] = Undefined
  PROVE  BrokerFollowsValues'
<1> SUFFICES ASSUME NEW i \in created, value[i] # Undefined
             PROVE  WillHold(toBroker \o r, retained, ValueTopic(i), value[i])
  BY DEF BrokerFollowsValues
<1>1. WillHold(toBroker, retained, ValueTopic(i), value[i])
  BY DEF BrokerFollowsValues
<1> QED
  BY <1>1, HoldsAfterOthers DEF TypeOK

\* uploadAll makes the broker follow, whatever was sent before.
LEMMA UploadAllFollowed ==
  ASSUME TypeOK, SendAll(UploadAll), value' = value, created' = created
  PROVE  BrokerFollowsValues'
<1> SUFFICES ASSUME NEW i \in created, value[i] # Undefined
             PROVE  WillHold(toBroker', retained', ValueTopic(i), value[i])
  BY DEF BrokerFollowsValues
<1> DEFINE p == Publish(ValueTopic(i), value[i])
<1>1. PICK r \in Seq(Packets) :
        /\ toBroker' = toBroker \o r
        /\ \A j \in DOMAIN r : r[j] \in UploadAll
        /\ \A x \in UploadAll : \E k \in DOMAIN r :
             r[k] = x /\ \A j \in DOMAIN r : j # k => r[j] # x
  BY UploadAllPackets, SendAllAppends
<1>2. p \in UploadAll
  BY DEF UploadAll
<1>3. PICK k \in DOMAIN r : r[k] = p /\ \A j \in DOMAIN r : j # k => r[j] # p
  BY <1>1, <1>2
<1>4. \A x \in UploadAll : Publishes(x, ValueTopic(i)) => x = p
  <2> SUFFICES ASSUME NEW x \in UploadAll, Publishes(x, ValueTopic(i)) PROVE x = p
    OBVIOUS
  <2>1. CASE \E n \in created : x = Publish(ValueTopic(n), value[n])
    <3>1. PICK n \in created : x = Publish(ValueTopic(n), value[n])
      BY <2>1
    <3>2. n = i
      BY <3>1, PacketsDiffer, TopicsDiffer
    <3> QED
      BY <3>1, <3>2
  <2>2. CASE \E n \in created : x = Publish(ValidatorTopic(n), validator[n])
    BY <2>2, PacketsDiffer, TopicsDiffer
  <2> QED
    BY <2>1, <2>2 DEF UploadAll
<1>5. \A j \in DOMAIN r : j # k => ~Publishes(r[j], ValueTopic(i))
  BY <1>1, <1>3, <1>4
<1> HIDE DEF p
<1>6. toBroker \in Seq(Packets)
  BY DEF TypeOK
<1>7. r[k] = Publish(ValueTopic(i), value[i])
  BY <1>3 DEF p
<1> QED
  BY <1>1, <1>5, <1>6, <1>7, HoldsAfterPublish

\* The packets of subscriptions publish nothing.
LEMMA SubscriptionsPublishNothing ==
  ASSUME NEW n, NEW accept, NEW x \in OptionSubscriptions(n, accept), NEW t
  PROVE  ~Publishes(x, t)
BY PacketsDiffer DEF OptionSubscriptions

\* The broker's receive step keeps what it will hold, for every topic.
LEMMA ReceiveHolds ==
  ASSUME TypeOK, BrokerReceive, NEW t \in Topics, NEW p,
         WillHold(toBroker, retained, t, p)
  PROVE  WillHold(toBroker', retained', t, p)
<1>1. /\ toBroker \in Seq(Packets) /\ toBroker # <<>> /\ toBroker' = Tail(toBroker)
      /\ retained \in [Topics -> Payloads]
  BY DEF BrokerReceive, TypeOK
<1>2. retained' = IF Head(toBroker).type = "publish"
                  THEN [retained EXCEPT ![Head(toBroker).topic] = Head(toBroker).payload]
                  ELSE retained
  BY DEF BrokerReceive
<1> QED
  BY <1>1, <1>2, HoldsAfterReceive

\* Every step keeps BrokerFollowsValues: an upload follows each change, on
\* connecting or at once, and nothing else publishes on the topic.
LEMMA ValuesFollowedInductive ==
  /\ Init => BrokerFollowsValues
  /\ TypeOK /\ FreshUntilCreated /\ BrokerFollowsValues /\ [Next]_vars => BrokerFollowsValues'
<1>1. Init => BrokerFollowsValues
  BY DEF Init, BrokerFollowsValues
<1> SUFFICES ASSUME TypeOK, FreshUntilCreated, BrokerFollowsValues, [Next]_vars
             PROVE  BrokerFollowsValues'
  BY <1>1
<1>2. CASE phase' \notin {"announcing", "session"}
  BY <1>2 DEF BrokerFollowsValues
<1>3. CASE UNCHANGED <<phase, created, value, toBroker, retained>>
  BY <1>3 DEF BrokerFollowsValues
<1>4. ASSUME NEW n \in Options, NEW accept \in BOOLEAN, AddOption(n, accept),
             phase \in {"announcing", "session"}
      PROVE  BrokerFollowsValues'
  <2>1. SendAll(OptionSubscriptions(n, accept))
    BY <1>4 DEF AddOption, Online
  <2>2. PICK r \in Seq(Packets) :
          /\ toBroker' = toBroker \o r
          /\ \A j \in DOMAIN r : r[j] \in OptionSubscriptions(n, accept)
    BY <2>1, OptionSubscriptionsPackets, SendAllAppends
  <2>3. \A i \in created : \A j \in DOMAIN r : ~Publishes(r[j], ValueTopic(i))
    BY <2>2, SubscriptionsPublishNothing
  <2>4. \A i \in created' : i \in created \/ value[i] = Undefined
    BY <1>4 DEF AddOption, FreshUntilCreated, Items
  <2> QED
    BY <1>4, <2>2, <2>3, <2>4, OthersFollowed DEF AddOption
<1>5. ASSUME NEW n \in Params, AddParameter(n) PROVE BrokerFollowsValues'
  BY <1>5 DEF AddParameter, BrokerFollowsValues, FreshUntilCreated, Items, netVars
<1>6. ASSUME NEW n \in Items, NEW v \in AppValues, AppSetValue(n, v)
      PROVE  BrokerFollowsValues'
  <2>1. v \in Values \cup {Undefined}
    BY ConstantsAssumption DEF ConstantsAssumption
  <2> QED
    BY <1>6, <2>1, SetValueFollowed DEF AppSetValue
<1>7. ASSUME NEW n \in Items, NEW w \in Validators \cup {NoValidator}, AppSetValidator(n, w),
             phase \in {"announcing", "session"}
      PROVE  BrokerFollowsValues'
  <2>1. PICK p : UploadValidator(n, w) = <<Publish(ValidatorTopic(n), p)>> /\ p \in Payloads
    BY DEF UploadValidator, Payloads
  <2>2. UploadValidator(n, w) \in Seq(Packets)
    BY <2>1, PacketTypes
  <2>3. \A i \in created : \A j \in DOMAIN UploadValidator(n, w) :
          ~Publishes(UploadValidator(n, w)[j], ValueTopic(i))
    BY <2>1, PacketsDiffer, TopicsDiffer
  <2>4. toBroker' = toBroker \o UploadValidator(n, w)
    BY <1>7 DEF AppSetValidator, Online
  <2> QED
    BY <1>7, <2>2, <2>3, <2>4, OthersFollowed DEF AppSetValidator
<1>8. CASE HandleConnected
  BY <1>8, UploadAllFollowed DEF HandleConnected, clientVars
<1>9. CASE SetupSubscriptions
  <2> DEFINE options == created \cap Options
             undefined == {n \in options : value[n] = Undefined}
             all == UNION {OptionSubscriptions(n, n \in undefined) : n \in options}
  <2>1. all \subseteq Packets /\ IsFiniteSet(all)
    <3>1. options \in SUBSET Options
      OBVIOUS
    <3> HIDE DEF options, undefined
    <3> QED
      BY <3>1, AllSubscriptionsPackets
  <2>2. SendAll(all)
    BY <1>9 DEF SetupSubscriptions
  <2>3. \A x \in all : \A t : ~Publishes(x, t)
    BY SubscriptionsPublishNothing
  <2> HIDE DEF all
  <2>4. PICK r \in Seq(Packets) : toBroker' = toBroker \o r /\ \A j \in DOMAIN r : r[j] \in all
    BY <2>1, <2>2, SendAllAppends
  <2> QED
    BY <1>9, <2>3, <2>4, OthersFollowed DEF SetupSubscriptions
<1>10. CASE BrokerReceive
  <2>1. \A i \in created : ValueTopic(i) \in Topics
    BY PacketTypes DEF TypeOK
  <2> QED
    BY <1>10, <2>1, ReceiveHolds DEF BrokerFollowsValues, BrokerReceive, clientVars
<1>11. CASE HandleMessage
  <2> DEFINE m == Head(toClient)
  <2>1. CASE Routable(m.topic) /\ Awaited(m) /\ WellFormed(m) /\ Validates(m.topic[1], m.payload)
    <3>1. m.topic[1] \in created /\ m.payload \in Values
      BY <2>1 DEF Routable, WellFormed
    <3> QED
      BY <1>11, <2>1, <3>1, SetValueFollowed DEF HandleMessage
  <2>2. CASE ~(Routable(m.topic) /\ Awaited(m) /\ WellFormed(m) /\ Validates(m.topic[1], m.payload))
    BY <1>3, <1>11, <2>2 DEF HandleMessage
  <2> QED
    BY <2>1, <2>2
<1> QED
  BY <1>2, <1>3, <1>4, <1>5, <1>6, <1>7, <1>8, <1>9, <1>10, <1>11
  DEF Next, AppCalls, Failures, ConnectToHost, LinkLost, Restart, ConnectFails, RemoteSet,
      SocketUp, AddOption, AppSetValidator, vars, clientVars, netVars

\* BrokerFollowsValues holds for every set of names, values and validators:
\* in a session what the broker holds or will hold is the option's value.
THEOREM ValuesFollowed == Spec => []BrokerFollowsValues
BY InitTypeOK, NextTypeOK, FreshInductive, ValuesFollowedInductive, PTL DEF Spec

-----------------------------------------------------------------------------
(***************************************************************************)
(* The broker follows the validators.                                      *)
(***************************************************************************)

\* Packets that publish on no validator's topic keep the broker following.
LEMMA ValidatorsUntouched ==
  ASSUME TypeOK, BrokerFollowsValidators, phase \in {"announcing", "session"},
         NEW r \in Seq(Packets), toBroker' = toBroker \o r,
         \A n \in created : \A j \in DOMAIN r : ~Publishes(r[j], ValidatorTopic(n)),
         validator' = validator, retained' = retained,
         \A n \in created' : n \in created \/ validator[n] = NoValidator
  PROVE  BrokerFollowsValidators'
<1> SUFFICES ASSUME NEW i \in created, validator[i] # NoValidator
             PROVE  WillHold(toBroker \o r, retained, ValidatorTopic(i), validator[i])
  BY DEF BrokerFollowsValidators
<1>1. WillHold(toBroker, retained, ValidatorTopic(i), validator[i])
  BY DEF BrokerFollowsValidators
<1> QED
  BY <1>1, HoldsAfterOthers DEF TypeOK

\* The slots of valueChanged do not touch the validators.
LEMMA SetValueKeepsValidators ==
  ASSUME TypeOK, BrokerFollowsValidators, NEW n \in Items, NEW v \in Values \cup {Undefined},
         SetValue(n, v), UNCHANGED <<phase, created, validator, retained>>
  PROVE  BrokerFollowsValidators'
<1>1. CASE toBroker' = toBroker \/ phase \notin {"announcing", "session"}
  BY <1>1 DEF BrokerFollowsValidators
<1>2. CASE toBroker' = toBroker \o ValueSlots(n, v) /\ phase \in {"announcing", "session"}
  <2>1. \A i \in created : \A j \in DOMAIN ValueSlots(n, v) :
          ~Publishes(ValueSlots(n, v)[j], ValidatorTopic(i))
    <3>1. CASE v = Undefined
      BY <3>1, ValueSlotsAppend
    <3>2. CASE v # Undefined
      <4>1. \A j \in DOMAIN ValueSlots(n, v) :
              \/ ValueSlots(n, v)[j] = Publish(ValueTopic(n), v)
              \/ ValueSlots(n, v)[j] = Unsubscribe(ValueTopic(n))
        BY <3>2, ValueSlotsAppend
      <4> QED
        BY <4>1, PacketsDiffer, TopicsDiffer
    <3> QED
      BY <3>1, <3>2
  <2> QED
    BY <1>2, <2>1, ValueSlotsAppend, ValidatorsUntouched
<1> QED
  BY <1>1, <1>2 DEF SetValue

\* uploadAll makes the broker follow, whatever was sent before.
LEMMA UploadAllValidators ==
  ASSUME TypeOK, SendAll(UploadAll), UNCHANGED <<created, validator>>
  PROVE  BrokerFollowsValidators'
<1> SUFFICES ASSUME NEW i \in created, validator[i] # NoValidator
             PROVE  WillHold(toBroker', retained', ValidatorTopic(i), validator[i])
  BY DEF BrokerFollowsValidators
<1> DEFINE p == Publish(ValidatorTopic(i), validator[i])
<1>1. PICK r \in Seq(Packets) :
        /\ toBroker' = toBroker \o r
        /\ \A j \in DOMAIN r : r[j] \in UploadAll
        /\ \A x \in UploadAll : \E k \in DOMAIN r :
             r[k] = x /\ \A j \in DOMAIN r : j # k => r[j] # x
  BY UploadAllPackets, SendAllAppends
<1>2. p \in UploadAll
  BY DEF UploadAll
<1>3. PICK k \in DOMAIN r : r[k] = p /\ \A j \in DOMAIN r : j # k => r[j] # p
  BY <1>1, <1>2
<1>4. \A x \in UploadAll : Publishes(x, ValidatorTopic(i)) => x = p
  <2> SUFFICES ASSUME NEW x \in UploadAll, Publishes(x, ValidatorTopic(i)) PROVE x = p
    OBVIOUS
  <2>1. CASE \E n \in created : x = Publish(ValidatorTopic(n), validator[n])
    <3>1. PICK n \in created : x = Publish(ValidatorTopic(n), validator[n])
      BY <2>1
    <3>2. n = i
      BY <3>1, PacketsDiffer, TopicsDiffer
    <3> QED
      BY <3>1, <3>2
  <2>2. CASE \E n \in created : x = Publish(ValueTopic(n), value[n])
    BY <2>2, PacketsDiffer, TopicsDiffer
  <2> QED
    BY <2>1, <2>2 DEF UploadAll
<1>5. \A j \in DOMAIN r : j # k => ~Publishes(r[j], ValidatorTopic(i))
  BY <1>1, <1>3, <1>4
<1> HIDE DEF p
<1>6. toBroker \in Seq(Packets)
  BY DEF TypeOK
<1>7. r[k] = Publish(ValidatorTopic(i), validator[i])
  BY <1>3 DEF p
<1> QED
  BY <1>1, <1>5, <1>6, <1>7, HoldsAfterPublish

\* A new validator is published at once.
LEMMA SetValidatorFollowed ==
  ASSUME TypeOK, BrokerFollowsValidators, NEW n \in Items, NEW w \in Validators \cup {NoValidator},
         AppSetValidator(n, w)
  PROVE  BrokerFollowsValidators'
<1> SUFFICES ASSUME phase \in {"announcing", "session"},
                    NEW i \in created, validator'[i] # NoValidator
             PROVE  WillHold(toBroker', retained, ValidatorTopic(i), validator'[i])
  BY DEF AppSetValidator, BrokerFollowsValidators
<1>1. /\ validator' = [validator EXCEPT ![n] = w]
      /\ toBroker' = toBroker \o UploadValidator(n, w)
      /\ toBroker \in Seq(Packets) /\ i \in Items
  BY DEF AppSetValidator, Online, TypeOK
<1>2. PICK p \in Payloads :
        /\ UploadValidator(n, w) = <<Publish(ValidatorTopic(n), p)>>
        /\ w # NoValidator => p = w
  BY DEF UploadValidator, Payloads
<1>3. UploadValidator(n, w) \in Seq(Packets)
  BY <1>2, PacketTypes
<1>4. CASE i = n
  <2>1. validator'[i] = w /\ w # NoValidator
    BY <1>1, <1>4 DEF TypeOK
  <2>2. /\ 1 \in DOMAIN UploadValidator(n, w)
        /\ UploadValidator(n, w)[1] = Publish(ValidatorTopic(i), w)
        /\ \A j \in DOMAIN UploadValidator(n, w) : j = 1
    BY <1>2, <1>4, <2>1
  <2> QED
    BY <1>1, <1>3, <2>1, <2>2, HoldsAfterPublish
<1>5. CASE i # n
  <2>1. validator'[i] = validator[i]
    BY <1>1, <1>5 DEF TypeOK
  <2>2. \A j \in DOMAIN UploadValidator(n, w) :
          ~Publishes(UploadValidator(n, w)[j], ValidatorTopic(i))
    BY <1>2, <1>5, PacketsDiffer, TopicsDiffer
  <2>3. WillHold(toBroker, retained, ValidatorTopic(i), validator[i])
    BY <2>1 DEF BrokerFollowsValidators
  <2> QED
    BY <1>1, <1>3, <2>1, <2>2, <2>3, HoldsAfterOthers
<1> QED
  BY <1>4, <1>5

\* Every step keeps BrokerFollowsValidators, as it keeps BrokerFollowsValues.
LEMMA ValidatorsFollowedInductive ==
  /\ Init => BrokerFollowsValidators
  /\ TypeOK /\ FreshUntilCreated /\ BrokerFollowsValidators /\ [Next]_vars
     => BrokerFollowsValidators'
<1>1. Init => BrokerFollowsValidators
  BY DEF Init, BrokerFollowsValidators
<1> SUFFICES ASSUME TypeOK, FreshUntilCreated, BrokerFollowsValidators, [Next]_vars
             PROVE  BrokerFollowsValidators'
  BY <1>1
<1>2. CASE phase' \notin {"announcing", "session"}
  BY <1>2 DEF BrokerFollowsValidators
<1>3. CASE UNCHANGED <<phase, created, validator, toBroker, retained>>
  BY <1>3 DEF BrokerFollowsValidators
<1>4. ASSUME NEW n \in Options, NEW accept \in BOOLEAN, AddOption(n, accept),
             phase \in {"announcing", "session"}
      PROVE  BrokerFollowsValidators'
  <2>1. SendAll(OptionSubscriptions(n, accept))
    BY <1>4 DEF AddOption, Online
  <2>2. PICK r \in Seq(Packets) :
          /\ toBroker' = toBroker \o r
          /\ \A j \in DOMAIN r : r[j] \in OptionSubscriptions(n, accept)
    BY <2>1, OptionSubscriptionsPackets, SendAllAppends
  <2>3. \A i \in created : \A j \in DOMAIN r : ~Publishes(r[j], ValidatorTopic(i))
    BY <2>2, SubscriptionsPublishNothing
  <2>4. \A i \in created' : i \in created \/ validator[i] = NoValidator
    BY <1>4 DEF AddOption, FreshUntilCreated, Items
  <2> QED
    BY <1>4, <2>2, <2>3, <2>4, ValidatorsUntouched DEF AddOption
<1>5. ASSUME NEW n \in Params, AddParameter(n) PROVE BrokerFollowsValidators'
  BY <1>5 DEF AddParameter, BrokerFollowsValidators, FreshUntilCreated, Items, netVars
<1>6. ASSUME NEW n \in Items, NEW v \in AppValues, AppSetValue(n, v)
      PROVE  BrokerFollowsValidators'
  <2>1. v \in Values \cup {Undefined}
    BY ConstantsAssumption DEF ConstantsAssumption
  <2> QED
    BY <1>6, <2>1, SetValueKeepsValidators DEF AppSetValue
<1>7. ASSUME NEW n \in Items, NEW w \in Validators \cup {NoValidator}, AppSetValidator(n, w)
      PROVE  BrokerFollowsValidators'
  BY <1>7, SetValidatorFollowed
<1>8. CASE HandleConnected
  BY <1>8, UploadAllValidators DEF HandleConnected, clientVars
<1>9. CASE SetupSubscriptions
  <2> DEFINE options == created \cap Options
             undefined == {n \in options : value[n] = Undefined}
             all == UNION {OptionSubscriptions(n, n \in undefined) : n \in options}
  <2>1. all \subseteq Packets /\ IsFiniteSet(all)
    <3>1. options \in SUBSET Options
      OBVIOUS
    <3> HIDE DEF options, undefined
    <3> QED
      BY <3>1, AllSubscriptionsPackets
  <2>2. SendAll(all)
    BY <1>9 DEF SetupSubscriptions
  <2>3. \A x \in all : \A t : ~Publishes(x, t)
    BY SubscriptionsPublishNothing
  <2> HIDE DEF all
  <2>4. PICK r \in Seq(Packets) : toBroker' = toBroker \o r /\ \A j \in DOMAIN r : r[j] \in all
    BY <2>1, <2>2, SendAllAppends
  <2> QED
    BY <1>9, <2>3, <2>4, ValidatorsUntouched DEF SetupSubscriptions
<1>10. CASE BrokerReceive
  <2>1. \A i \in created : ValidatorTopic(i) \in Topics
    BY PacketTypes DEF TypeOK
  <2> QED
    BY <1>10, <2>1, ReceiveHolds DEF BrokerFollowsValidators, BrokerReceive, clientVars
<1>11. CASE HandleMessage
  <2> DEFINE m == Head(toClient)
  <2>1. CASE Routable(m.topic) /\ Awaited(m) /\ WellFormed(m) /\ Validates(m.topic[1], m.payload)
    <3>1. m.topic[1] \in Items /\ m.payload \in Values
      BY <2>1 DEF Routable, WellFormed, Items
    <3> QED
      BY <1>11, <2>1, <3>1, SetValueKeepsValidators DEF HandleMessage
  <2>2. CASE ~(Routable(m.topic) /\ Awaited(m) /\ WellFormed(m) /\ Validates(m.topic[1], m.payload))
    BY <1>3, <1>11, <2>2 DEF HandleMessage
  <2> QED
    BY <2>1, <2>2
<1> QED
  BY <1>2, <1>3, <1>4, <1>5, <1>6, <1>7, <1>8, <1>9, <1>10, <1>11
  DEF Next, AppCalls, Failures, ConnectToHost, LinkLost, Restart, ConnectFails, RemoteSet,
      SocketUp, AddOption, AppSetValue, vars, clientVars, netVars

\* BrokerFollowsValidators holds for every set of names and validators.
THEOREM ValidatorsFollowed == Spec => []BrokerFollowsValidators
BY InitTypeOK, NextTypeOK, FreshInductive, ValidatorsFollowedInductive, PTL DEF Spec

-----------------------------------------------------------------------------
(***************************************************************************)
(* Subscriptions and the messages they bring.                              *)
(***************************************************************************)

\* Nothing is queued unless the socket is open.
QuietOffline == ~Online => toBroker = <<>>

\* While the socket is open, the subscriptions that the broker has or is
\* being asked for, and what it has sent, concern options that exist.
RequestsRouted ==
  /\ \A t \in subs : Routable(t)
  /\ \A i \in DOMAIN toBroker :
       toBroker[i].type = "subscribe" => Routable(toBroker[i].topic)

RepliesRouted == \A i \in DOMAIN toClient : Routable(toClient[i].topic)

Routing == Online => RequestsRouted /\ RepliesRouted

\* Nothing is sent without a connection, and what was sent is lost with it.
LEMMA QuietInductive ==
  /\ Init => QuietOffline
  /\ QuietOffline /\ [Next]_vars => QuietOffline'
<1>1. Init => QuietOffline
  BY DEF Init, QuietOffline
<1> SUFFICES ASSUME QuietOffline, [Next]_vars PROVE QuietOffline'
  BY <1>1
<1>2. CASE UNCHANGED <<phase, toBroker>>
  BY <1>2 DEF QuietOffline, Online
<1>3. ASSUME NEW n, NEW v, SetValue(n, v), phase' = phase PROVE QuietOffline'
  BY <1>3 DEF SetValue, QuietOffline, Online
<1>4. ASSUME NEW n, NEW accept, AddOption(n, accept) PROVE QuietOffline'
  BY <1>4 DEF AddOption, QuietOffline, Online
<1>5. ASSUME NEW n, NEW v, AppSetValue(n, v) PROVE QuietOffline'
  BY <1>3, <1>5 DEF AppSetValue
<1>6. ASSUME NEW n, NEW w, AppSetValidator(n, w) PROVE QuietOffline'
  BY <1>6 DEF AppSetValidator, QuietOffline, Online
<1>7. CASE HandleMessage
  BY <1>2, <1>3, <1>7 DEF HandleMessage
<1>8. CASE ConnectToHost \/ ConnectFails
  BY <1>8 DEF ConnectToHost, ConnectFails, QuietOffline, Online, netVars
<1>9. CASE LinkLost \/ Restart
  BY <1>9 DEF LinkLost, Restart, QuietOffline
<1>10. CASE SocketUp \/ HandleConnected \/ SetupSubscriptions \/ BrokerReceive
  BY <1>10 DEF SocketUp, HandleConnected, SetupSubscriptions, BrokerReceive, QuietOffline, Online
<1> QED
  BY <1>2, <1>4, <1>5, <1>6, <1>7, <1>8, <1>9, <1>10
  DEF Next, AppCalls, Failures, AddParameter, RemoteSet, vars, netVars

\* Adding packets keeps the routing if those that subscribe ask for topics of
\* options that exist.
LEMMA RoutedAfterAppend ==
  ASSUME TypeOK, RequestsRouted, NEW r \in Seq(Packets), toBroker' = toBroker \o r,
         created \subseteq created', subs' = subs,
         \A i \in DOMAIN r : r[i].type = "subscribe" => Routable(r[i].topic)'
  PROVE  RequestsRouted'
<1>1. \A t : Routable(t) => Routable(t)'
  BY DEF Routable
<1>2. /\ \A t \in subs : Routable(t)
      /\ \A i \in DOMAIN toBroker :
           toBroker[i].type = "subscribe" => Routable(toBroker[i].topic)
  BY DEF RequestsRouted
<1>3. toBroker \in Seq(Packets)
  BY DEF TypeOK
<1>4. \A i \in DOMAIN toBroker' :
        \/ i \in DOMAIN toBroker /\ toBroker'[i] = toBroker[i]
        \/ \E j \in DOMAIN r : toBroker'[i] = r[j]
  <2>1. /\ Len(toBroker) \in Nat /\ Len(r) \in Nat
        /\ DOMAIN toBroker = 1..Len(toBroker) /\ DOMAIN r = 1..Len(r)
        /\ DOMAIN (toBroker \o r) = 1..(Len(toBroker) + Len(r))
        /\ \A i \in 1..(Len(toBroker) + Len(r)) :
             (toBroker \o r)[i] = IF i <= Len(toBroker) THEN toBroker[i] ELSE r[i - Len(toBroker)]
    BY <1>3, ConcatProperties, LenProperties
  <2>2. \A i \in DOMAIN (toBroker \o r) : i \notin DOMAIN toBroker => i - Len(toBroker) \in DOMAIN r
    BY <2>1
  <2> QED
    BY <2>1, <2>2
<1>5. (\A i \in DOMAIN toBroker :
         toBroker[i].type = "subscribe" => Routable(toBroker[i].topic))'
  <2> SUFFICES ASSUME NEW i \in DOMAIN toBroker', toBroker'[i].type = "subscribe"
               PROVE  /\ toBroker'[i].topic[1] \in created' \cap Options
                      /\ toBroker'[i].topic[2] \in {"value", "set"}
    BY DEF Routable
  <2>1. CASE i \in DOMAIN toBroker /\ toBroker'[i] = toBroker[i]
    BY <1>2, <2>1 DEF Routable
  <2>2. CASE \E j \in DOMAIN r : toBroker'[i] = r[j]
    BY <2>2 DEF Routable
  <2> QED
    BY <1>4, <2>1, <2>2
<1> QED
  BY <1>1, <1>2, <1>5 DEF RequestsRouted, Routable

\* Replies stay routed while none is delivered.
LEMMA RepliesKept ==
  ASSUME RepliesRouted, toClient' = toClient, created \subseteq created'
  PROVE  RepliesRouted'
BY DEF RepliesRouted, Routable

\* A delivered message is routed if its topic is.
LEMMA DeliveredIsRouted ==
  ASSUME TypeOK, RepliesRouted, NEW t \in Topics, NEW p \in Payloads, Deliver(t, p),
         t \in subs' => Routable(t)
  PROVE  \A i \in DOMAIN toClient' : Routable(toClient'[i].topic)
<1>1. \A i \in DOMAIN toClient : Routable(toClient[i].topic)
  BY DEF RepliesRouted
<1>2. CASE toClient' = toClient
  BY <1>1, <1>2
<1>3. CASE toClient' # toClient
  <2> DEFINE m == [topic |-> t, payload |-> p]
  <2>1. toClient' = Append(toClient, m) /\ t \in subs'
    BY <1>3 DEF Deliver
  <2>2. m \in Messages /\ toClient \in Seq(Messages) /\ m.topic = t
    BY DEF Messages, TypeOK
  <2> HIDE DEF m
  <2>3. \A i \in DOMAIN toClient' : toClient'[i] = m \/ (i \in DOMAIN toClient /\ toClient'[i] = toClient[i])
    BY <2>1, <2>2, AppendProperties, LenProperties
  <2> QED
    BY <1>1, <2>1, <2>2, <2>3
<1> QED
  BY <1>2, <1>3

\* Adding subscriptions of existing options, or packets that subscribe to
\* nothing, keeps the routing.
LEMMA SubscriptionsRouted ==
  ASSUME NEW n \in Options, n \in created', NEW accept,
         NEW x \in OptionSubscriptions(n, accept)
  PROVE  Routable(x.topic)'
<1>1. x.topic \in {SetTopic(n), ValueTopic(n)}
  BY PacketsDiffer DEF OptionSubscriptions
<1> QED
  BY <1>1 DEF Routable, SetTopic, ValueTopic

\* Setting a value adds no request for a topic that cannot be routed.
LEMMA SetValueRouted ==
  ASSUME TypeOK, RequestsRouted, NEW n \in Items, NEW v \in Values \cup {Undefined},
         SetValue(n, v), created' = created, subs' = subs
  PROVE  RequestsRouted'
<1>1. CASE toBroker' = toBroker \o ValueSlots(n, v)
  <2>1. \A i \in DOMAIN ValueSlots(n, v) :
          \/ ValueSlots(n, v)[i] = Publish(ValueTopic(n), v)
          \/ ValueSlots(n, v)[i] = Unsubscribe(ValueTopic(n))
    BY ValueSlotsAppend
  <2>2. \A i \in DOMAIN ValueSlots(n, v) : ValueSlots(n, v)[i].type # "subscribe"
    BY <2>1, PacketsDiffer
  <2>3. ValueSlots(n, v) \in Seq(Packets)
    BY ValueSlotsAppend
  <2> QED
    BY <1>1, <2>2, <2>3, RoutedAfterAppend
<1>2. CASE toBroker' = toBroker
  BY <1>2 DEF RequestsRouted, Routable
<1> QED
  BY <1>1, <1>2 DEF SetValue

\* Every step keeps Routing: a clean session starts empty, and subscriptions
\* name options that exist.
LEMMA RoutingInductive ==
  /\ Init => Routing
  /\ TypeOK /\ QuietOffline /\ Routing /\ [Next]_vars => Routing'
<1>1. Init => Routing
  BY DEF Init, Routing, Online
<1> SUFFICES ASSUME TypeOK, QuietOffline, Routing, [Next]_vars PROVE Routing'
  BY <1>1
<1>0. Online => RequestsRouted /\ RepliesRouted
  BY DEF Routing
<1>2. CASE ~Online'
  BY <1>2 DEF Routing
<1>3. CASE UNCHANGED <<phase, created, toBroker, toClient, subs>>
  BY <1>3 DEF Routing, RequestsRouted, RepliesRouted, Routable, Online
<1>4. ASSUME NEW n \in Options, NEW accept \in BOOLEAN, AddOption(n, accept), Online
      PROVE  Routing'
  <2>1. SendAll(OptionSubscriptions(n, accept))
    BY <1>4 DEF AddOption
  <2>2. PICK r \in Seq(Packets) :
          /\ toBroker' = toBroker \o r
          /\ \A j \in DOMAIN r : r[j] \in OptionSubscriptions(n, accept)
    BY <2>1, OptionSubscriptionsPackets, SendAllAppends
  <2>3. created \subseteq created' /\ n \in created' /\ subs' = subs /\ toClient' = toClient
    BY <1>4 DEF AddOption
  <2>4. \A j \in DOMAIN r : Routable(r[j].topic)'
    BY <2>2, <2>3, SubscriptionsRouted
  <2> QED
    BY <1>0, <1>4, <2>2, <2>3, <2>4, RoutedAfterAppend, RepliesKept DEF Routing
<1>5. ASSUME NEW n \in Params, AddParameter(n) PROVE Routing'
  BY <1>5 DEF AddParameter, Routing, RequestsRouted, RepliesRouted, Routable, Online, netVars
<1>6. ASSUME NEW n \in Items, NEW v \in AppValues, AppSetValue(n, v), Online
      PROVE  Routing'
  <2>1. v \in Values \cup {Undefined}
    BY ConstantsAssumption DEF ConstantsAssumption
  <2> QED
    BY <1>0, <1>6, <2>1, SetValueRouted, RepliesKept DEF AppSetValue, Routing
<1>7. ASSUME NEW n \in Items, NEW w \in Validators \cup {NoValidator}, AppSetValidator(n, w),
             Online
      PROVE  Routing'
  <2>1. PICK p : UploadValidator(n, w) = <<Publish(ValidatorTopic(n), p)>> /\ p \in Payloads
    BY DEF UploadValidator, Payloads
  <2>2. UploadValidator(n, w) \in Seq(Packets)
    BY <2>1, PacketTypes
  <2>3. \A j \in DOMAIN UploadValidator(n, w) : UploadValidator(n, w)[j].type # "subscribe"
    BY <2>1, PacketsDiffer
  <2>4. toBroker' = toBroker \o UploadValidator(n, w)
    BY <1>7 DEF AppSetValidator
  <2> QED
    BY <1>0, <1>7, <2>2, <2>3, <2>4, RoutedAfterAppend, RepliesKept DEF AppSetValidator, Routing
<1>8. CASE SocketUp
  <2>1. toBroker' = <<>> /\ subs' = {} /\ toClient' = <<>>
    BY <1>8 DEF SocketUp, CleanSession, Online, QuietOffline
  <2> QED
    BY <2>1 DEF Routing, RequestsRouted, RepliesRouted
<1>9. CASE HandleConnected
  <2>1. PICK r \in Seq(Packets) :
          toBroker' = toBroker \o r /\ \A j \in DOMAIN r : r[j] \in UploadAll
    BY <1>9, UploadAllPackets, SendAllAppends DEF HandleConnected
  <2>2. \A x \in UploadAll : x.type # "subscribe"
    BY DEF UploadAll, Publish
  <2>3. Online
    BY <1>9 DEF HandleConnected, Online
  <2> QED
    BY <1>0, <1>9, <2>1, <2>2, <2>3, RoutedAfterAppend, RepliesKept
    DEF HandleConnected, clientVars, Routing
<1>10. CASE SetupSubscriptions
  <2> DEFINE options == created \cap Options
             undefined == {n \in options : value[n] = Undefined}
             all == UNION {OptionSubscriptions(n, n \in undefined) : n \in options}
  <2>1. all \subseteq Packets /\ IsFiniteSet(all)
    <3>1. options \in SUBSET Options
      OBVIOUS
    <3> HIDE DEF options, undefined
    <3> QED
      BY <3>1, AllSubscriptionsPackets
  <2>2. SendAll(all)
    BY <1>10 DEF SetupSubscriptions
  <2>3. \A x \in all : Routable(x.topic)'
    <3>1. \A n \in options : n \in created' /\ n \in Options
      BY <1>10 DEF SetupSubscriptions
    <3> QED
      BY <3>1, SubscriptionsRouted
  <2> HIDE DEF all
  <2>4. PICK r \in Seq(Packets) : toBroker' = toBroker \o r /\ \A j \in DOMAIN r : r[j] \in all
    BY <2>1, <2>2, SendAllAppends
  <2>5. Online
    BY <1>10 DEF SetupSubscriptions, Online
  <2> QED
    BY <1>0, <1>10, <2>3, <2>4, <2>5, RoutedAfterAppend, RepliesKept
    DEF SetupSubscriptions, Routing
<1>11. CASE BrokerReceive
  <2> DEFINE p == Head(toBroker)
  <2>1. /\ p \in Packets /\ toBroker' = Tail(toBroker) /\ Online /\ toBroker # <<>>
        /\ toBroker \in Seq(Packets)
    BY <1>11, HeadTailProperties DEF BrokerReceive, TypeOK
  <2>2. /\ DOMAIN toBroker = 1..Len(toBroker) /\ p = toBroker[1] /\ 1 \in DOMAIN toBroker
        /\ \A i \in DOMAIN toBroker' : i + 1 \in DOMAIN toBroker /\ toBroker'[i] = toBroker[i + 1]
    BY <2>1, HeadTailProperties, LenProperties, EmptySeq
  <2>3. /\ p.topic \in Topics /\ p.payload \in Payloads
        /\ p.type \in {"publish", "subscribe", "unsubscribe"}
    BY <2>1 DEF Packets, Publish, Subscribe, Unsubscribe, Payloads
  <2>4. /\ \A t \in subs : Routable(t)
        /\ p.type = "subscribe" => Routable(p.topic)
    BY <1>0, <2>1, <2>2 DEF RequestsRouted
  <2>5. \A t \in subs' : Routable(t)
    <3>1. CASE p.type = "subscribe"
      BY <1>11, <2>4, <3>1 DEF BrokerReceive
    <3>2. CASE p.type = "unsubscribe"
      BY <1>11, <2>4, <3>2 DEF BrokerReceive
    <3>3. CASE p.type = "publish"
      BY <1>11, <2>4, <3>3 DEF BrokerReceive
    <3> QED
      BY <2>3, <3>1, <3>2, <3>3
  <2>6. \E x \in Payloads : Deliver(p.topic, x)
    <3>1. retained[p.topic] \in Payloads
      BY <2>3 DEF TypeOK
    <3> QED
      BY <1>11, <2>3, <3>1 DEF BrokerReceive
  <2> HIDE DEF p
  <2>7. \A i \in DOMAIN toClient' : Routable(toClient'[i].topic)
    BY <1>0, <2>1, <2>3, <2>5, <2>6, DeliveredIsRouted
  <2>8. \A i \in DOMAIN toBroker' :
          toBroker'[i].type = "subscribe" => Routable(toBroker'[i].topic)
    BY <1>0, <2>1, <2>2 DEF RequestsRouted
  <2>9. created' = created
    BY <1>11 DEF BrokerReceive, clientVars
  <2> QED
    BY <2>5, <2>7, <2>8, <2>9 DEF Routing, RequestsRouted, RepliesRouted, Routable
<1>12. ASSUME NEW n \in Options, NEW p \in Values \cup {Malformed}, RemoteSet(n, p), Online
       PROVE  Routing'
  <2>1. SetTopic(n) \in Topics /\ p \in Payloads
    BY PacketTypes DEF Items, Payloads
  <2>2. \A i \in DOMAIN toClient' : Routable(toClient'[i].topic)
    BY <1>0, <1>12, <2>1, DeliveredIsRouted DEF RemoteSet, RequestsRouted
  <2> QED
    BY <1>0, <1>12, <2>2 DEF RemoteSet, Routing, RequestsRouted, RepliesRouted, Routable, clientVars
<1>13. CASE HandleMessage
  <2> DEFINE m == Head(toClient)
  <2>1. Online
    BY <1>13 DEF HandleMessage, Online
  <2>2. \A i \in DOMAIN toClient' : i + 1 \in DOMAIN toClient /\ toClient'[i] = toClient[i + 1]
    BY <1>13, HeadTailProperties, LenProperties, EmptySeq DEF HandleMessage, TypeOK
  <2>3. RepliesRouted'
    BY <1>0, <1>13, <2>1, <2>2 DEF HandleMessage, RepliesRouted, Routable
  <2>4. RequestsRouted'
    <3>1. CASE Routable(m.topic) /\ Awaited(m) /\ WellFormed(m) /\ Validates(m.topic[1], m.payload)
      <4>1. m.topic[1] \in Items /\ m.payload \in Values
        BY <3>1 DEF Routable, WellFormed, Items
      <4> QED
        BY <1>0, <1>13, <2>1, <3>1, <4>1, SetValueRouted DEF HandleMessage
    <3>2. CASE ~(Routable(m.topic) /\ Awaited(m) /\ WellFormed(m) /\ Validates(m.topic[1], m.payload))
      BY <1>0, <1>13, <2>1, <3>2 DEF HandleMessage, RequestsRouted, Routable
    <3> QED
      BY <3>1, <3>2
  <2> QED
    BY <2>3, <2>4 DEF Routing
<1> QED
  BY <1>2, <1>3, <1>4, <1>5, <1>6, <1>7, <1>8, <1>9, <1>10, <1>11, <1>12, <1>13
  DEF Next, AppCalls, Failures, ConnectToHost, LinkLost, Restart, ConnectFails, RemoteSet,
      AddOption, AppSetValue, AppSetValidator, BrokerReceive, Online, vars, clientVars, netVars

\* MessagesAreRoutable holds for every set of names and any number of
\* connections and processes: handleMessage never meets an unknown option.
THEOREM MessagesRouted == Spec => []MessagesAreRoutable
<1>1. Routing => MessagesAreRoutable
  BY DEF Routing, RepliesRouted, MessagesAreRoutable, Online
<1> QED
  BY <1>1, InitTypeOK, NextTypeOK, QuietInductive, RoutingInductive, PTL DEF Spec

-----------------------------------------------------------------------------
(***************************************************************************)
(* Every option can be set.                                                *)
(***************************************************************************)

\* Setting a value does not unsubscribe from /set.
LEMMA SetValueKeepsSetTopics ==
  ASSUME TypeOK, NEW n \in Items, NEW v \in Values \cup {Undefined}, SetValue(n, v),
         NEW i \in Items, WillSubscribe(toBroker, subs, SetTopic(i))
  PROVE  WillSubscribe(toBroker', subs, SetTopic(i))
<1>1. CASE toBroker' = toBroker
  BY <1>1
<1>2. CASE toBroker' = toBroker \o ValueSlots(n, v)
  <2>1. toBroker \in Seq(Packets) /\ ValueSlots(n, v) \in Seq(Packets)
    BY ValueSlotsAppend DEF TypeOK
  <2>2. \A j \in DOMAIN ValueSlots(n, v) : ValueSlots(n, v)[j] # Unsubscribe(SetTopic(i))
    <3>1. CASE v = Undefined
      BY <3>1, ValueSlotsAppend
    <3>2. CASE v # Undefined
      <4>1. \A j \in DOMAIN ValueSlots(n, v) :
              \/ ValueSlots(n, v)[j] = Publish(ValueTopic(n), v)
              \/ ValueSlots(n, v)[j] = Unsubscribe(ValueTopic(n))
        BY <3>2, ValueSlotsAppend
      <4> QED
        BY <4>1, PacketsDiffer, TopicsDiffer
    <3> QED
      BY <3>1, <3>2
  <2> QED
    BY <1>2, <2>1, <2>2, SubscribedAfterOthers
<1> QED
  BY <1>1, <1>2 DEF SetValue

\* A loop that sends subscriptions or publications cancels no subscription,
\* and makes those that are in the set.
LEMMA SendAllSubscribes ==
  ASSUME TypeOK, NEW S, S \subseteq Packets, IsFiniteSet(S), SendAll(S), NEW t,
         \A x \in S : x # Unsubscribe(t),
         WillSubscribe(toBroker, subs, t) \/ Subscribe(t) \in S
  PROVE  WillSubscribe(toBroker', subs, t)
<1>1. PICK r \in Seq(Packets) :
        /\ toBroker' = toBroker \o r
        /\ \A i \in DOMAIN r : r[i] \in S
        /\ \A x \in S : \E k \in DOMAIN r :
             r[k] = x /\ \A j \in DOMAIN r : j # k => r[j] # x
  BY SendAllAppends
<1>2. toBroker \in Seq(Packets)
  BY DEF TypeOK
<1> QED
  BY <1>1, <1>2, SubscribedAfterOthers

\* Conversely, what will be subscribed was before, or is in the set.
LEMMA SendAllSubscribesOnly ==
  ASSUME TypeOK, NEW S, S \subseteq Packets, IsFiniteSet(S), SendAll(S), NEW t,
         WillSubscribe(toBroker', subs, t)
  PROVE  WillSubscribe(toBroker, subs, t) \/ Subscribe(t) \in S
<1>1. PICK r \in Seq(Packets) :
        /\ toBroker' = toBroker \o r
        /\ \A i \in DOMAIN r : r[i] \in S
  BY SendAllAppends
<1>2. toBroker \in Seq(Packets)
  BY DEF TypeOK
<1> SUFFICES ASSUME Subscribe(t) \notin S PROVE WillSubscribe(toBroker, subs, t)
  OBVIOUS
<1>3. \A i \in DOMAIN r : r[i] # Subscribe(t)
  BY <1>1
<1> QED
  BY <1>1, <1>2, <1>3, SubscribedBefore

\* The subscriptions of an option, and of all options.
LEMMA OptionSubscriptionsAre ==
  ASSUME NEW n, NEW accept
  PROVE  /\ Subscribe(SetTopic(n)) \in OptionSubscriptions(n, accept)
         /\ \A x \in OptionSubscriptions(n, accept) :
              \/ x = Subscribe(SetTopic(n))
              \/ accept /\ x = Subscribe(ValueTopic(n))
         /\ \A x \in OptionSubscriptions(n, accept) : \A t : x # Unsubscribe(t)
<1>1. \A x \in OptionSubscriptions(n, accept) :
        x = Subscribe(SetTopic(n)) \/ (accept /\ x = Subscribe(ValueTopic(n)))
  BY DEF OptionSubscriptions
<1>2. Subscribe(SetTopic(n)) \in OptionSubscriptions(n, accept)
  BY DEF OptionSubscriptions
<1> QED
  BY <1>1, <1>2, PacketsDiffer

\* Every step keeps EveryOptionIsSettable.
LEMMA SettableInductive ==
  /\ Init => EveryOptionIsSettable
  /\ TypeOK /\ EveryOptionIsSettable /\ [Next]_vars => EveryOptionIsSettable'
<1>1. Init => EveryOptionIsSettable
  BY DEF Init, EveryOptionIsSettable
<1> SUFFICES ASSUME TypeOK, EveryOptionIsSettable, [Next]_vars, phase' = "session",
                    NEW i \in Options, i \in created'
             PROVE  WillSubscribe(toBroker', subs', SetTopic(i))
  BY <1>1 DEF EveryOptionIsSettable
<1>0. i \in Items /\ (i \in created /\ phase = "session" => WillSubscribe(toBroker, subs, SetTopic(i)))
  BY DEF Items, EveryOptionIsSettable
<1>2. CASE UNCHANGED <<phase, toBroker, subs>> /\ i \in created
  BY <1>0, <1>2
<1>3. ASSUME NEW n \in Items, NEW v \in Values \cup {Undefined}, SetValue(n, v),
             i \in created, UNCHANGED <<phase, subs>>
      PROVE  WillSubscribe(toBroker', subs', SetTopic(i))
  BY <1>0, <1>3, SetValueKeepsSetTopics
<1>4. ASSUME NEW n \in Options, NEW accept \in BOOLEAN, AddOption(n, accept)
      PROVE  WillSubscribe(toBroker', subs', SetTopic(i))
  <2>1. SendAll(OptionSubscriptions(n, accept)) /\ phase = "session" /\ subs' = subs
    BY <1>4 DEF AddOption, Online
  <2>2. i \in created \/ Subscribe(SetTopic(i)) \in OptionSubscriptions(n, accept)
    BY <1>4, OptionSubscriptionsAre DEF AddOption
  <2> QED
    BY <1>0, <2>1, <2>2, OptionSubscriptionsPackets, OptionSubscriptionsAre, SendAllSubscribes
<1>5. ASSUME NEW n \in Params, AddParameter(n) PROVE WillSubscribe(toBroker', subs', SetTopic(i))
  BY <1>2, <1>5, ConstantsAssumption DEF AddParameter, netVars, ConstantsAssumption
<1>6. ASSUME NEW n \in Items, NEW v \in AppValues, AppSetValue(n, v)
      PROVE  WillSubscribe(toBroker', subs', SetTopic(i))
  <2>1. v \in Values \cup {Undefined}
    BY ConstantsAssumption DEF ConstantsAssumption
  <2> QED
    BY <1>3, <1>6, <2>1 DEF AppSetValue
<1>7. ASSUME NEW n \in Items, NEW w \in Validators \cup {NoValidator}, AppSetValidator(n, w)
      PROVE  WillSubscribe(toBroker', subs', SetTopic(i))
  <2>1. PICK p \in Payloads : UploadValidator(n, w) = <<Publish(ValidatorTopic(n), p)>>
    BY DEF UploadValidator, Payloads
  <2>2. UploadValidator(n, w) \in Seq(Packets)
    BY <2>1, PacketTypes
  <2>3. \A j \in DOMAIN UploadValidator(n, w) : UploadValidator(n, w)[j] # Unsubscribe(SetTopic(i))
    BY <2>1, PacketsDiffer
  <2>4. toBroker' = toBroker \o UploadValidator(n, w) /\ UNCHANGED <<phase, created, subs>>
    BY <1>7 DEF AppSetValidator, Online
  <2>5. toBroker \in Seq(Packets)
    BY DEF TypeOK
  <2> QED
    BY <1>0, <2>2, <2>3, <2>4, <2>5, SubscribedAfterOthers
<1>8. CASE SetupSubscriptions
  <2> DEFINE options == created \cap Options
             undefined == {n \in options : value[n] = Undefined}
             all == UNION {OptionSubscriptions(n, n \in undefined) : n \in options}
  <2>1. all \subseteq Packets /\ IsFiniteSet(all)
    <3>1. options \in SUBSET Options
      OBVIOUS
    <3> HIDE DEF options, undefined
    <3> QED
      BY <3>1, AllSubscriptionsPackets
  <2>2. SendAll(all) /\ subs' = subs /\ created' = created
    BY <1>8 DEF SetupSubscriptions
  <2>3. \A x \in all : x # Unsubscribe(SetTopic(i))
    <3> SUFFICES ASSUME NEW x \in all PROVE x # Unsubscribe(SetTopic(i))
      OBVIOUS
    <3>1. PICK n \in options : x \in OptionSubscriptions(n, n \in undefined)
      OBVIOUS
    <3> QED
      BY <3>1, OptionSubscriptionsAre
  <2>4. Subscribe(SetTopic(i)) \in all
    <3>1. Subscribe(SetTopic(i)) \in OptionSubscriptions(i, i \in undefined)
      BY OptionSubscriptionsAre
    <3> QED
      BY <2>2, <3>1
  <2> HIDE DEF all
  <2> QED
    BY <2>1, <2>2, <2>3, <2>4, SendAllSubscribes
<1>9. CASE BrokerReceive
  <2>1. /\ toBroker \in Seq(Packets) /\ toBroker # <<>> /\ toBroker' = Tail(toBroker)
        /\ phase' = phase /\ created' = created
        /\ subs' = CASE Head(toBroker).type = "subscribe" -> subs \cup {Head(toBroker).topic}
                     [] Head(toBroker).type = "unsubscribe" -> subs \ {Head(toBroker).topic}
                     [] Head(toBroker).type = "publish" -> subs
    BY <1>9 DEF BrokerReceive, TypeOK, clientVars
  <2>2. SetTopic(i) \in Topics
    BY <1>0, PacketTypes
  <2> QED
    BY <1>0, <2>1, <2>2, SubscribedAfterReceive
<1>10. CASE HandleMessage
  <2> DEFINE m == Head(toClient)
  <2>1. UNCHANGED <<phase, created, subs>>
    BY <1>10 DEF HandleMessage
  <2>2. CASE Routable(m.topic) /\ Awaited(m) /\ WellFormed(m) /\ Validates(m.topic[1], m.payload)
    <3>1. m.topic[1] \in Items /\ m.payload \in Values
      BY <2>2 DEF Routable, WellFormed, Items
    <3> QED
      BY <1>3, <1>10, <2>1, <2>2, <3>1 DEF HandleMessage
  <2>3. CASE ~(Routable(m.topic) /\ Awaited(m) /\ WellFormed(m) /\ Validates(m.topic[1], m.payload))
    BY <1>2, <1>10, <2>1, <2>3 DEF HandleMessage
  <2> QED
    BY <2>2, <2>3
<1> QED
  BY <1>2, <1>4, <1>5, <1>6, <1>7, <1>8, <1>9, <1>10
  DEF Next, AppCalls, Failures, ConnectToHost, LinkLost, Restart, ConnectFails, RemoteSet,
      SocketUp, HandleConnected, vars, clientVars, netVars

\* EveryOptionIsSettable holds for every set of names: in a session each
\* option is subscribed to on /set, or is about to be.
THEOREM OptionsSettable == Spec => []EveryOptionIsSettable
BY InitTypeOK, NextTypeOK, SettableInductive, PTL DEF Spec

-----------------------------------------------------------------------------
(***************************************************************************)
(* Subscriptions to saved values are temporary.                            *)
(***************************************************************************)

\* What SavedSubscriptionIsTemporary says of one topic.
Temporary(t) ==
  /\ Routable(t)
  /\ t[2] = "value" => value[t[1]] = Undefined /\ t[1] \in watching

\* Topics by name and operation.
LEMMA TopicParts ==
  ASSUME NEW n
  PROVE  /\ ValueTopic(n)[1] = n /\ ValueTopic(n)[2] = "value"
         /\ SetTopic(n)[1] = n /\ SetTopic(n)[2] = "set"
         /\ \A t \in Topics : t[1] = n /\ t[2] = "value" => t = ValueTopic(n)
BY DEF ValueTopic, SetTopic, Topics

\* A packet that is sent for an option that exists asks for nothing else.
LEMMA AskedTemporary ==
  ASSUME NEW n \in Options, n \in created', NEW accept \in BOOLEAN,
         accept => value'[n] = Undefined /\ n \in watching',
         NEW t, Subscribe(t) \in OptionSubscriptions(n, accept)
  PROVE  Temporary(t)'
<1>1. \/ t = SetTopic(n)
      \/ accept /\ t = ValueTopic(n)
  BY OptionSubscriptionsAre, PacketsDiffer
<1>2. CASE t = SetTopic(n)
  BY <1>2, TopicParts DEF Temporary, Routable
<1>3. CASE accept /\ t = ValueTopic(n)
  BY <1>3, TopicParts DEF Temporary, Routable
<1> QED
  BY <1>1, <1>2, <1>3

\* Setting a value leaves only temporary subscriptions.
LEMMA SetValueTemporary ==
  ASSUME TypeOK, SavedSubscriptionIsTemporary, Online, phase' = phase, subs' = subs,
         created' = created,
         NEW n \in Items, NEW v \in Values \cup {Undefined}, SetValue(n, v)
  PROVE  SavedSubscriptionIsTemporary'
<1>0. \A t \in Topics : WillSubscribe(toBroker, subs, t) => Temporary(t)
  BY DEF SavedSubscriptionIsTemporary, Temporary
<1> SUFFICES ASSUME NEW t \in Topics, WillSubscribe(toBroker', subs, t)
             PROVE  Temporary(t)'
  BY DEF SavedSubscriptionIsTemporary, Temporary
<1>1. CASE v = value[n]
  <2>1. value' = value /\ toBroker' = toBroker /\ watching' = watching
    BY <1>1 DEF SetValue, TypeOK
  <2> QED
    BY <1>0, <2>1 DEF Temporary, Routable
<1>2. CASE v # value[n]
  <2>1. /\ toBroker' = toBroker \o ValueSlots(n, v)
        /\ value' = [value EXCEPT ![n] = v]
        /\ watching' = IF v # Undefined THEN watching \ {n} ELSE watching
    BY <1>2 DEF SetValue
  <2>2. toBroker \in Seq(Packets) /\ ValueSlots(n, v) \in Seq(Packets)
    BY ValueSlotsAppend DEF TypeOK
  <2>3. \A j \in DOMAIN ValueSlots(n, v) : ValueSlots(n, v)[j] # Subscribe(t)
    <3>1. CASE v = Undefined
      BY <3>1, ValueSlotsAppend
    <3>2. CASE v # Undefined
      <4>1. \A j \in DOMAIN ValueSlots(n, v) :
              \/ ValueSlots(n, v)[j] = Publish(ValueTopic(n), v)
              \/ ValueSlots(n, v)[j] = Unsubscribe(ValueTopic(n))
        BY <3>2, ValueSlotsAppend
      <4> QED
        BY <4>1, PacketsDiffer
    <3> QED
      BY <3>1, <3>2
  <2>4. /\ WillSubscribe(toBroker, subs, t)
        /\ \A j \in DOMAIN ValueSlots(n, v) : ValueSlots(n, v)[j] # Unsubscribe(t)
    BY <2>1, <2>2, <2>3, SubscribedBefore
  <2>5. Temporary(t)
    BY <1>0, <2>4
  <2>6. ~(t[2] = "value" /\ t[1] = n)
    <3> SUFFICES ASSUME t[2] = "value", t[1] = n PROVE FALSE
      OBVIOUS
    <3>1. value[n] = Undefined /\ n \in watching /\ t = ValueTopic(n)
      BY <2>5, TopicParts DEF Temporary
    <3>2. PICK k \in DOMAIN ValueSlots(n, v) : ValueSlots(n, v)[k] = Unsubscribe(ValueTopic(n))
      BY <1>2, <3>1, ValueSlotsAppend
    <3> QED
      BY <2>4, <3>1, <3>2
  <2>7. t[2] = "value" => value'[t[1]] = value[t[1]] /\ (t[1] \in watching => t[1] \in watching')
    BY <2>1, <2>6 DEF TypeOK
  <2> QED
    BY <2>5, <2>7 DEF Temporary, Routable
<1> QED
  BY <1>1, <1>2

\* Every step keeps SavedSubscriptionIsTemporary: a clean session starts with
\* nothing, and the value and the subscription change in the same step.
LEMMA TemporaryInductive ==
  /\ Init => SavedSubscriptionIsTemporary
  /\ /\ TypeOK /\ FreshUntilCreated /\ QuietOffline
     /\ SavedSubscriptionIsTemporary /\ [Next]_vars
     => SavedSubscriptionIsTemporary'
<1>1. Init => SavedSubscriptionIsTemporary
  BY DEF Init, SavedSubscriptionIsTemporary, Online
<1> SUFFICES ASSUME TypeOK, FreshUntilCreated, QuietOffline,
                    SavedSubscriptionIsTemporary, [Next]_vars, Online'
             PROVE  SavedSubscriptionIsTemporary'
  BY <1>1 DEF SavedSubscriptionIsTemporary
<1>0. \A t \in Topics : Online /\ WillSubscribe(toBroker, subs, t) => Temporary(t)
  BY DEF SavedSubscriptionIsTemporary, Temporary
<1>g. ASSUME \A t \in Topics : WillSubscribe(toBroker', subs', t) => Temporary(t)'
      PROVE  SavedSubscriptionIsTemporary'
  BY <1>g DEF SavedSubscriptionIsTemporary, Temporary
<1>2. CASE UNCHANGED <<phase, created, value, watching, toBroker, subs>>
  BY <1>2 DEF SavedSubscriptionIsTemporary, Online, Routable
<1>3. ASSUME NEW n \in Options, NEW accept \in BOOLEAN, AddOption(n, accept)
      PROVE  SavedSubscriptionIsTemporary'
  <2> SUFFICES ASSUME NEW t \in Topics, WillSubscribe(toBroker', subs', t)
               PROVE  Temporary(t)'
    BY <1>g
  <2>1. /\ Online /\ SendAll(OptionSubscriptions(n, accept)) /\ subs' = subs
        /\ created' = created \cup {n} /\ value' = value
        /\ watching' = IF accept THEN watching \cup {n} ELSE watching
        /\ value[n] = Undefined
    BY <1>3 DEF AddOption, Online, FreshUntilCreated, Items
  <2>2. WillSubscribe(toBroker, subs, t) \/ Subscribe(t) \in OptionSubscriptions(n, accept)
    BY <2>1, OptionSubscriptionsPackets, SendAllSubscribesOnly
  <2>3. CASE WillSubscribe(toBroker, subs, t)
    BY <1>0, <2>1, <2>3 DEF Temporary, Routable
  <2>4. CASE Subscribe(t) \in OptionSubscriptions(n, accept)
    BY <2>1, <2>4, AskedTemporary
  <2> QED
    BY <2>2, <2>3, <2>4
<1>4. ASSUME NEW n \in Params, AddParameter(n) PROVE SavedSubscriptionIsTemporary'
  BY <1>4 DEF AddParameter, SavedSubscriptionIsTemporary, Online, Routable, netVars
<1>5. ASSUME NEW n \in Items, NEW v \in AppValues, AppSetValue(n, v)
      PROVE  SavedSubscriptionIsTemporary'
  <2>1. v \in Values \cup {Undefined}
    BY ConstantsAssumption DEF ConstantsAssumption
  <2>2. Online
    BY <1>5 DEF AppSetValue, Online
  <2> QED
    BY <1>5, <2>1, <2>2, SetValueTemporary DEF AppSetValue
<1>6. ASSUME NEW n \in Items, NEW w \in Validators \cup {NoValidator}, AppSetValidator(n, w)
      PROVE  SavedSubscriptionIsTemporary'
  <2>1. PICK p \in Payloads : UploadValidator(n, w) = <<Publish(ValidatorTopic(n), p)>>
    BY DEF UploadValidator, Payloads
  <2>2. UploadValidator(n, w) \in Seq(Packets) /\ toBroker \in Seq(Packets)
    BY <2>1, PacketTypes DEF TypeOK
  <2>3. \A t : \A j \in DOMAIN UploadValidator(n, w) : UploadValidator(n, w)[j] # Subscribe(t)
    BY <2>1, PacketsDiffer
  <2>4. Online
    BY <1>6 DEF AppSetValidator, Online
  <2>5. /\ toBroker' = toBroker \o UploadValidator(n, w)
        /\ UNCHANGED <<created, value, watching, subs>>
    BY <1>6, <2>4 DEF AppSetValidator
  <2>6. \A t \in Topics : WillSubscribe(toBroker', subs', t) => Temporary(t)
    BY <1>0, <2>2, <2>3, <2>4, <2>5, SubscribedBefore
  <2> QED
    BY <1>g, <2>5, <2>6 DEF Temporary, Routable
<1>7. CASE SocketUp
  <2>1. toBroker' = <<>> /\ subs' = {}
    BY <1>7 DEF SocketUp, QuietOffline, Online, CleanSession
  <2>2. \A t : ~WillSubscribe(toBroker', subs', t)
    BY <2>1 DEF WillSubscribe
  <2> QED
    BY <1>g, <2>2
<1>8. CASE HandleConnected
  <2> SUFFICES ASSUME NEW t \in Topics, WillSubscribe(toBroker', subs', t)
               PROVE  Temporary(t)'
    BY <1>g
  <2>1. SendAll(UploadAll) /\ Online /\ subs' = subs /\ UNCHANGED <<created, value, watching>>
    BY <1>8 DEF HandleConnected, Online, clientVars
  <2>2. Subscribe(t) \notin UploadAll
    BY PacketsDiffer DEF UploadAll
  <2>3. WillSubscribe(toBroker, subs, t)
    BY <2>1, <2>2, UploadAllPackets, SendAllSubscribesOnly
  <2> QED
    BY <1>0, <2>1, <2>3 DEF Temporary, Routable
<1>9. CASE SetupSubscriptions
  <2> DEFINE options == created \cap Options
             undefined == {n \in options : value[n] = Undefined}
             all == UNION {OptionSubscriptions(n, n \in undefined) : n \in options}
  <2>1. all \subseteq Packets /\ IsFiniteSet(all)
    <3>1. options \in SUBSET Options
      OBVIOUS
    <3> HIDE DEF options, undefined
    <3> QED
      BY <3>1, AllSubscriptionsPackets
  <2>2. /\ SendAll(all) /\ Online
        /\ UNCHANGED <<created, value, subs>>
        /\ watching' = watching \cup undefined
    BY <1>9 DEF SetupSubscriptions, Online
  <2> SUFFICES ASSUME NEW t \in Topics, WillSubscribe(toBroker', subs', t)
               PROVE  Temporary(t)'
    BY <1>g
  <2>3. WillSubscribe(toBroker, subs, t) \/ Subscribe(t) \in all
    <3> HIDE DEF all
    <3> QED
      BY <2>1, <2>2, SendAllSubscribesOnly
  <2>4. CASE WillSubscribe(toBroker, subs, t)
    BY <1>0, <2>2, <2>4 DEF Temporary, Routable
  <2>5. CASE Subscribe(t) \in all
    <3>1. PICK n \in options : Subscribe(t) \in OptionSubscriptions(n, n \in undefined)
      BY <2>5
    <3>2. n \in undefined => value'[n] = Undefined /\ n \in watching'
      BY <2>2
    <3>3. n \in Options /\ n \in created'
      BY <2>2
    <3> DEFINE accept == n \in undefined
    <3>4. accept \in BOOLEAN /\ Subscribe(t) \in OptionSubscriptions(n, accept)
      BY <3>1
    <3>5. accept => value'[n] = Undefined /\ n \in watching'
      BY <3>2
    <3> HIDE DEF accept, options, undefined
    <3> QED
      BY <3>3, <3>4, <3>5, AskedTemporary
  <2> QED
    BY <2>3, <2>4, <2>5
<1>10. CASE BrokerReceive
  <2>1. /\ toBroker \in Seq(Packets) /\ toBroker # <<>> /\ toBroker' = Tail(toBroker)
        /\ Online /\ UNCHANGED <<created, value, watching>>
        /\ subs' = CASE Head(toBroker).type = "subscribe" -> subs \cup {Head(toBroker).topic}
                     [] Head(toBroker).type = "unsubscribe" -> subs \ {Head(toBroker).topic}
                     [] Head(toBroker).type = "publish" -> subs
    BY <1>10 DEF BrokerReceive, TypeOK, clientVars
  <2>2. \A t \in Topics : WillSubscribe(toBroker', subs', t) => WillSubscribe(toBroker, subs, t)
    BY <2>1, SubscribedAfterReceive
  <2> QED
    BY <1>0, <1>g, <2>1, <2>2 DEF Temporary, Routable
<1>11. CASE HandleMessage
  <2> DEFINE m == Head(toClient)
  <2>1. Online /\ UNCHANGED <<phase, created, subs>>
    BY <1>11 DEF HandleMessage, Online
  <2>2. CASE Routable(m.topic) /\ Awaited(m) /\ WellFormed(m) /\ Validates(m.topic[1], m.payload)
    <3>1. m.topic[1] \in Items /\ m.payload \in Values
      BY <2>2 DEF Routable, WellFormed, Items
    <3> QED
      BY <1>11, <2>1, <2>2, <3>1, SetValueTemporary DEF HandleMessage
  <2>3. CASE ~(Routable(m.topic) /\ Awaited(m) /\ WellFormed(m) /\ Validates(m.topic[1], m.payload))
    BY <1>2, <1>11, <2>1, <2>3 DEF HandleMessage
  <2> QED
    BY <2>2, <2>3
<1> QED
  BY <1>2, <1>3, <1>4, <1>5, <1>6, <1>7, <1>8, <1>9, <1>10, <1>11
  DEF Next, AppCalls, Failures, ConnectToHost, LinkLost, Restart, ConnectFails, RemoteSet,
      Online, vars, clientVars, netVars

\* SavedSubscriptionIsTemporary holds for every set of names and values: a
\* subscription to an option's own topic ends when the option has a value.
THEOREM SubscriptionsTemporary == Spec => []SavedSubscriptionIsTemporary
BY InitTypeOK, NextTypeOK, FreshInductive, QuietInductive, TemporaryInductive, PTL DEF Spec

-----------------------------------------------------------------------------
(***************************************************************************)
(* While an item has no value, none of its values is under way but the     *)
(* saved one.                                                              *)
(***************************************************************************)

NothingSent(n) == \A i \in DOMAIN toBroker : ~Publishes(toBroker[i], ValueTopic(n))

OnlySaved(n) ==
  \A i \in DOMAIN toClient :
    toClient[i].topic = ValueTopic(n) => toClient[i].payload = retained[ValueTopic(n)]

EchoFree == \A n \in Items : value[n] = Undefined => NothingSent(n) /\ OnlySaved(n)

\* Appended packets that publish no value of n leave nothing sent.
LEMMA NothingMoreSent ==
  ASSUME TypeOK, NEW r \in Seq(Packets), toBroker' = toBroker \o r, NEW n, NothingSent(n),
         \A i \in DOMAIN r : ~Publishes(r[i], ValueTopic(n))
  PROVE  NothingSent(n)'
<1>1. /\ Len(toBroker) \in Nat /\ Len(r) \in Nat
      /\ DOMAIN toBroker = 1..Len(toBroker) /\ DOMAIN r = 1..Len(r)
      /\ DOMAIN (toBroker \o r) = 1..(Len(toBroker) + Len(r))
      /\ \A i \in 1..(Len(toBroker) + Len(r)) :
           (toBroker \o r)[i] = IF i <= Len(toBroker) THEN toBroker[i] ELSE r[i - Len(toBroker)]
  BY ConcatProperties, LenProperties DEF TypeOK
<1>2. \A i \in DOMAIN (toBroker \o r) : i \notin DOMAIN toBroker => i - Len(toBroker) \in DOMAIN r
  BY <1>1
<1> QED
  BY <1>1, <1>2 DEF NothingSent

\* A delivered message is the retained one.
LEMMA DeliveredIsSaved ==
  ASSUME TypeOK, NEW t \in Topics, NEW p \in Payloads, Deliver(t, p), NEW n, OnlySaved(n),
         retained'[ValueTopic(n)] = retained[ValueTopic(n)],
         t = ValueTopic(n) => p = retained[ValueTopic(n)]
  PROVE  OnlySaved(n)'
<1> DEFINE m == [topic |-> t, payload |-> p]
<1>1. CASE toClient' = toClient
  BY <1>1 DEF OnlySaved
<1>2. CASE toClient' = Append(toClient, m)
  <2>1. toClient \in Seq(Messages) /\ m \in Messages
    BY DEF TypeOK, Messages
  <2>2. /\ DOMAIN toClient' = 1..(Len(toClient) + 1)
        /\ DOMAIN toClient = 1..Len(toClient) /\ Len(toClient) \in Nat
        /\ \A i \in 1..Len(toClient) : toClient'[i] = toClient[i]
        /\ toClient'[Len(toClient) + 1] = m
    BY <1>2, <2>1, AppendProperties, LenProperties
  <2> QED
    BY <2>2 DEF OnlySaved
<1> QED
  BY <1>1, <1>2 DEF Deliver

\* Setting a value other than Undefined keeps EchoFree.
LEMMA SetValueEchoFree ==
  ASSUME TypeOK, EchoFree, NEW n \in Items, NEW v \in Values, SetValue(n, v),
         \A i \in Items : OnlySaved(i) => OnlySaved(i)'
  PROVE  EchoFree'
<1> SUFFICES ASSUME NEW i \in Items, value'[i] = Undefined
             PROVE  NothingSent(i)' /\ OnlySaved(i)'
  BY DEF EchoFree
<1>1. v # Undefined
  BY ConstantsAssumption DEF ConstantsAssumption
<1>2. i # n /\ value[i] = Undefined
  BY <1>1 DEF SetValue, TypeOK
<1>3. NothingSent(i) /\ OnlySaved(i)
  BY <1>2 DEF EchoFree
<1>4. NothingSent(i)'
  <2>1. CASE toBroker' = toBroker
    BY <1>3, <2>1 DEF NothingSent
  <2>2. CASE toBroker' = toBroker \o ValueSlots(n, v)
    <3>1. \A j \in DOMAIN ValueSlots(n, v) :
            \/ ValueSlots(n, v)[j] = Publish(ValueTopic(n), v)
            \/ ValueSlots(n, v)[j] = Unsubscribe(ValueTopic(n))
      BY <1>1, ValueSlotsAppend
    <3>2. \A j \in DOMAIN ValueSlots(n, v) : ~Publishes(ValueSlots(n, v)[j], ValueTopic(i))
      BY <1>2, <3>1, PacketsDiffer, TopicsDiffer
    <3> QED
      BY <1>3, <2>2, <3>2, ValueSlotsAppend, NothingMoreSent
  <2> QED
    BY <2>1, <2>2 DEF SetValue
<1> QED
  BY <1>3, <1>4

\* So does a loop that sends no value of an item without one.
LEMMA SendAllEchoFree ==
  ASSUME TypeOK, EchoFree, NEW S, S \subseteq Packets, IsFiniteSet(S), SendAll(S),
         UNCHANGED <<value, toClient, retained>>,
         \A n \in Items : value[n] = Undefined => \A x \in S : ~Publishes(x, ValueTopic(n))
  PROVE  EchoFree'
<1>1. PICK r \in Seq(Packets) : toBroker' = toBroker \o r /\ \A i \in DOMAIN r : r[i] \in S
  BY SendAllAppends
<1> SUFFICES ASSUME NEW n \in Items, value[n] = Undefined
             PROVE  NothingSent(n)' /\ OnlySaved(n)'
  BY DEF EchoFree
<1>2. NothingSent(n) /\ OnlySaved(n)
  BY DEF EchoFree
<1>3. \A i \in DOMAIN r : ~Publishes(r[i], ValueTopic(n))
  BY <1>1
<1>4. NothingSent(n)'
  BY <1>1, <1>2, <1>3, NothingMoreSent
<1> QED
  BY <1>2, <1>4 DEF OnlySaved

\* Every step keeps EchoFree if the application never sets Undefined.
LEMMA EchoFreeInductive ==
  ASSUME AppValues \subseteq Values
  PROVE  /\ Init => EchoFree
         /\ TypeOK /\ FreshUntilCreated /\ EchoFree /\ [Next]_vars => EchoFree'
<1>1. Init => EchoFree
  BY DEF Init, EchoFree, NothingSent, OnlySaved
<1> SUFFICES ASSUME TypeOK, FreshUntilCreated, EchoFree, [Next]_vars PROVE EchoFree'
  BY <1>1
<1>2. CASE UNCHANGED <<value, toBroker, toClient, retained>>
  BY <1>2 DEF EchoFree, NothingSent, OnlySaved
<1>3. ASSUME NEW n \in Options, NEW accept \in BOOLEAN, AddOption(n, accept) PROVE EchoFree'
  <2>1. CASE Online
    <3>1. SendAll(OptionSubscriptions(n, accept)) /\ UNCHANGED <<value, toClient, retained>>
      BY <1>3, <2>1 DEF AddOption
    <3> QED
      BY <3>1, OptionSubscriptionsPackets, SubscriptionsPublishNothing, SendAllEchoFree
  <2>2. CASE ~Online
    BY <1>2, <1>3, <2>2 DEF AddOption
  <2> QED
    BY <2>1, <2>2
<1>4. ASSUME NEW n \in Items, NEW v \in AppValues, AppSetValue(n, v) PROVE EchoFree'
  <2>1. v \in Values /\ SetValue(n, v) /\ UNCHANGED <<toClient, retained>>
    BY <1>4 DEF AppSetValue
  <2> QED
    BY <2>1, SetValueEchoFree DEF OnlySaved
<1>5. ASSUME NEW n \in Items, NEW w \in Validators \cup {NoValidator}, AppSetValidator(n, w)
      PROVE  EchoFree'
  <2>1. UNCHANGED <<value, toClient, retained>>
    BY <1>5 DEF AppSetValidator
  <2>2. CASE toBroker' = toBroker
    BY <1>2, <2>1, <2>2
  <2>3. CASE toBroker' = toBroker \o UploadValidator(n, w)
    <3>1. PICK p \in Payloads : UploadValidator(n, w) = <<Publish(ValidatorTopic(n), p)>>
      BY DEF UploadValidator, Payloads
    <3>2. UploadValidator(n, w) \in Seq(Packets)
      BY <3>1, PacketTypes
    <3>3. \A i : \A j \in DOMAIN UploadValidator(n, w) :
            ~Publishes(UploadValidator(n, w)[j], ValueTopic(i))
      BY <3>1, PacketsDiffer, TopicsDiffer
    <3> QED
      BY <2>1, <2>3, <3>2, <3>3, NothingMoreSent DEF EchoFree, OnlySaved
  <2> QED
    BY <1>5, <2>2, <2>3 DEF AppSetValidator
<1>6. CASE SocketUp
  BY <1>6 DEF SocketUp, CleanSession, EchoFree, NothingSent, OnlySaved, clientVars
<1>7. CASE LinkLost \/ Restart
  BY <1>7 DEF LinkLost, Restart, EchoFree, NothingSent, OnlySaved
<1>8. CASE HandleConnected
  <2>1. SendAll(UploadAll) /\ UNCHANGED <<value, toClient, retained>>
    BY <1>8 DEF HandleConnected, clientVars
  <2>2. ASSUME NEW n \in Items, value[n] = Undefined, NEW x \in UploadAll
        PROVE  ~Publishes(x, ValueTopic(n))
    <3>1. CASE \E i \in created : value[i] # Undefined /\ x = Publish(ValueTopic(i), value[i])
      BY <2>2, <3>1, PacketsDiffer, TopicsDiffer
    <3>2. CASE \E i \in created : x = Publish(ValidatorTopic(i), validator[i])
      BY <3>2, PacketsDiffer, TopicsDiffer
    <3> QED
      BY <2>2, <3>1, <3>2 DEF UploadAll
  <2> QED
    BY <2>1, <2>2, UploadAllPackets, SendAllEchoFree
<1>9. CASE SetupSubscriptions
  <2> DEFINE options == created \cap Options
             undefined == {n \in options : value[n] = Undefined}
             all == UNION {OptionSubscriptions(n, n \in undefined) : n \in options}
  <2>1. all \subseteq Packets /\ IsFiniteSet(all)
    <3>1. options \in SUBSET Options
      OBVIOUS
    <3> HIDE DEF options, undefined
    <3> QED
      BY <3>1, AllSubscriptionsPackets
  <2>2. SendAll(all) /\ UNCHANGED <<value, toClient, retained>>
    BY <1>9 DEF SetupSubscriptions
  <2>3. \A x \in all : \A t : ~Publishes(x, t)
    BY SubscriptionsPublishNothing
  <2> HIDE DEF all
  <2> QED
    BY <2>1, <2>2, <2>3, SendAllEchoFree
<1>10. CASE BrokerReceive
  <2> DEFINE p == Head(toBroker)
  <2> SUFFICES ASSUME NEW n \in Items, value'[n] = Undefined
               PROVE  NothingSent(n)' /\ OnlySaved(n)'
    BY DEF EchoFree
  <2>1. value[n] = Undefined /\ toBroker # <<>> /\ toBroker' = Tail(toBroker)
    BY <1>10 DEF BrokerReceive, clientVars
  <2>2. NothingSent(n) /\ OnlySaved(n)
    BY <2>1 DEF EchoFree
  <2>3. /\ p \in Packets /\ 1 \in DOMAIN toBroker /\ p = toBroker[1]
        /\ \A i \in DOMAIN toBroker' : i + 1 \in DOMAIN toBroker /\ toBroker'[i] = toBroker[i + 1]
    BY <2>1, HeadTailProperties, LenProperties, EmptySeq DEF TypeOK
  <2>4. NothingSent(n)'
    BY <2>2, <2>3 DEF NothingSent
  <2>5. ~Publishes(p, ValueTopic(n))
    BY <2>2, <2>3 DEF NothingSent
  <2>6. p.topic \in Topics /\ p.type \in {"publish", "subscribe", "unsubscribe"} /\ p.payload \in Payloads
    BY <2>3 DEF Packets, Publish, Subscribe, Unsubscribe, Payloads
  <2> HIDE DEF p
  <2>7. CASE p.type = "publish"
    <3>1. p.topic # ValueTopic(n)
      BY <2>5, <2>7 DEF Publishes
    <3>2. /\ retained' = [retained EXCEPT ![p.topic] = p.payload]
          /\ Deliver(p.topic, p.payload)
      BY <1>10, <2>7 DEF BrokerReceive, p
    <3>3. retained'[ValueTopic(n)] = retained[ValueTopic(n)]
      BY <3>1, <3>2, PacketTypes DEF TypeOK
    <3> QED
      BY <2>2, <2>4, <2>6, <3>1, <3>2, <3>3, DeliveredIsSaved
  <2>8. CASE p.type # "publish"
    <3>1. retained' = retained /\ Deliver(p.topic, retained[p.topic])
      BY <1>10, <2>8 DEF BrokerReceive, p
    <3>2. retained[p.topic] \in Payloads
      BY <2>6 DEF TypeOK
    <3> QED
      BY <2>2, <2>4, <2>6, <3>1, <3>2, DeliveredIsSaved
  <2> QED
    BY <2>7, <2>8
<1>11. ASSUME NEW n \in Options, NEW p \in Values \cup {Malformed}, RemoteSet(n, p) PROVE EchoFree'
  <2>1. /\ Deliver(SetTopic(n), p) /\ UNCHANGED <<value, toBroker, retained>>
        /\ SetTopic(n) \in Topics /\ p \in Payloads
    BY <1>11, PacketTypes DEF RemoteSet, clientVars, Items, Payloads
  <2>2. \A i \in Items : OnlySaved(i) => OnlySaved(i)'
    BY <2>1, TopicsDiffer, DeliveredIsSaved
  <2> QED
    BY <2>1, <2>2 DEF EchoFree, NothingSent
<1>12. CASE HandleMessage
  <2> DEFINE m == Head(toClient)
  <2>1. \A i \in DOMAIN toClient' : i + 1 \in DOMAIN toClient /\ toClient'[i] = toClient[i + 1]
    BY <1>12, HeadTailProperties, LenProperties, EmptySeq DEF HandleMessage, TypeOK
  <2>2. \A i \in Items : OnlySaved(i) => OnlySaved(i)'
    BY <1>12, <2>1 DEF HandleMessage, OnlySaved
  <2>3. CASE Routable(m.topic) /\ Awaited(m) /\ WellFormed(m) /\ Validates(m.topic[1], m.payload)
    <3>1. m.topic[1] \in Items /\ m.payload \in Values
      BY <2>3 DEF Routable, WellFormed, Items
    <3> QED
      BY <1>12, <2>2, <2>3, <3>1, SetValueEchoFree DEF HandleMessage
  <2>4. CASE ~(Routable(m.topic) /\ Awaited(m) /\ WellFormed(m) /\ Validates(m.topic[1], m.payload))
    BY <1>12, <2>2, <2>4 DEF HandleMessage, EchoFree, NothingSent
  <2> QED
    BY <2>3, <2>4
<1> QED
  BY <1>2, <1>3, <1>4, <1>5, <1>6, <1>7, <1>8, <1>9, <1>10, <1>11, <1>12
  DEF Next, AppCalls, Failures, ConnectToHost, ConnectFails, AddParameter, vars, clientVars, netVars

-----------------------------------------------------------------------------
\* A step that handles a message adopts only what RemoteUpdatesAreSound says.
LEMMA RemoteUpdateStep ==
  ASSUME TypeOK, EchoFree, HandleMessage, NEW n \in Items, value'[n] # value[n]
  PROVE  /\ Validates(n, value'[n])
         /\ Head(toClient).topic = ValueTopic(n) =>
              WillHold(toBroker, retained, ValueTopic(n), value'[n])
<1> DEFINE m == Head(toClient)
<1>1. /\ Routable(m.topic) /\ Awaited(m) /\ WellFormed(m)
      /\ Validates(m.topic[1], m.payload) /\ SetValue(m.topic[1], m.payload)
  BY DEF HandleMessage
<1>2. m.topic[1] = n /\ value'[n] = m.payload
  BY <1>1 DEF SetValue, TypeOK
<1>3. ASSUME m.topic = ValueTopic(n)
      PROVE  WillHold(toBroker, retained, ValueTopic(n), value'[n])
  <2>1. value[n] = Undefined
    BY <1>1, <1>2, <1>3 DEF Awaited, ValueTopic
  <2>2. NothingSent(n) /\ OnlySaved(n)
    BY <2>1 DEF EchoFree
  <2>3. 1 \in DOMAIN toClient /\ m = toClient[1]
    BY HeadTailProperties, LenProperties, EmptySeq DEF HandleMessage, TypeOK
  <2>4. m.payload = retained[ValueTopic(n)]
    BY <1>3, <2>2, <2>3 DEF OnlySaved
  <2> QED
    BY <1>2, <2>2, <2>4 DEF WillHold, NothingSent
<1> QED
  BY <1>1, <1>2, <1>3

\* RemoteUpdatesAreSound holds for every set of names, values and validators,
\* provided that the application never sets a value to Undefined.
THEOREM RemoteUpdatesSound ==
  ASSUME AppValues \subseteq Values
  PROVE  Spec => RemoteUpdatesAreSound
<1>1. TypeOK /\ EchoFree /\ [Next]_vars =>
        [\A n \in Items : HandleMessage /\ value'[n] # value[n] =>
           /\ Validates(n, value'[n])
           /\ Head(toClient).topic = ValueTopic(n) =>
                WillHold(toBroker, retained, ValueTopic(n), value'[n])]_vars
  BY RemoteUpdateStep
<1> QED
  BY <1>1, InitTypeOK, NextTypeOK, FreshInductive, EchoFreeInductive, PTL
  DEF Spec, RemoteUpdatesAreSound
=============================================================================
