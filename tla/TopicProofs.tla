---------------------------- MODULE TopicProofs ----------------------------
(***************************************************************************)
(* The topics of options for every list of names, every set of ids and any *)
(* number of steps.                                                        *)
(***************************************************************************)
EXTENDS TopicNames, SequenceTheorems, WellFoundedInduction, TLAPS

-----------------------------------------------------------------------------
(***************************************************************************)
(* FlattenSeq, with which the loops of the model are written, is a         *)
(* recursive function of the length of its argument.                       *)
(***************************************************************************)

\* A set of naturals has a least element: what a proof by induction uses.
LEMMA LeastNatural ==
  ASSUME NEW T, T \subseteq Nat, T # {}
  PROVE  \E x \in T : \A y \in T : x <= y
<1> DEFINE R == {ss \in Nat \X Nat : ss[1] < ss[2]}
<1>1. IsWellFoundedOn(OpToRel(<, Nat), Nat)
  BY NatLessThanWellFounded
<1>2. R = OpToRel(<, Nat)
  BY DEF OpToRel
<1>3. IsWellFoundedOn(R, Nat)
  BY <1>1, <1>2
<1> HIDE DEF R
<1>4. PICK x \in T : \A y \in T : ~(<<y, x>> \in R)
  BY <1>3, WFMin
<1>5. ASSUME NEW y \in T, ~(x <= y) PROVE FALSE
  <2>1. x \in Nat /\ y \in Nat /\ y < x
    BY <1>5
  <2>2. <<y, x>> \in R
    BY <2>1 DEF R
  <2> QED
    BY <1>4, <2>2
<1> QED
  BY <1>4, <1>5

\* The function inside FlattenSeq exists, for each length.
LEMMA FlattenExists ==
  ASSUME NEW ss, NEW n \in Nat
  PROVE  \E f : f = [i \in 1..n |-> IF i = 1 THEN ss[i] ELSE f[i - 1] \o ss[i]]
<1> DEFINE Flattens(f, k) == f = [i \in 1..k |-> IF i = 1 THEN ss[i] ELSE f[i - 1] \o ss[i]]
           T == {k \in Nat : ~\E f : Flattens(f, k)}
<1>1. CASE T = {}
  BY <1>1
<1>2. CASE T # {}
  <2>1. PICK m \in T : \A k \in T : m <= k
    <3> HIDE DEF T
    <3>1. T \subseteq Nat
      BY DEF T
    <3> QED
      BY <1>2, <3>1, LeastNatural
  <2>2. m \in Nat
    OBVIOUS
  <2>3. CASE m = 0
    <3> DEFINE g == [i \in 1..m |-> ss[i]]
    <3>1. Flattens(g, m)
      BY <2>3
    <3> QED
      BY <3>1
  <2>4. CASE m # 0
    <3>1. m - 1 \in Nat /\ m - 1 \notin T
      <4> HIDE DEF T
      <4> QED
        BY <2>1, <2>2, <2>4
    <3>2. PICK f : Flattens(f, m - 1)
      BY <3>1
    <3> DEFINE g == [i \in 1..m |->
                       IF i = m THEN (IF m = 1 THEN ss[m] ELSE f[m - 1] \o ss[m]) ELSE f[i]]
    <3>3. \A i \in 1..m - 1 : g[i] = f[i]
      BY <2>2
    <3>4. \A i \in 1..m : g[i] = IF i = 1 THEN ss[i] ELSE g[i - 1] \o ss[i]
      <4> SUFFICES ASSUME NEW i \in 1..m
                   PROVE  g[i] = IF i = 1 THEN ss[i] ELSE g[i - 1] \o ss[i]
        OBVIOUS
      <4>1. CASE i = m
        BY <2>2, <4>1, <3>3
      <4>2. CASE i # m
        <5>1. i \in 1..m - 1 /\ (i # 1 => i - 1 \in 1..m - 1)
          BY <2>2, <4>2
        <5>2. f[i] = IF i = 1 THEN ss[i] ELSE f[i - 1] \o ss[i]
          BY <3>2, <5>1
        <5> QED
          BY <3>3, <5>1, <5>2
      <4> QED
        BY <4>1, <4>2
    <3>5. g = [i \in 1..m |-> g[i]]
      OBVIOUS
    <3>6. Flattens(g, m)
      BY <3>4, <3>5
    <3> HIDE DEF g
    <3> QED
      BY <3>6
  <2> QED
    BY <2>3, <2>4
<1> QED
  BY <1>1, <1>2

\* A concatenation lists what its parts list.
LEMMA ConcatRange ==
  ASSUME NEW S, NEW q \in Seq(S), NEW r \in Seq(S)
  PROVE  /\ q \o r \in Seq(S)
         /\ ToSet(q \o r) = ToSet(q) \cup ToSet(r)
<1>1. /\ q \o r \in Seq(S) /\ Len(q) \in Nat /\ Len(r) \in Nat
      /\ DOMAIN q = 1..Len(q) /\ DOMAIN r = 1..Len(r)
      /\ DOMAIN (q \o r) = 1..(Len(q) + Len(r))
      /\ \A i \in 1..(Len(q) + Len(r)) :
           (q \o r)[i] = IF i <= Len(q) THEN q[i] ELSE r[i - Len(q)]
  BY ConcatProperties, LenProperties
<1>2. ASSUME NEW x \in ToSet(q \o r) PROVE x \in ToSet(q) \cup ToSet(r)
  BY <1>1, <1>2 DEF ToSet
<1>3. ASSUME NEW x \in ToSet(q) PROVE x \in ToSet(q \o r)
  <2>1. PICK i \in 1..Len(q) : x = q[i]
    BY <1>1 DEF ToSet
  <2>2. i \in DOMAIN (q \o r) /\ (q \o r)[i] = x
    BY <1>1, <2>1
  <2> QED
    BY <2>2 DEF ToSet
<1>4. ASSUME NEW x \in ToSet(r) PROVE x \in ToSet(q \o r)
  <2>1. PICK i \in 1..Len(r) : x = r[i]
    BY <1>1 DEF ToSet
  <2>2. i + Len(q) \in DOMAIN (q \o r) /\ (q \o r)[i + Len(q)] = x
    BY <1>1, <2>1
  <2> QED
    BY <2>2 DEF ToSet
<1> QED
  BY <1>1, <1>2, <1>3, <1>4

\* FlattenSeq lists what its arguments list.
LEMMA FlattenSeqLists ==
  ASSUME NEW S, NEW ss, NEW n \in Nat, DOMAIN ss = 1..n, Len(ss) = n,
         \A i \in 1..n : ss[i] \in Seq(S)
  PROVE  /\ FlattenSeq(ss) \in Seq(S)
         /\ ToSet(FlattenSeq(ss)) = UNION {ToSet(ss[i]) : i \in 1..n}
<1> DEFINE Lists(q, k) == /\ q \in Seq(S)
                          /\ ToSet(q) = UNION {ToSet(ss[i]) : i \in 1..k}
<1>1. CASE n = 0
  <2>1. FlattenSeq(ss) = ss
    BY <1>1 DEF FlattenSeq
  <2>2. ss = <<>>
    BY <1>1
  <2> QED
    BY <1>1, <2>1, <2>2 DEF ToSet
<1>2. CASE n # 0
  <2> DEFINE f == CHOOSE f : f = [i \in 1..n |-> IF i = 1 THEN ss[i] ELSE f[i - 1] \o ss[i]]
  <2>1. FlattenSeq(ss) = f[n]
    BY <1>2 DEF FlattenSeq
  <2>2. f = [i \in 1..n |-> IF i = 1 THEN ss[i] ELSE f[i - 1] \o ss[i]]
    BY FlattenExists
  <2> HIDE DEF f
  <2>3. \A i \in 1..n : f[i] = IF i = 1 THEN ss[i] ELSE f[i - 1] \o ss[i]
    BY <2>2
  <2> DEFINE T == {k \in 1..n : ~Lists(f[k], k)}
  <2>4. CASE T = {}
    <3>1. Lists(f[n], n)
      BY <1>2, <2>4
    <3> QED
      BY <2>1, <3>1
  <2>5. CASE T # {}
    <3>1. PICK m \in T : \A k \in T : m <= k
      <4> HIDE DEF T
      <4>1. T \subseteq Nat
        BY DEF T
      <4> QED
        BY <2>5, <4>1, LeastNatural
    <3>2. m \in 1..n /\ ~Lists(f[m], m)
      OBVIOUS
    <3> HIDE DEF T
    <3>3. CASE m = 1
      <4>1. f[m] = ss[1]
        BY <2>3, <3>2, <3>3
      <4>2. UNION {ToSet(ss[i]) : i \in 1..1} = ToSet(ss[1])
        OBVIOUS
      <4> QED
        BY <3>2, <3>3, <4>1, <4>2
    <3>4. CASE m # 1
      <4>1. m - 1 \in 1..n /\ m - 1 \notin T
        BY <3>1, <3>2, <3>4
      <4>2. Lists(f[m - 1], m - 1)
        BY <4>1 DEF T
      <4>3. f[m] = f[m - 1] \o ss[m]
        BY <2>3, <3>2, <3>4
      <4>4. f[m] \in Seq(S) /\ ToSet(f[m]) = ToSet(f[m - 1]) \cup ToSet(ss[m])
        BY <3>2, <4>2, <4>3, ConcatRange
      <4>5. 1..m = (1..m - 1) \cup {m}
        BY <3>2
      <4>6. UNION {ToSet(ss[i]) : i \in 1..m}
              = (UNION {ToSet(ss[i]) : i \in 1..m - 1}) \cup ToSet(ss[m])
        BY <4>5
      <4> QED
        BY <3>2, <4>2, <4>4, <4>6
    <3> QED
      BY <3>3, <3>4
  <2> QED
    BY <2>4, <2>5
<1> QED
  BY <1>1, <1>2

-----------------------------------------------------------------------------
(***************************************************************************)
(* Topics.                                                                 *)
(***************************************************************************)

AllSegments == Ids \cup Segments \cup {"option", "set"}

\* A name is a sequence of one or more segments.
LEMMA NamesAreSequences ==
  ASSUME NEW n \in Names
  PROVE  /\ n \in Seq(Segments) /\ n \in Seq(AllSegments)
         /\ Len(n) \in Nat \ {0} /\ DOMAIN n = 1..Len(n)
         /\ n # Undefined
<1>1. PICK i \in DOMAIN NameList : n = NameList[i]
  BY DEF Names, ToSet
<1>2. n \in Seq(Segments) /\ n # <<>>
  <2>1. NameList[i] \in Seq(Segments) \ {<<>>}
    BY NamesAssumption, ElementOfSeq, LenProperties DEF NamesAssumption
  <2> QED
    BY <1>1, <2>1
<1>3. n \in Seq(AllSegments)
  BY <1>2, SeqMonotonic DEF AllSegments
<1>4. n # Undefined
  BY NamesAssumption DEF NamesAssumption
<1> QED
  BY <1>2, <1>3, <1>4, LenProperties, EmptySeq

\* The segments of an option's own topic.
LEMMA TopicShape ==
  ASSUME NEW id \in Ids, NEW n \in Names
  PROVE  /\ Topic(id, n) \in Seq(AllSegments)
         /\ Len(Topic(id, n)) = Len(n) + 2
         /\ Topic(id, n)[1] = id /\ Topic(id, n)[2] = "option"
         /\ \A i \in 1..Len(n) : Topic(id, n)[i + 2] = n[i]
<1>1. <<id, "option">> \in Seq(AllSegments)
  <2>1. id \in AllSegments /\ "option" \in AllSegments
    BY DEF AllSegments
  <2> QED
    BY <2>1
<1>2. n \in Seq(AllSegments) /\ Len(n) \in Nat
  BY NamesAreSequences
<1>3. Len(<<id, "option">>) = 2
      /\ <<id, "option">>[1] = id /\ <<id, "option">>[2] = "option"
  OBVIOUS
<1> DEFINE pre == <<id, "option">>
<1> HIDE DEF pre
<1>4. /\ pre \o n \in Seq(AllSegments)
      /\ Len(pre \o n) = 2 + Len(n)
      /\ \A i \in 1..2 + Len(n) : (pre \o n)[i] = IF i <= 2 THEN pre[i] ELSE n[i - 2]
  BY <1>1, <1>2, <1>3, ConcatProperties DEF pre
<1>5. \A i \in 1..Len(n) : i + 2 \in 1..2 + Len(n) /\ ~(i + 2 <= 2) /\ (i + 2) - 2 = i
  BY <1>2
<1>6. Topic(id, n) = pre \o n
  BY DEF Topic, pre
<1>7. \A i \in 1..Len(n) : (pre \o n)[i + 2] = n[i]
  BY <1>4, <1>5
<1>8. (pre \o n)[1] = pre[1] /\ (pre \o n)[2] = pre[2]
  BY <1>2, <1>4
<1> QED
  BY <1>2, <1>3, <1>4, <1>6, <1>7, <1>8 DEF pre

\* And of the topic on which it is set.
LEMMA SetTopicShape ==
  ASSUME NEW id \in Ids, NEW n \in Names
  PROVE  /\ SetTopic(id, n) \in Seq(AllSegments)
         /\ Len(SetTopic(id, n)) = Len(n) + 3
         /\ SetTopic(id, n)[1] = id /\ SetTopic(id, n)[2] = "option"
         /\ \A i \in 1..Len(n) : SetTopic(id, n)[i + 2] = n[i]
         /\ SetTopic(id, n)[Len(n) + 3] = "set"
<1> DEFINE t == Topic(id, n)
           last == <<"set">>
<1>1. /\ t \in Seq(AllSegments) /\ Len(t) = Len(n) + 2 /\ Len(n) \in Nat
      /\ t[1] = id /\ t[2] = "option" /\ \A i \in 1..Len(n) : t[i + 2] = n[i]
  BY TopicShape, NamesAreSequences
<1>2. last \in Seq(AllSegments) /\ Len(last) = 1 /\ last[1] = "set"
  <2>1. "set" \in AllSegments
    BY DEF AllSegments
  <2> QED
    BY <2>1
<1>3. SetTopic(id, n) = t \o last
  BY DEF SetTopic
<1> HIDE DEF t, last
<1>4. /\ t \o last \in Seq(AllSegments)
      /\ Len(t \o last) = Len(n) + 3
      /\ \A i \in 1..Len(n) + 3 :
           (t \o last)[i] = IF i <= Len(n) + 2 THEN t[i] ELSE last[i - (Len(n) + 2)]
  <2>1. /\ t \o last \in Seq(AllSegments)
        /\ Len(t \o last) = Len(t) + Len(last)
        /\ \A i \in 1..Len(t) + Len(last) :
             (t \o last)[i] = IF i <= Len(t) THEN t[i] ELSE last[i - Len(t)]
    BY <1>1, <1>2, ConcatProperties
  <2>2. Len(t) + Len(last) = Len(n) + 3
    BY <1>1, <1>2
  <2> QED
    BY <1>1, <2>1, <2>2
<1>5. \A i \in 1..Len(n) + 2 : (t \o last)[i] = t[i]
  BY <1>1, <1>4
<1>6. (t \o last)[Len(n) + 3] = "set"
  BY <1>1, <1>2, <1>4
<1>7. 1 \in 1..Len(n) + 2 /\ 2 \in 1..Len(n) + 2
      /\ \A i \in 1..Len(n) : i + 2 \in 1..Len(n) + 2
  BY <1>1
<1> QED
  BY <1>1, <1>3, <1>4, <1>5, <1>6, <1>7

\* Different options, and different ids, have different topics.
LEMMA TopicInjective ==
  ASSUME NEW id \in Ids, NEW n \in Names, NEW id2 \in Ids, NEW m \in Names,
         Topic(id, n) = Topic(id2, m)
  PROVE  id = id2 /\ n = m
<1>1. id = id2 /\ Len(n) + 2 = Len(m) + 2
  BY TopicShape
<1>2. Len(n) \in Nat /\ Len(m) \in Nat
  BY NamesAreSequences
<1>3. \A i \in 1..Len(n) : n[i] = m[i]
  BY <1>1, <1>2, TopicShape
<1>4. n \in Seq(Segments) /\ m \in Seq(Segments)
  BY NamesAreSequences
<1> QED
  BY <1>1, <1>2, <1>3, <1>4, SeqEqual

\* The own topic of m is the topic on which n is set for m = n/set only.
LEMMA SetTopicOfAnother ==
  ASSUME NEW id \in Ids, NEW n \in Names, NEW m \in Names, Topic(id, m) = SetTopic(id, n)
  PROVE  m = Append(n, "set")
<1>1. n \in Seq(AllSegments) /\ m \in Seq(AllSegments) /\ Len(n) \in Nat /\ Len(m) \in Nat
  BY NamesAreSequences
<1>2. Len(m) = Len(n) + 1
  BY <1>1, TopicShape, SetTopicShape
<1>3. \A i \in 1..Len(m) : m[i] = SetTopic(id, n)[i + 2]
  BY TopicShape
<1>4. /\ Append(n, "set") \in Seq(AllSegments)
      /\ Len(Append(n, "set")) = Len(n) + 1
      /\ \A i \in 1..Len(n) : Append(n, "set")[i] = n[i]
      /\ Append(n, "set")[Len(n) + 1] = "set"
  <2>1. "set" \in AllSegments /\ n \in Seq(AllSegments)
    BY NamesAreSequences DEF AllSegments
  <2> QED
    BY <1>1, <2>1, AppendProperties
<1>5. ASSUME NEW i \in 1..Len(m) PROVE m[i] = Append(n, "set")[i]
  <2>1. CASE i \in 1..Len(n)
    BY <1>3, <1>4, <2>1, SetTopicShape
  <2>2. CASE i = Len(n) + 1
    <3>1. i + 2 = Len(n) + 3
      BY <1>1, <2>2
    <3> QED
      BY <1>3, <1>4, <2>2, <3>1, SetTopicShape
  <2> QED
    BY <1>1, <1>2, <2>1, <2>2
<1> QED
  BY <1>1, <1>2, <1>4, <1>5, SeqEqual

\* Topics of the model are topics of some option under some id.
LEMMA TopicsAreTopics ==
  /\ \A id \in Ids, n \in Names : Topic(id, n) \in Topics /\ SetTopic(id, n) \in Topics
  /\ \A t \in Topics : \E id \in Ids, n \in Names : t = Topic(id, n) \/ t = SetTopic(id, n)
BY DEF Topics

-----------------------------------------------------------------------------
(***************************************************************************)
(* What the steps are made of.                                             *)
(***************************************************************************)

Messages == [topic : Topics, payload : Names]

\* The retained messages of the listed topics, and nothing else.
LEMMA RetainedOnLists ==
  ASSUME TypeOK, NEW ts \in Seq(Topics)
  PROVE  /\ RetainedOn(ts) \in Seq(Messages)
         /\ \A i \in DOMAIN RetainedOn(ts) :
              RetainedOn(ts)[i].payload = retained[RetainedOn(ts)[i].topic]
<1> DEFINE answer(t) == [topic |-> t, payload |-> retained[t]]
           Kept == {m \in Messages : m.payload = retained[m.topic]}
           ss == [i \in DOMAIN ts |-> IF retained[ts[i]] = Undefined THEN <<>> ELSE <<answer(ts[i])>>]
<1>1. Len(ts) \in Nat /\ DOMAIN ts = 1..Len(ts) /\ \A i \in 1..Len(ts) : ts[i] \in Topics
  BY LenProperties, ElementOfSeq
<1>2. DOMAIN ss = 1..Len(ts) /\ Len(ss) = Len(ts)
  BY <1>1
<1>3. ASSUME NEW i \in 1..Len(ts) PROVE ss[i] \in Seq(Kept)
  <2>1. CASE retained[ts[i]] = Undefined
    BY <1>1, <2>1, EmptySeq
  <2>2. CASE retained[ts[i]] # Undefined
    <3>1. answer(ts[i]) \in Kept
      BY <1>1, <2>2 DEF TypeOK, Messages
    <3>2. ss[i] = <<answer(ts[i])>>
      BY <1>1, <2>2
    <3> HIDE DEF answer, Kept, ss
    <3> QED
      BY <3>1, <3>2
  <2> QED
    BY <2>1, <2>2
<1>4. RetainedOn(ts) = FlattenSeq(ss)
  BY DEF RetainedOn
<1> HIDE DEF ss, Kept
<1>5. RetainedOn(ts) \in Seq(Kept)
  BY <1>1, <1>2, <1>3, <1>4, FlattenSeqLists
<1>6. Kept \subseteq Messages /\ \A m \in Kept : m.payload = retained[m.topic]
  BY DEF Kept
<1> QED
  BY <1>5, <1>6, SeqMonotonic, ElementOfSeq, LenProperties

\* The topics that setupSubscriptionsForOption subscribes to.
LEMMA SubscriptionsList ==
  ASSUME NEW n \in Names, NEW accept, client_id \in Ids
  PROVE  /\ Subscriptions(n, accept) \in Seq(Topics)
         /\ SetTopic(client_id, n) \in ToSet(Subscriptions(n, accept))
<1> DEFINE first == <<SetTopic(client_id, n)>>
           second == IF accept THEN <<Topic(client_id, n)>> ELSE <<>>
<1>1. first \in Seq(Topics) /\ second \in Seq(Topics)
  BY TopicsAreTopics
<1>2. SetTopic(client_id, n) \in ToSet(first)
  BY DEF ToSet
<1>3. Subscriptions(n, accept) = first \o second
  BY DEF Subscriptions
<1> HIDE DEF first, second
<1> QED
  BY <1>1, <1>2, <1>3, ConcatRange

\* setupSubscriptions subscribes to the topics on which options are set.
LEMMA AllSubscriptionsList ==
  ASSUME TypeOK, NEW accepting
  PROVE  LET ts == FlattenSeq([i \in DOMAIN NameList |->
                     IF NameList[i] \in options
                     THEN Subscriptions(NameList[i], NameList[i] \in accepting) ELSE <<>>])
         IN  /\ ts \in Seq(Topics)
             /\ \A n \in options : SetTopic(client_id, n) \in ToSet(ts)
<1> DEFINE ss == [i \in DOMAIN NameList |->
                    IF NameList[i] \in options
                    THEN Subscriptions(NameList[i], NameList[i] \in accepting) ELSE <<>>]
<1>1. Len(NameList) \in Nat /\ DOMAIN NameList = 1..Len(NameList)
  BY NamesAssumption, LenProperties DEF NamesAssumption
<1>2. DOMAIN ss = 1..Len(NameList) /\ Len(ss) = Len(NameList)
  BY <1>1
<1>3. client_id \in Ids /\ options \subseteq Names
  BY DEF TypeOK
<1>4. ASSUME NEW i \in 1..Len(NameList)
      PROVE  /\ ss[i] \in Seq(Topics)
             /\ NameList[i] \in options => SetTopic(client_id, NameList[i]) \in ToSet(ss[i])
  <2>1. CASE NameList[i] \in options
    <3>1. ss[i] = Subscriptions(NameList[i], NameList[i] \in accepting)
      BY <1>1, <2>1
    <3> QED
      BY <1>3, <2>1, <3>1, SubscriptionsList
  <2>2. CASE NameList[i] \notin options
    BY <1>1, <2>2, EmptySeq
  <2> QED
    BY <2>1, <2>2
<1> HIDE DEF ss
<1>5. /\ FlattenSeq(ss) \in Seq(Topics)
      /\ ToSet(FlattenSeq(ss)) = UNION {ToSet(ss[i]) : i \in 1..Len(NameList)}
  BY <1>1, <1>2, <1>4, FlattenSeqLists
<1>6. ASSUME NEW n \in options PROVE SetTopic(client_id, n) \in ToSet(FlattenSeq(ss))
  <2>1. PICK i \in 1..Len(NameList) : n = NameList[i]
    BY <1>1, <1>3 DEF Names, ToSet
  <2> QED
    BY <1>4, <1>5, <2>1
<1> QED
  BY <1>5, <1>6 DEF ss

\* What setValue of an option changes, with all slots of valueChanged.
LEMMA SetValueEffect ==
  ASSUME TypeOK, NEW n \in options, NEW v \in Names \cup {Undefined},
         NEW queue, SetValue(n, v, queue)
  PROVE  LET t == Topic(client_id, n) IN
         /\ value' = [value EXCEPT ![n] = v]
         /\ \/ retained' = retained
            \/ v # Undefined /\ retained' = [retained EXCEPT ![t] = v]
         /\ v \notin {value[n], Undefined} /\ phase # "down" =>
              retained' = [retained EXCEPT ![t] = v]
         /\ \/ received' = queue
            \/ v # Undefined /\ received' = Append(queue, [topic |-> t, payload |-> v])
         /\ subs' = subs \/ (n \in watching /\ subs' = subs \ {t})
         /\ watching' \subseteq watching
<1> DEFINE t == Topic(client_id, n)
<1>1. value' = [value EXCEPT ![n] = v]
  BY DEF SetValue
<1>2. CASE v # value[n] /\ phase # "down"
  <2>1. /\ retained' = IF v # Undefined THEN [retained EXCEPT ![t] = v] ELSE retained
        /\ received' = IF v # Undefined /\ t \in subs
                       THEN Append(queue, [topic |-> t, payload |-> v]) ELSE queue
        /\ subs' = IF n \in watching /\ v # Undefined THEN subs \ {t} ELSE subs
        /\ watching' = IF v # Undefined THEN watching \ {n} ELSE watching
    BY <1>2 DEF SetValue, Publish, Sent
  <2> HIDE DEF t
  <2>2. /\ retained' = retained \/ (v # Undefined /\ retained' = [retained EXCEPT ![t] = v])
        /\ v # Undefined => retained' = [retained EXCEPT ![t] = v]
    BY <2>1
  <2>3. received' = queue
        \/ (v # Undefined /\ received' = Append(queue, [topic |-> t, payload |-> v]))
    BY <2>1
  <2>4. /\ subs' = subs \/ (n \in watching /\ subs' = subs \ {t})
        /\ watching' \subseteq watching
    BY <2>1
  <2> QED
    BY <1>1, <2>2, <2>3, <2>4 DEF t
<1>3. CASE ~(v # value[n] /\ phase # "down")
  <2>1. received' = queue /\ UNCHANGED <<retained, subs, watching>>
    BY <1>3 DEF SetValue
  <2> QED
    BY <1>1, <1>3, <2>1
<1> QED
  BY <1>2, <1>3

\* A value of the right type keeps the state well typed.
LEMMA SetValueTypes ==
  ASSUME TypeOK, NEW n \in options, NEW v \in Names \cup {Undefined},
         NEW queue \in Seq(Messages), SetValue(n, v, queue)
  PROVE  /\ value' \in [Names -> Names \cup {Undefined}]
         /\ retained' \in [Topics -> Names \cup {Undefined}]
         /\ received' \in Seq(Messages)
         /\ subs' \subseteq Topics
         /\ watching' \subseteq options
<1> DEFINE t == Topic(client_id, n)
<1>1. n \in Names /\ client_id \in Ids /\ t \in Topics
  BY TopicsAreTopics DEF TypeOK
<1>2. v # Undefined => [topic |-> t, payload |-> v] \in Messages
  BY <1>1 DEF Messages
<1>3. v # Undefined => Append(queue, [topic |-> t, payload |-> v]) \in Seq(Messages)
  BY <1>2, AppendProperties
<1>4. /\ value' = [value EXCEPT ![n] = v]
      /\ retained' = retained \/ (v # Undefined /\ retained' = [retained EXCEPT ![t] = v])
      /\ \/ received' = queue
         \/ v # Undefined /\ received' = Append(queue, [topic |-> t, payload |-> v])
      /\ subs' = subs \/ subs' = subs \ {t}
      /\ watching' \subseteq watching
  BY SetValueEffect
<1> HIDE DEF t
<1>5. received' \in Seq(Messages)
  BY <1>3, <1>4
<1>6. retained' \in [Topics -> Names \cup {Undefined}]
  BY <1>1, <1>4 DEF TypeOK
<1>7. value' \in [Names -> Names \cup {Undefined}]
  BY <1>1, <1>4 DEF TypeOK
<1> QED
  BY <1>4, <1>5, <1>6, <1>7 DEF TypeOK

-----------------------------------------------------------------------------
(***************************************************************************)
(* Type correctness.                                                       *)
(***************************************************************************)

\* The initial state is well typed, whatever was saved.
LEMMA InitTypeOK == Init => TypeOK
<1> SUFFICES ASSUME Init PROVE TypeOK
  OBVIOUS
<1>1. PICK saved \in SUBSET (Ids \X Names) :
        retained = [t \in Topics |->
          IF \E s \in saved : t = Topic(s[1], s[2])
          THEN (CHOOSE s \in saved : t = Topic(s[1], s[2]))[2] ELSE Undefined]
  BY DEF Init
<1>2. ASSUME NEW t \in Topics PROVE retained[t] \in Names \cup {Undefined}
  <2>1. CASE \E s \in saved : t = Topic(s[1], s[2])
    <3> DEFINE s == CHOOSE s \in saved : t = Topic(s[1], s[2])
    <3>1. s \in saved
      BY <2>1
    <3>2. retained[t] = s[2]
      BY <1>1, <2>1
    <3> HIDE DEF s
    <3> QED
      BY <3>1, <3>2
  <2> QED
    BY <1>1, <2>1
<1>3. retained \in [Topics -> Names \cup {Undefined}]
  BY <1>1, <1>2
<1>4. received \in Seq([topic : Topics, payload : Names])
  BY EmptySeq DEF Init
<1>5. /\ client_id \in Ids /\ phase = "down" /\ options = {}
      /\ value = [n \in Names |-> Undefined] /\ watching = {} /\ subs = {}
      /\ renamed = FALSE /\ steps = 0
  BY DEF Init
<1>6. steps \in 0..MaxSteps
  BY <1>5, NamesAssumption DEF NamesAssumption
<1> QED
  BY <1>3, <1>4, <1>5, <1>6 DEF TypeOK

\* What Head(received) is and leaves behind.
LEMMA ReceivedHeadTail ==
  ASSUME NEW M, received \in Seq(M), received # <<>>
  PROVE  Head(received) \in M /\ Tail(received) \in Seq(M)
BY HeadTailProperties

\* Subscribing brings retained messages.
LEMMA SubscribeToTypes ==
  ASSUME TypeOK, NEW ts \in Seq(Topics), SubscribeTo(ts)
  PROVE  subs' \subseteq Topics /\ received' \in Seq(Messages)
<1>1. ToSet(ts) \subseteq Topics
  BY ElementOfSeq, LenProperties DEF ToSet
<1>2. received \in Seq(Messages) /\ RetainedOn(ts) \in Seq(Messages)
  BY RetainedOnLists DEF TypeOK, Messages
<1> QED
  BY <1>1, <1>2, ConcatProperties DEF SubscribeTo, TypeOK

\* Every step keeps the types.
LEMMA NextTypeOK == TypeOK /\ [Next]_vars => TypeOK'
<1> SUFFICES ASSUME TypeOK, [Next]_vars PROVE TypeOK'
  OBVIOUS
<1>0. EnvironmentStep => steps' \in 0..MaxSteps
  BY NamesAssumption DEF EnvironmentStep, TypeOK, NamesAssumption
<1>1. ASSUME NEW id \in Ids, SetClientId(id) PROVE TypeOK'
  BY <1>0, <1>1 DEF SetClientId, TypeOK
<1>2. ASSUME NEW n \in Names, NEW accept \in BOOLEAN, AddOption(n, accept) PROVE TypeOK'
  <2>1. Subscriptions(n, accept) \in Seq(Topics)
    BY SubscriptionsList DEF TypeOK
  <2>2. CASE phase = "down"
    BY <1>0, <1>2, <2>2 DEF AddOption, TypeOK
  <2>3. CASE phase # "down"
    <3>1. subs' \subseteq Topics /\ received' \in Seq(Messages)
      BY <1>2, <2>1, <2>3, SubscribeToTypes DEF AddOption
    <3> QED
      BY <1>0, <1>2, <2>3, <3>1 DEF AddOption, TypeOK, Messages
  <2> QED
    BY <2>2, <2>3
<1>3. ASSUME NEW n \in Names, NEW v \in {n, Undefined}, AppSetValue(n, v) PROVE TypeOK'
  <2>1. received \in Seq(Messages) /\ n \in options /\ SetValue(n, v, received)
    BY <1>3 DEF AppSetValue, TypeOK, Messages
  <2> QED
    BY <1>0, <1>3, <2>1, SetValueTypes DEF AppSetValue, TypeOK, Messages
<1>4. ASSUME NEW id \in Ids, NEW n \in Names, RemoteSet(id, n) PROVE TypeOK'
  <2>1. [topic |-> SetTopic(id, n), payload |-> n] \in Messages
    BY TopicsAreTopics DEF Messages
  <2>2. received' \in Seq(Messages)
    BY <1>4, <2>1, AppendProperties DEF RemoteSet, TypeOK, Messages
  <2> QED
    BY <1>0, <1>4, <2>2 DEF RemoteSet, TypeOK, Messages
<1>5. CASE Connected
  <2>1. ASSUME NEW t \in Topics PROVE retained'[t] \in Names \cup {Undefined}
    <3> DEFINE c == CHOOSE n \in Uploads : t = Topic(client_id, n)
    <3>1. CASE \E n \in Uploads : t = Topic(client_id, n)
      <4>1. c \in Uploads
        BY <3>1
      <4>2. retained'[t] = value[c]
        BY <1>5, <3>1 DEF Connected
      <4> HIDE DEF c
      <4> QED
        BY <4>1, <4>2 DEF Uploads, TypeOK
    <3>2. CASE ~\E n \in Uploads : t = Topic(client_id, n)
      BY <1>5, <3>2 DEF Connected, TypeOK
    <3> QED
      BY <3>1, <3>2
  <2>2. retained' \in [Topics -> Names \cup {Undefined}]
    BY <1>5, <2>1 DEF Connected
  <2>3. received' \in Seq([topic : Topics, payload : Names])
    BY <1>5, EmptySeq DEF Connected
  <2> QED
    BY <1>5, <2>2, <2>3 DEF Connected, TypeOK
<1>6. CASE SetupSubscriptions
  <2> DEFINE undefined == {n \in options : value[n] = Undefined}
             ts == FlattenSeq([i \in DOMAIN NameList |->
                     IF NameList[i] \in options
                     THEN Subscriptions(NameList[i], NameList[i] \in undefined) ELSE <<>>])
  <2>1. ts \in Seq(Topics)
    BY AllSubscriptionsList
  <2>2. SubscribeTo(ts)
    BY <1>6 DEF SetupSubscriptions
  <2>3. /\ phase' = "session" /\ watching' = watching \cup undefined
        /\ UNCHANGED <<client_id, options, value, retained, renamed, steps>>
    BY <1>6 DEF SetupSubscriptions
  <2> HIDE DEF ts
  <2>4. subs' \subseteq Topics /\ received' \in Seq(Messages)
    BY <2>1, <2>2, SubscribeToTypes
  <2> QED
    BY <2>3, <2>4 DEF TypeOK, Messages
<1>7. CASE Disconnected
  BY <1>0, <1>7, EmptySeq DEF Disconnected, TypeOK
<1>8. CASE HandleMessage
  <2> DEFINE t == Head(received).topic
             n == NameIn(t)
             v == Head(received).payload
  <2>1. Head(received) \in Messages /\ Tail(received) \in Seq(Messages)
    BY <1>8, ReceivedHeadTail DEF HandleMessage, TypeOK, Messages
  <2>2. CASE Routable(t) /\ (IsSaved(t) => value[n] = Undefined)
    <3>1. n \in options /\ v \in Names /\ SetValue(n, v, Tail(received))
      BY <1>8, <2>1, <2>2 DEF HandleMessage, Routable, Messages
    <3>2. UNCHANGED <<client_id, phase, options, renamed, steps>>
      BY <1>8 DEF HandleMessage
    <3> HIDE DEF n, v
    <3> QED
      BY <2>1, <3>1, <3>2, SetValueTypes DEF TypeOK, Messages
  <2>3. CASE ~(Routable(t) /\ (IsSaved(t) => value[n] = Undefined))
    BY <1>8, <2>1, <2>3 DEF HandleMessage, TypeOK, Messages
  <2> QED
    BY <2>2, <2>3
<1>9. CASE UNCHANGED vars
  BY <1>9 DEF vars, TypeOK
<1> QED
  BY <1>1, <1>2, <1>3, <1>4, <1>5, <1>6, <1>7, <1>8, <1>9 DEF Next

\* The topics of subscriptions, of the broker and of messages are those of
\* options, and only existing options will unsubscribe.
THEOREM TopicTypes == Spec => []TypeOK
BY InitTypeOK, NextTypeOK, PTL DEF Spec

-----------------------------------------------------------------------------
(***************************************************************************)
(* Whom values are meant for.                                              *)
(***************************************************************************)

\* v is n, or n/set, or n/set/set ...
Extends(n, v) ==
  /\ Len(n) <= Len(v)
  /\ \A i \in 1..Len(n) : v[i] = n[i]
  /\ \A i \in Len(n) + 1..Len(v) : v[i] = "set"

\* As what follows <id>/option in t: the topics of n and of n/set carry what
\* is meant for these.
Stored(t, v) ==
  /\ Len(t) <= Len(v) + 2
  /\ \A i \in 1..Len(t) - 2 : v[i] = t[i + 2]
  /\ \A i \in Len(t) - 1..Len(v) : v[i] = "set"

\* The remote side asks for v where v is set.
Wished(t, v) == \E id \in Ids : t = SetTopic(id, v)

Fitting == {m \in Messages : Stored(m.topic, m.payload) \/ Wished(m.topic, m.payload)}

ValuesFit == \A n \in Names : value[n] # Undefined => Extends(n, value[n])
RetainedFits == \A t \in Topics : retained[t] # Undefined => Stored(t, retained[t])
ReceivedFits == received \in Seq(Fitting)

\* What is published for an option fits the topic.
LEMMA PublishedFits ==
  ASSUME NEW id \in Ids, NEW n \in Names, NEW v \in Names, Extends(n, v)
  PROVE  Stored(Topic(id, n), v)
<1>1. Len(n) \in Nat /\ Len(v) \in Nat
  BY NamesAreSequences
<1>2. Len(Topic(id, n)) = Len(n) + 2
  BY TopicShape
<1>3. \A i \in 1..Len(n) : v[i] = Topic(id, n)[i + 2]
  BY TopicShape DEF Extends
<1>4. Len(n) + 2 <= Len(v) + 2 /\ (Len(n) + 2) - 2 = Len(n) /\ (Len(n) + 2) - 1 = Len(n) + 1
  BY <1>1 DEF Extends
<1> QED
  BY <1>2, <1>3, <1>4 DEF Stored, Extends

\* Each name extends itself.
LEMMA ExtendsItself ==
  ASSUME NEW n \in Names
  PROVE  Extends(n, n)
BY NamesAreSequences DEF Extends

\* A topic that handleMessage takes apart is the own topic of the option it
\* finds there, or the one on which this option is set, under the id in force.
LEMMA RoutedTopic ==
  ASSUME TypeOK, NEW t \in Topics, Routable(t)
  PROVE  LET n == NameIn(t) IN
         /\ n \in options /\ n \in Names /\ Len(n) = 1 /\ n[1] = t[3]
         /\ \/ IsSaved(t) /\ t = Topic(client_id, n)
            \/ IsSet(t) /\ t = SetTopic(client_id, n)
<1> DEFINE n == NameIn(t)
<1>1. n \in options /\ n \in Names /\ client_id \in Ids
  BY DEF Routable, TypeOK
<1>2. Len(n) = 1 /\ n[1] = t[3]
  BY DEF NameIn
<1>3. t \in Seq(AllSegments)
  <2>1. PICK id \in Ids, m \in Names : t = Topic(id, m) \/ t = SetTopic(id, m)
    BY TopicsAreTopics
  <2> QED
    BY <2>1, TopicShape, SetTopicShape
<1>4. t[1] = client_id /\ t[2] = "option"
  BY DEF Routable, HasPrefix
<1> HIDE DEF n
<1>5. CASE IsSaved(t)
  <2>1. /\ Topic(client_id, n) \in Seq(AllSegments) /\ Len(Topic(client_id, n)) = 3
        /\ Topic(client_id, n)[1] = client_id /\ Topic(client_id, n)[2] = "option"
        /\ Topic(client_id, n)[3] = n[1]
    <3>1. 1 \in 1..Len(n) /\ 1 + 2 = 3 /\ Len(n) + 2 = 3
      BY <1>2
    <3>2. \A i \in 1..Len(n) : Topic(client_id, n)[i + 2] = n[i]
      BY <1>1, TopicShape
    <3>3. Topic(client_id, n)[3] = n[1]
      BY <3>1, <3>2
    <3> QED
      BY <1>1, <1>2, <3>1, <3>3, TopicShape
  <2>2. Len(t) = 3
    BY <1>5 DEF IsSaved
  <2>3. \A i \in 1..3 : t[i] = Topic(client_id, n)[i]
    BY <1>2, <1>4, <2>1
  <2>4. t = Topic(client_id, n)
    BY <1>3, <2>1, <2>2, <2>3, SeqEqual
  <2> QED
    BY <1>1, <1>2, <1>5, <2>4 DEF n
<1>6. CASE IsSet(t)
  <2>1. /\ SetTopic(client_id, n) \in Seq(AllSegments) /\ Len(SetTopic(client_id, n)) = 4
        /\ SetTopic(client_id, n)[1] = client_id /\ SetTopic(client_id, n)[2] = "option"
        /\ SetTopic(client_id, n)[3] = n[1] /\ SetTopic(client_id, n)[4] = "set"
    <3>1. 1 \in 1..Len(n) /\ 1 + 2 = 3 /\ Len(n) + 3 = 4
      BY <1>2
    <3>2. \A i \in 1..Len(n) : SetTopic(client_id, n)[i + 2] = n[i]
      BY <1>1, SetTopicShape
    <3>3. SetTopic(client_id, n)[3] = n[1]
      BY <3>1, <3>2
    <3>4. SetTopic(client_id, n)[4] = "set"
      BY <1>1, <3>1, SetTopicShape
    <3> QED
      BY <1>1, <1>2, <3>1, <3>3, <3>4, SetTopicShape
  <2>2. Len(t) = 4 /\ t[4] = "set"
    BY <1>6 DEF IsSet
  <2>3. \A i \in 1..4 : t[i] = SetTopic(client_id, n)[i]
    BY <1>2, <1>4, <2>1, <2>2
  <2>4. t = SetTopic(client_id, n)
    BY <1>3, <2>1, <2>2, <2>3, SeqEqual
  <2> QED
    BY <1>1, <1>2, <1>6, <2>4 DEF n
<1> QED
  BY <1>5, <1>6 DEF Routable

\* So that a fitting message is meant for this option.
LEMMA HandledFits ==
  ASSUME TypeOK, NEW m \in Fitting, Routable(m.topic)
  PROVE  Extends(NameIn(m.topic), m.payload)
<1> DEFINE t == m.topic
           v == m.payload
           n == NameIn(t)
<1>1. t \in Topics /\ v \in Names /\ (Stored(t, v) \/ Wished(t, v))
  BY DEF Fitting, Messages
<1>2. /\ n \in Names /\ Len(n) = 1 /\ n[1] = t[3] /\ client_id \in Ids
      /\ \/ IsSaved(t)
         \/ IsSet(t) /\ t = SetTopic(client_id, n)
  BY <1>1, RoutedTopic DEF TypeOK
<1>3. Len(v) \in Nat /\ Len(v) # 0
  BY <1>1, NamesAreSequences
<1> HIDE DEF t, v, n
<1>4. CASE Stored(t, v)
  <2>1. CASE Len(t) = 3
    <3>1. v[1] = t[1 + 2] /\ \A i \in 2..Len(v) : v[i] = "set"
      BY <1>4, <2>1 DEF Stored
    <3> QED
      BY <1>2, <1>3, <3>1 DEF Extends, t, v, n
  <2>2. CASE Len(t) = 4 /\ t[4] = "set"
    <3>1. v[1] = t[1 + 2] /\ v[2] = t[2 + 2] /\ \A i \in 3..Len(v) : v[i] = "set"
      BY <1>4, <2>2 DEF Stored
    <3>2. \A i \in 2..Len(v) : v[i] = "set"
      BY <1>3, <2>2, <3>1
    <3> QED
      BY <1>2, <1>3, <3>1, <3>2 DEF Extends, t, v, n
  <2> QED
    BY <1>2, <2>1, <2>2 DEF IsSaved, IsSet
<1>5. CASE Wished(t, v)
  <2>1. PICK id \in Ids : t = SetTopic(id, v)
    BY <1>5 DEF Wished
  <2>2. Len(t) = Len(v) + 3 /\ \A i \in 1..Len(v) : t[i + 2] = v[i]
    BY <1>1, <2>1, SetTopicShape
  <2>3. Len(v) = 1
    <3>1. Len(t) = 3 \/ Len(t) = 4
      BY <1>2 DEF IsSaved, IsSet
    <3>2. Len(t) = Len(v) + 3
      BY <2>2
    <3>3. \A x \in Nat : x # 0 /\ (x + 3 = 3 \/ x + 3 = 4) => x = 1
      OBVIOUS
    <3> QED
      BY <1>3, <3>1, <3>2, <3>3
  <2>4. 1 \in 1..Len(v) /\ 1 + 2 = 3
    BY <2>3
  <2>5. v[1] = t[3]
    BY <2>2, <2>4
  <2> QED
    BY <1>2, <2>3, <2>5 DEF Extends, t, v, n
<1> QED
  BY <1>1, <1>4, <1>5

-----------------------------------------------------------------------------
(***************************************************************************)
(* No foreign values.                                                      *)
(***************************************************************************)

\* A value that extends the option's name keeps all values fitting.
LEMMA SetValueFits ==
  ASSUME TypeOK, ValuesFit, RetainedFits, NEW n \in options, NEW v \in Names \cup {Undefined},
         NEW queue \in Seq(Fitting), v # Undefined => Extends(n, v), SetValue(n, v, queue)
  PROVE  ValuesFit' /\ RetainedFits' /\ ReceivedFits'
<1> DEFINE t == Topic(client_id, n)
           m == [topic |-> t, payload |-> v]
<1>1. /\ value' = [value EXCEPT ![n] = v]
      /\ retained' = retained \/ (v # Undefined /\ retained' = [retained EXCEPT ![t] = v])
      /\ received' = queue \/ (v # Undefined /\ received' = Append(queue, m))
  BY SetValueEffect
<1>2. n \in Names /\ client_id \in Ids /\ t \in Topics
  BY TopicsAreTopics DEF TypeOK
<1>3. v # Undefined => v \in Names /\ Stored(t, v)
  BY <1>2, PublishedFits
<1>4. v # Undefined => m \in Fitting
  BY <1>2, <1>3 DEF Fitting, Messages
<1> HIDE DEF t, m
<1>5. ValuesFit'
  BY <1>1, <1>2 DEF TypeOK, ValuesFit
<1>6. RetainedFits'
  BY <1>1, <1>2, <1>3 DEF TypeOK, RetainedFits
<1>7. ReceivedFits'
  BY <1>1, <1>4, AppendProperties DEF ReceivedFits
<1> QED
  BY <1>5, <1>6, <1>7

\* The retained messages fit.
LEMMA SubscribeToFits ==
  ASSUME TypeOK, RetainedFits, ReceivedFits, NEW ts \in Seq(Topics), SubscribeTo(ts)
  PROVE  ReceivedFits'
<1>1. /\ RetainedOn(ts) \in Seq(Messages)
      /\ \A i \in DOMAIN RetainedOn(ts) :
           RetainedOn(ts)[i].payload = retained[RetainedOn(ts)[i].topic]
  BY RetainedOnLists
<1>2. ASSUME NEW i \in 1..Len(RetainedOn(ts)) PROVE RetainedOn(ts)[i] \in Fitting
  <2> DEFINE m == RetainedOn(ts)[i]
  <2>1. m \in Messages
    BY <1>1, ElementOfSeq
  <2>2. m.payload = retained[m.topic]
    BY <1>1, LenProperties
  <2> HIDE DEF m
  <2>3. m.topic \in Topics /\ m.payload \in Names /\ m.payload # Undefined
    BY <2>1, NamesAssumption DEF Messages, NamesAssumption
  <2>4. Stored(m.topic, m.payload)
    BY <2>2, <2>3 DEF RetainedFits
  <2> QED
    BY <2>1, <2>4 DEF Fitting, m
<1>3. RetainedOn(ts) \in Seq(Fitting)
  <2>1. Len(RetainedOn(ts)) \in Nat /\ RetainedOn(ts) = [i \in 1..Len(RetainedOn(ts)) |-> RetainedOn(ts)[i]]
    BY <1>1, LenProperties
  <2> QED
    BY <1>2, <2>1, IsASeq
<1> QED
  BY <1>3, ConcatProperties DEF SubscribeTo, ReceivedFits

\* What earlier processes published fits.
LEMMA InitFits == Init => ValuesFit /\ RetainedFits /\ ReceivedFits
<1> SUFFICES ASSUME Init PROVE ValuesFit /\ RetainedFits /\ ReceivedFits
  OBVIOUS
<1>1. ValuesFit
  BY DEF Init, ValuesFit
<1>2. PICK saved \in SUBSET (Ids \X Names) :
        retained = [t \in Topics |->
          IF \E s \in saved : t = Topic(s[1], s[2])
          THEN (CHOOSE s \in saved : t = Topic(s[1], s[2]))[2] ELSE Undefined]
  BY DEF Init
<1>3. ASSUME NEW t \in Topics, retained[t] # Undefined PROVE Stored(t, retained[t])
  <2> DEFINE s == CHOOSE s \in saved : t = Topic(s[1], s[2])
  <2>1. \E r \in saved : t = Topic(r[1], r[2])
    BY <1>2, <1>3
  <2>2. s \in saved /\ t = Topic(s[1], s[2])
    BY <2>1
  <2>3. retained[t] = s[2]
    BY <1>2, <2>1
  <2> HIDE DEF s
  <2>4. s[1] \in Ids /\ s[2] \in Names
    BY <2>2
  <2> QED
    BY <2>2, <2>3, <2>4, ExtendsItself, PublishedFits
<1>4. ReceivedFits
  BY EmptySeq DEF Init, ReceivedFits
<1> QED
  BY <1>1, <1>3, <1>4 DEF RetainedFits

\* Every step keeps all values and messages fitting.
LEMMA FitsInductive ==
  TypeOK /\ ValuesFit /\ RetainedFits /\ ReceivedFits /\ [Next]_vars
    => ValuesFit' /\ RetainedFits' /\ ReceivedFits'
<1> SUFFICES ASSUME TypeOK, ValuesFit, RetainedFits, ReceivedFits, [Next]_vars
             PROVE  ValuesFit' /\ RetainedFits' /\ ReceivedFits'
  OBVIOUS
<1>1. CASE UNCHANGED <<value, retained, received>>
  BY <1>1 DEF ValuesFit, RetainedFits, ReceivedFits
<1>2. ASSUME NEW n \in Names, NEW accept \in BOOLEAN, AddOption(n, accept), phase # "down"
      PROVE  ValuesFit' /\ RetainedFits' /\ ReceivedFits'
  <2>1. Subscriptions(n, accept) \in Seq(Topics)
    BY SubscriptionsList DEF TypeOK
  <2>2. SubscribeTo(Subscriptions(n, accept)) /\ UNCHANGED <<value, retained>>
    BY <1>2 DEF AddOption
  <2> QED
    BY <2>1, <2>2, SubscribeToFits DEF ValuesFit, RetainedFits
<1>3. ASSUME NEW n \in Names, NEW v \in {n, Undefined}, AppSetValue(n, v)
      PROVE  ValuesFit' /\ RetainedFits' /\ ReceivedFits'
  <2>1. n \in options /\ SetValue(n, v, received) /\ (v # Undefined => Extends(n, v))
    BY <1>3, ExtendsItself DEF AppSetValue
  <2> QED
    BY <2>1, SetValueFits DEF ReceivedFits
<1>4. ASSUME NEW id \in Ids, NEW n \in Names, RemoteSet(id, n)
      PROVE  ValuesFit' /\ RetainedFits' /\ ReceivedFits'
  <2> DEFINE m == [topic |-> SetTopic(id, n), payload |-> n]
  <2>1. m \in Fitting
    BY TopicsAreTopics DEF Fitting, Messages, Wished
  <2>2. received' = Append(received, m) /\ UNCHANGED <<value, retained>>
    BY <1>4 DEF RemoteSet
  <2> HIDE DEF m
  <2> QED
    BY <2>1, <2>2, AppendProperties DEF ValuesFit, RetainedFits, ReceivedFits
<1>5. CASE Connected
  <2>1. UNCHANGED value /\ received' = <<>>
    BY <1>5 DEF Connected
  <2>2. ASSUME NEW t \in Topics, retained'[t] # Undefined PROVE Stored(t, retained'[t])
    <3> DEFINE c == CHOOSE n \in Uploads : t = Topic(client_id, n)
    <3>1. CASE \E n \in Uploads : t = Topic(client_id, n)
      <4>1. c \in Uploads /\ t = Topic(client_id, c)
        BY <3>1
      <4>2. retained'[t] = value[c]
        BY <1>5, <3>1 DEF Connected
      <4> HIDE DEF c
      <4>3. c \in Names /\ client_id \in Ids /\ value[c] \in Names /\ Extends(c, value[c])
        BY <4>1 DEF Uploads, TypeOK, ValuesFit
      <4> QED
        BY <4>1, <4>2, <4>3, PublishedFits
    <3>2. CASE ~\E n \in Uploads : t = Topic(client_id, n)
      BY <1>5, <2>2, <3>2 DEF Connected, RetainedFits
    <3> QED
      BY <3>1, <3>2
  <2> QED
    BY <2>1, <2>2, EmptySeq DEF ValuesFit, RetainedFits, ReceivedFits
<1>6. CASE SetupSubscriptions
  <2> DEFINE undefined == {n \in options : value[n] = Undefined}
             ts == FlattenSeq([i \in DOMAIN NameList |->
                     IF NameList[i] \in options
                     THEN Subscriptions(NameList[i], NameList[i] \in undefined) ELSE <<>>])
  <2>1. ts \in Seq(Topics)
    BY AllSubscriptionsList
  <2>2. SubscribeTo(ts) /\ UNCHANGED <<value, retained>>
    BY <1>6 DEF SetupSubscriptions
  <2> HIDE DEF ts
  <2> QED
    BY <2>1, <2>2, SubscribeToFits DEF ValuesFit, RetainedFits
<1>7. CASE Disconnected
  BY <1>7, EmptySeq DEF Disconnected, ValuesFit, RetainedFits, ReceivedFits
<1>8. CASE HandleMessage
  <2> DEFINE t == Head(received).topic
             n == NameIn(t)
             v == Head(received).payload
  <2>1. Head(received) \in Fitting /\ Tail(received) \in Seq(Fitting)
    BY <1>8, ReceivedHeadTail DEF HandleMessage, ReceivedFits
  <2>2. CASE Routable(t) /\ (IsSaved(t) => value[n] = Undefined)
    <3>1. SetValue(n, v, Tail(received))
      BY <1>8, <2>2 DEF HandleMessage
    <3>2. n \in options /\ v \in Names
      BY <2>1, <2>2 DEF Routable, Fitting, Messages
    <3>3. Extends(n, v)
      BY <2>1, <2>2, HandledFits
    <3> HIDE DEF n, v
    <3> QED
      BY <2>1, <3>1, <3>2, <3>3, SetValueFits
  <2>3. CASE ~(Routable(t) /\ (IsSaved(t) => value[n] = Undefined))
    BY <1>8, <2>1, <2>3 DEF HandleMessage, ValuesFit, RetainedFits, ReceivedFits
  <2> QED
    BY <2>2, <2>3
<1> QED
  BY <1>1, <1>2, <1>3, <1>4, <1>5, <1>6, <1>7, <1>8
  DEF Next, SetClientId, AddOption, vars

\* Whatever the names are, and however topics of different options coincide,
\* an option gets no value but its own and those of n/set, n/set/set ...
THEOREM ForeignValuesRefused == Spec => []NoForeignValues
<1>1. TypeOK /\ ValuesFit => NoForeignValues
  <2> SUFFICES ASSUME TypeOK, ValuesFit, NEW n \in Names, value[n] # Undefined
               PROVE  /\ IsPrefix(n, value[n])
                      /\ \A i \in Len(n) + 1..Len(value[n]) : value[n][i] = "set"
    BY DEF NoForeignValues
  <2> DEFINE v == value[n]
  <2>1. v \in Names /\ Extends(n, v)
    BY DEF TypeOK, ValuesFit
  <2> HIDE DEF v
  <2>2. n \in Seq(Segments) /\ v \in Seq(Segments) /\ Len(n) \in Nat /\ Len(v) \in Nat
    BY <2>1, NamesAreSequences
  <2>3. SubSeq(n, 1, Len(n)) = SubSeq(v, 1, Len(n))
    BY <2>1, <2>2 DEF Extends
  <2> QED
    BY <2>1, <2>3 DEF Extends, IsPrefix, v
<1> QED
  BY <1>1, InitTypeOK, NextTypeOK, InitFits, FitsInductive, PTL DEF Spec

-----------------------------------------------------------------------------
(***************************************************************************)
(* Subscriptions and publications under the id in force.                   *)
(***************************************************************************)

\* An option that was not added has no value.
FreshNames == \A n \in Names \ options : value[n] = Undefined

\* The first half of PlainNamesAreHeard.
SubscribedUnderTheId ==
  phase = "session" /\ ~renamed =>
    \A n \in options : SetTopic(client_id, n) \in subs \/ Append(n, "set") \in options

\* Every step keeps FreshNames.
LEMMA FreshInductive ==
  /\ Init => FreshNames
  /\ TypeOK /\ FreshNames /\ [Next]_vars => FreshNames'
<1>1. Init => FreshNames
  BY DEF Init, FreshNames
<1> SUFFICES ASSUME TypeOK, FreshNames, [Next]_vars PROVE FreshNames'
  BY <1>1
<1>2. CASE options \subseteq options' /\ value' = value
  BY <1>2 DEF FreshNames
<1>3. ASSUME NEW n \in options, NEW v, NEW queue, SetValue(n, v, queue), options' = options
      PROVE  FreshNames'
  BY <1>3 DEF SetValue, FreshNames, TypeOK
<1>4. ASSUME NEW n \in Names, NEW v \in {n, Undefined}, AppSetValue(n, v) PROVE FreshNames'
  BY <1>3, <1>4 DEF AppSetValue
<1>5. CASE HandleMessage
  BY <1>2, <1>3, <1>5 DEF HandleMessage, Routable
<1> QED
  BY <1>2, <1>4, <1>5
  DEF Next, SetClientId, AddOption, RemoteSet, Connected, SetupSubscriptions, Disconnected, vars

\* A value that is set while connected is published under the id in force.
LEMMA SetValuePublished ==
  ASSUME TypeOK, PublishedUnderTheId, NEW n \in options, NEW v \in Names \cup {Undefined},
         NEW queue, SetValue(n, v, queue), UNCHANGED <<client_id, phase, options, renamed>>
  PROVE  PublishedUnderTheId'
<1> SUFFICES ASSUME phase # "down", ~renamed, NEW i \in options, value'[i] # Undefined
             PROVE  retained'[Topic(client_id, i)] = value'[i]
  BY DEF PublishedUnderTheId
<1> DEFINE t == Topic(client_id, n)
<1>1. /\ value' = [value EXCEPT ![n] = v]
      /\ retained' = retained \/ (v # Undefined /\ retained' = [retained EXCEPT ![t] = v])
      /\ v \notin {value[n], Undefined} => retained' = [retained EXCEPT ![t] = v]
  BY SetValueEffect
<1>2. n \in Names /\ i \in Names /\ client_id \in Ids /\ Topic(client_id, i) \in Topics
  BY TopicsAreTopics DEF TypeOK
<1>3. Topic(client_id, i) = t => i = n
  BY <1>2, TopicInjective
<1>4. value[i] # Undefined => retained[Topic(client_id, i)] = value[i]
  BY DEF PublishedUnderTheId
<1>5. t \in Topics
  BY <1>2, TopicsAreTopics
<1> HIDE DEF t
<1>6. CASE i = n
  <2>1. value'[i] = v /\ v # Undefined
    BY <1>1, <1>2, <1>6 DEF TypeOK
  <2>2. CASE v = value[n]
    BY <1>1, <1>2, <1>4, <1>5, <1>6, <2>1, <2>2 DEF TypeOK, t
  <2>3. CASE v # value[n]
    BY <1>1, <1>5, <1>6, <2>1, <2>3 DEF TypeOK, t
  <2> QED
    BY <2>2, <2>3
<1>7. CASE i # n
  <2>1. value'[i] = value[i]
    BY <1>1, <1>2, <1>7 DEF TypeOK
  <2>2. retained'[Topic(client_id, i)] = retained[Topic(client_id, i)]
    BY <1>1, <1>2, <1>3, <1>7 DEF TypeOK
  <2> QED
    BY <1>4, <2>1, <2>2
<1> QED
  BY <1>6, <1>7

\* Every step keeps PublishedUnderTheId.
LEMMA PublishedInductive ==
  /\ Init => PublishedUnderTheId
  /\ TypeOK /\ FreshNames /\ PublishedUnderTheId /\ [Next]_vars => PublishedUnderTheId'
<1>1. Init => PublishedUnderTheId
  BY DEF Init, PublishedUnderTheId
<1> SUFFICES ASSUME TypeOK, FreshNames, PublishedUnderTheId, [Next]_vars
             PROVE  PublishedUnderTheId'
  BY <1>1
<1>2. CASE phase' = "down" \/ renamed'
  BY <1>2 DEF PublishedUnderTheId
<1>3. CASE UNCHANGED <<client_id, options, value, retained, renamed>> /\ phase # "down"
  BY <1>3 DEF PublishedUnderTheId
<1>4. ASSUME NEW n \in Names, NEW accept \in BOOLEAN, AddOption(n, accept)
      PROVE  PublishedUnderTheId'
  BY <1>4 DEF AddOption, FreshNames, PublishedUnderTheId
<1>5. ASSUME NEW n \in Names, NEW v \in {n, Undefined}, AppSetValue(n, v)
      PROVE  PublishedUnderTheId'
  BY <1>5, SetValuePublished DEF AppSetValue
<1>6. CASE Connected
  <2> SUFFICES ASSUME NEW i \in options, value[i] # Undefined
               PROVE  retained'[Topic(client_id, i)] = value[i]
    BY <1>6 DEF Connected, PublishedUnderTheId
  <2> DEFINE t == Topic(client_id, i)
             c == CHOOSE n \in Uploads : t = Topic(client_id, n)
  <2>1. i \in Uploads /\ i \in Names /\ client_id \in Ids /\ t \in Topics
    BY TopicsAreTopics DEF Uploads, TypeOK
  <2>2. c \in Uploads /\ t = Topic(client_id, c)
    BY <2>1
  <2>3. retained'[t] = value[c]
    BY <1>6, <2>1 DEF Connected
  <2> HIDE DEF c
  <2>4. c = i
    BY <2>1, <2>2, TopicInjective DEF Uploads, TypeOK
  <2> QED
    BY <2>3, <2>4
<1>7. CASE HandleMessage
  <2> DEFINE t == Head(received).topic
             n == NameIn(t)
             v == Head(received).payload
  <2>1. Head(received) \in Messages /\ phase # "down"
        /\ UNCHANGED <<client_id, phase, options, renamed>>
    BY <1>7, ReceivedHeadTail DEF HandleMessage, TypeOK, Messages
  <2>2. CASE Routable(t) /\ (IsSaved(t) => value[n] = Undefined)
    <3>1. n \in options /\ v \in Names /\ SetValue(n, v, Tail(received))
      BY <1>7, <2>1, <2>2 DEF HandleMessage, Routable, Messages
    <3> HIDE DEF n, v
    <3> QED
      BY <2>1, <3>1, SetValuePublished
  <2>3. CASE ~(Routable(t) /\ (IsSaved(t) => value[n] = Undefined))
    BY <1>3, <1>7, <2>1, <2>3 DEF HandleMessage
  <2> QED
    BY <2>2, <2>3
<1> QED
  BY <1>2, <1>3, <1>4, <1>5, <1>6, <1>7
  DEF Next, SetClientId, RemoteSet, SetupSubscriptions, Disconnected, vars, PublishedUnderTheId

\* While connected, if the id has not changed since the connection was made, the
\* broker holds the values of all options under it, whatever their names.
THEOREM ValuesPublished == Spec => []PublishedUnderTheId
BY InitTypeOK, NextTypeOK, FreshInductive, PublishedInductive, PTL DEF Spec

\* Setting an option cancels no subscription but that of n for n/set.
LEMMA SetValueSubscribed ==
  ASSUME TypeOK, SubscribedUnderTheId, NEW n \in options, NEW v \in Names \cup {Undefined},
         NEW queue, SetValue(n, v, queue), UNCHANGED <<client_id, phase, options, renamed>>
  PROVE  SubscribedUnderTheId'
<1> SUFFICES ASSUME phase = "session", ~renamed, NEW i \in options, Append(i, "set") \notin options
             PROVE  SetTopic(client_id, i) \in subs'
  BY DEF SubscribedUnderTheId
<1>1. subs' = subs \/ subs' = subs \ {Topic(client_id, n)}
  BY SetValueEffect
<1>2. SetTopic(client_id, i) \in subs
  BY DEF SubscribedUnderTheId
<1>3. Topic(client_id, n) # SetTopic(client_id, i)
  BY SetTopicOfAnother DEF TypeOK
<1> QED
  BY <1>1, <1>2, <1>3

\* Every step keeps SubscribedUnderTheId.
LEMMA SubscribedInductive ==
  /\ Init => SubscribedUnderTheId
  /\ TypeOK /\ SubscribedUnderTheId /\ [Next]_vars => SubscribedUnderTheId'
<1>1. Init => SubscribedUnderTheId
  BY DEF Init, SubscribedUnderTheId
<1> SUFFICES ASSUME TypeOK, SubscribedUnderTheId, [Next]_vars PROVE SubscribedUnderTheId'
  BY <1>1
<1>2. CASE phase' # "session" \/ renamed'
  BY <1>2 DEF SubscribedUnderTheId
<1>3. CASE UNCHANGED <<client_id, phase, options, subs, renamed>>
  BY <1>3 DEF SubscribedUnderTheId
<1>4. ASSUME NEW n \in Names, NEW accept \in BOOLEAN, AddOption(n, accept), phase = "session"
      PROVE  SubscribedUnderTheId'
  <2>1. SetTopic(client_id, n) \in ToSet(Subscriptions(n, accept))
    BY SubscriptionsList DEF TypeOK
  <2>2. subs' = subs \cup ToSet(Subscriptions(n, accept)) /\ options' = options \cup {n}
        /\ UNCHANGED <<client_id, phase, renamed>>
    BY <1>4 DEF AddOption, SubscribeTo
  <2> QED
    BY <2>1, <2>2 DEF SubscribedUnderTheId
<1>5. ASSUME NEW n \in Names, NEW v \in {n, Undefined}, AppSetValue(n, v)
      PROVE  SubscribedUnderTheId'
  BY <1>5, SetValueSubscribed DEF AppSetValue
<1>6. CASE SetupSubscriptions
  <2> DEFINE undefined == {n \in options : value[n] = Undefined}
             ts == FlattenSeq([i \in DOMAIN NameList |->
                     IF NameList[i] \in options
                     THEN Subscriptions(NameList[i], NameList[i] \in undefined) ELSE <<>>])
  <2>1. \A n \in options : SetTopic(client_id, n) \in ToSet(ts)
    BY AllSubscriptionsList
  <2>2. subs' = subs \cup ToSet(ts) /\ UNCHANGED <<client_id, options>>
    BY <1>6 DEF SetupSubscriptions, SubscribeTo
  <2> HIDE DEF ts
  <2> QED
    BY <2>1, <2>2 DEF SubscribedUnderTheId
<1>7. CASE HandleMessage
  <2> DEFINE t == Head(received).topic
             n == NameIn(t)
             v == Head(received).payload
  <2>1. Head(received) \in Messages /\ UNCHANGED <<client_id, phase, options, renamed>>
    BY <1>7, ReceivedHeadTail DEF HandleMessage, TypeOK, Messages
  <2>2. CASE Routable(t) /\ (IsSaved(t) => value[n] = Undefined)
    <3>1. n \in options /\ v \in Names /\ SetValue(n, v, Tail(received))
      BY <1>7, <2>1, <2>2 DEF HandleMessage, Routable, Messages
    <3> HIDE DEF n, v
    <3> QED
      BY <2>1, <3>1, SetValueSubscribed
  <2>3. CASE ~(Routable(t) /\ (IsSaved(t) => value[n] = Undefined))
    BY <1>3, <1>7, <2>1, <2>3 DEF HandleMessage
  <2> QED
    BY <2>2, <2>3
<1> QED
  BY <1>2, <1>3, <1>4, <1>5, <1>6, <1>7
  DEF Next, SetClientId, AddOption, RemoteSet, Connected, Disconnected, vars

\* The topic on which an option is set leads handleMessage to it if and only
\* if its name has one segment.
LEMMA PlainNamesAreRoutable ==
  ASSUME TypeOK, NEW n \in options
  PROVE  LET t == SetTopic(client_id, n) IN IsPlain(n) <=> Routable(t) /\ NameIn(t) = n
<1> DEFINE t == SetTopic(client_id, n)
<1>1. n \in Names /\ client_id \in Ids
  BY DEF TypeOK
<1>2. n \in Seq(Segments) /\ Len(n) \in Nat /\ Len(n) # 0
  BY <1>1, NamesAreSequences
<1>3. /\ Len(t) = Len(n) + 3 /\ t[1] = client_id /\ t[2] = "option"
      /\ \A i \in 1..Len(n) : t[i + 2] = n[i]
      /\ t[Len(n) + 3] = "set"
  BY <1>1, SetTopicShape
<1> HIDE DEF t
<1>4. t[3] = n[1]
  <2>1. 1 \in 1..Len(n) /\ 1 + 2 = 3
    BY <1>2
  <2> QED
    BY <1>3, <2>1
<1>5. CASE Len(n) = 1
  <2>1. Len(t) = 4 /\ t[4] = "set"
    <3>1. Len(n) + 3 = 4
      BY <1>5
    <3> QED
      BY <1>3, <3>1
  <2>2. Len(<<n[1]>>) = 1 /\ <<n[1]>>[1] = n[1] /\ <<n[1]>> \in Seq({n[1]})
    OBVIOUS
  <2>3. n = <<n[1]>>
    BY <1>2, <1>5
  <2> QED
    BY <1>3, <1>4, <1>5, <2>1, <2>3 DEF IsPlain, Routable, HasPrefix, IsSet, NameIn, t
<1>6. CASE Len(n) # 1
  <2>1. Len(t) # 3 /\ Len(t) # 4
    <3>1. \A x \in Nat : x \notin {0, 1} => x + 3 # 3 /\ x + 3 # 4
      OBVIOUS
    <3> QED
      BY <1>2, <1>3, <1>6, <3>1
  <2> QED
    BY <1>6, <2>1 DEF IsPlain, Routable, IsSet, IsSaved, t
<1> QED
  BY <1>5, <1>6

\* In a session without a change of id, each option is subscribed to on /set,
\* unless there is one named n/set, and what comes there is routed to it exactly
\* if its name is plain.
THEOREM PlainNamesHeard == Spec => []PlainNamesAreHeard
<1>1. TypeOK /\ SubscribedUnderTheId => PlainNamesAreHeard
  BY PlainNamesAreRoutable DEF SubscribedUnderTheId, PlainNamesAreHeard
<1> QED
  BY <1>1, InitTypeOK, NextTypeOK, SubscribedInductive, PTL DEF Spec

\* Whatever the id was when a message was sent, only messages under the id in
\* force change an option, and they change the one whose topic it is.
THEOREM EarlierIdsUnheard == Spec => EarlierIdsAreNotHeard
<1> DEFINE Heard == \A n \in Names : HandleMessage /\ value'[n] # value[n] =>
                      Head(received).topic \in {Topic(client_id, n), SetTopic(client_id, n)}
<1>1. TypeOK /\ [Next]_vars => [Heard]_vars
  <2> SUFFICES ASSUME TypeOK, NEW n \in Names, HandleMessage, value'[n] # value[n]
               PROVE  Head(received).topic \in {Topic(client_id, n), SetTopic(client_id, n)}
    OBVIOUS
  <2> DEFINE t == Head(received).topic
  <2>1. t \in Topics
    BY ReceivedHeadTail DEF HandleMessage, TypeOK
  <2>2. Routable(t) /\ SetValue(NameIn(t), Head(received).payload, Tail(received))
    BY DEF HandleMessage
  <2>3. n = NameIn(t)
    BY <2>2 DEF SetValue, TypeOK
  <2> QED
    BY <2>1, <2>2, <2>3, RoutedTopic
<1> QED
  BY <1>1, InitTypeOK, NextTypeOK, PTL DEF Spec, EarlierIdsAreNotHeard
=============================================================================
