--------------------------- MODULE ValidatorProofs ---------------------------
(***************************************************************************)
(* Validators that are written and read, for every depth of nesting, every *)
(* file system, every set of strings and every width of the flags' field.  *)
(***************************************************************************)
EXTENDS Validators, SequenceTheorems, FiniteSetTheorems, WellFoundedInduction, TLAPS

-----------------------------------------------------------------------------
(***************************************************************************)
(* Induction, with the set of the numbers that have a property instead of  *)
(* the property.                                                           *)
(***************************************************************************)

\* A set with 0 and with the successor of each natural in it has them all.
LEMMA NaturalInduction ==
  ASSUME NEW T, 0 \in T, \A n \in Nat : n \in T => n + 1 \in T
  PROVE  \A n \in Nat : n \in T
<1> DEFINE R == {ss \in Nat \X Nat : ss[1] < ss[2]}
           F == Nat \ T
<1>1. IsWellFoundedOn(OpToRel(<, Nat), Nat)
  BY NatLessThanWellFounded
<1>2. R = OpToRel(<, Nat)
  BY DEF OpToRel
<1>3. IsWellFoundedOn(R, Nat)
  BY <1>1, <1>2
<1>4. ASSUME F # {} PROVE FALSE
  <2> HIDE DEF R
  <2>1. PICK x \in F : \A y \in F : ~(<<y, x>> \in R)
    <3>1. F \subseteq Nat
      OBVIOUS
    <3> HIDE DEF F
    <3> QED
      BY <1>3, <1>4, <3>1, WFMin
  <2>2. x \in Nat /\ x # 0
    OBVIOUS
  <2>3. x - 1 \in Nat /\ (x - 1) + 1 = x
    BY <2>2
  <2>4. x - 1 \in F
    BY <2>3
  <2>5. <<x - 1, x>> \in R
    BY <2>2, <2>3 DEF R
  <2> QED
    BY <2>1, <2>4, <2>5
<1> QED
  BY <1>4

-----------------------------------------------------------------------------
(***************************************************************************)
(* ReadList, which keeps in order what could be read.                      *)
(***************************************************************************)

\* The function inside FlattenSeq exists, for each length.
LEMMA FlattenExists ==
  ASSUME NEW ss
  PROVE  \A n \in Nat : \E f : f = [i \in 1..n |-> IF i = 1 THEN ss[i] ELSE f[i - 1] \o ss[i]]
<1> DEFINE Flattens(f, k) == f = [i \in 1..k |-> IF i = 1 THEN ss[i] ELSE f[i - 1] \o ss[i]]
           T == {k \in Nat : \E f : Flattens(f, k)}
<1>1. 0 \in T
  <2> DEFINE g == [i \in 1..0 |-> ss[i]]
  <2>1. Flattens(g, 0)
    OBVIOUS
  <2>2. \E f : Flattens(f, 0)
    <3> HIDE DEF g, Flattens
    <3> QED
      BY <2>1
  <2> QED
    BY <2>2
<1>2. ASSUME NEW n \in Nat, n \in T PROVE n + 1 \in T
  <2>1. PICK f : Flattens(f, n)
    BY <1>2
  <2> DEFINE g == [i \in 1..n + 1 |->
                     IF i <= n THEN f[i] ELSE IF i = 1 THEN ss[i] ELSE f[i - 1] \o ss[i]]
  <2>2. \A i \in 1..n + 1 : g[i] = IF i = 1 THEN ss[i] ELSE g[i - 1] \o ss[i]
    <3> SUFFICES ASSUME NEW i \in 1..n + 1
                 PROVE  g[i] = IF i = 1 THEN ss[i] ELSE g[i - 1] \o ss[i]
      OBVIOUS
    <3>1. i # 1 => i - 1 \in 1..n
      OBVIOUS
    <3>2. i # 1 => g[i - 1] = f[i - 1]
      BY <3>1
    <3>3. i <= n => f[i] = IF i = 1 THEN ss[i] ELSE f[i - 1] \o ss[i]
      <4> HIDE DEF g, T
      <4>1. \A k \in 1..n : f[k] = IF k = 1 THEN ss[k] ELSE f[k - 1] \o ss[k]
        BY <2>1
      <4> QED
        BY <4>1
    <3> QED
      BY <3>2, <3>3
  <2>3. g = [i \in 1..n + 1 |-> g[i]]
    OBVIOUS
  <2> HIDE DEF g
  <2>4. Flattens(g, n + 1)
    BY <2>2, <2>3
  <2>5. \E h : Flattens(h, n + 1)
    <3> HIDE DEF Flattens
    <3> QED
      BY <2>4
  <2>6. n + 1 \in Nat
    OBVIOUS
  <2> HIDE DEF Flattens
  <2> QED
    BY <2>5, <2>6
<1> HIDE DEF T
<1>3. \A n \in Nat : n \in T
  BY <1>1, <1>2, NaturalInduction
<1> QED
  BY <1>3 DEF T

\* What the loop has kept, q, of the first k results read.
Kept(S, read, k, q) ==
  /\ q \in Seq(S) /\ Len(q) <= k
  /\ \A m \in 1..Len(q) : \E i \in 1..k : q[m] = read[i] /\ read[i] # NullPtr
  /\ \A i \in 1..k : read[i] # NullPtr => \E m \in 1..Len(q) : q[m] = read[i]
  /\ (\A i \in 1..k : read[i] # NullPtr) => (Len(q) = k /\ \A i \in 1..k : q[i] = read[i])
  /\ (\E i \in 1..k : read[i] = NullPtr) => Len(q) # k

\* One more result, that is skipped or appended.
LEMMA KeptNext ==
  ASSUME NEW S, NEW read, NEW k \in Nat, NEW p, Kept(S, read, k, p),
         NEW r \in Seq(S),
         read[k + 1] = NullPtr => Len(r) = 0,
         read[k + 1] # NullPtr => Len(r) = 1 /\ r[1] = read[k + 1]
  PROVE  Kept(S, read, k + 1, p \o r)
<1> DEFINE q == p \o r
<1>1. /\ q \in Seq(S) /\ Len(q) = Len(p) + Len(r) /\ Len(p) \in Nat
      /\ \A i \in 1..Len(p) + Len(r) : q[i] = IF i <= Len(p) THEN p[i] ELSE r[i - Len(p)]
  BY ConcatProperties, LenProperties DEF Kept
<1>2. 1..k + 1 = (1..k) \cup {k + 1}
  OBVIOUS
<1> HIDE DEF q
<1>3. CASE read[k + 1] = NullPtr
  <2>1. Len(q) = Len(p) /\ \A i \in 1..Len(p) : q[i] = p[i]
    BY <1>1, <1>3
  <2>2. Len(q) <= k + 1 /\ Len(q) # k + 1 /\ k + 1 \in 1..k + 1
    BY <1>1, <2>1 DEF Kept
  <2>3. \A m \in 1..Len(q) : \E i \in 1..k + 1 : q[m] = read[i] /\ read[i] # NullPtr
    BY <1>2, <2>1 DEF Kept
  <2>4. \A i \in 1..k + 1 : read[i] # NullPtr => \E m \in 1..Len(q) : q[m] = read[i]
    BY <1>2, <1>3, <2>1 DEF Kept
  <2> QED
    BY <1>1, <1>3, <2>2, <2>3, <2>4 DEF Kept, q
<1>4. CASE read[k + 1] # NullPtr
  <2>1. Len(q) = Len(p) + 1 /\ q[Len(p) + 1] = read[k + 1] /\ \A i \in 1..Len(p) : q[i] = p[i]
    BY <1>1, <1>4
  <2>2. 1..Len(q) = (1..Len(p)) \cup {Len(p) + 1}
    BY <1>1, <2>1
  <2>3. Len(p) <= k /\ Len(q) <= k + 1 /\ (Len(p) # k => Len(q) # k + 1)
    BY <1>1, <2>1 DEF Kept
  <2>4. ASSUME NEW m \in 1..Len(q)
        PROVE  \E i \in 1..k + 1 : q[m] = read[i] /\ read[i] # NullPtr
    <3>1. CASE m = Len(p) + 1
      BY <1>2, <1>4, <2>1, <3>1
    <3>2. CASE m \in 1..Len(p)
      <4>1. PICK i \in 1..k : p[m] = read[i] /\ read[i] # NullPtr
        BY <3>2 DEF Kept
      <4> QED
        BY <1>2, <2>1, <3>2, <4>1
    <3> QED
      BY <2>2, <3>1, <3>2
  <2>5. ASSUME NEW i \in 1..k + 1, read[i] # NullPtr
        PROVE  \E m \in 1..Len(q) : q[m] = read[i]
    <3>1. CASE i = k + 1
      BY <2>1, <2>2, <3>1
    <3>2. CASE i \in 1..k
      <4>1. PICK m \in 1..Len(p) : p[m] = read[i]
        BY <2>5, <3>2 DEF Kept
      <4> QED
        BY <2>1, <2>2, <4>1
    <3> QED
      BY <1>2, <3>1, <3>2
  <2>6. ASSUME \A i \in 1..k + 1 : read[i] # NullPtr
        PROVE  Len(q) = k + 1 /\ \A i \in 1..k + 1 : q[i] = read[i]
    <3>1. Len(p) = k /\ \A i \in 1..k : p[i] = read[i]
      BY <1>2, <2>6 DEF Kept
    <3> QED
      BY <1>2, <2>1, <3>1
  <2>7. (\E i \in 1..k + 1 : read[i] = NullPtr) => Len(q) # k + 1
    BY <1>2, <1>4, <2>3 DEF Kept
  <2> QED
    BY <1>1, <2>3, <2>4, <2>5, <2>6, <2>7 DEF Kept, q
<1> QED
  BY <1>3, <1>4

\* What ReadList keeps: all that is not NullPtr, and everything if nothing is.
LEMMA ReadListKeeps ==
  ASSUME NEW S, NEW n \in Nat, NEW read, DOMAIN read = 1..n,
         \A i \in 1..n : read[i] \in S \cup {NullPtr}
  PROVE  Kept(S, read, n, ReadList(read))
<1> DEFINE ss == [i \in 1..n |-> IF read[i] = NullPtr THEN <<>> ELSE <<read[i]>>]
<1>1. ReadList(read) = FlattenSeq(ss) /\ Len(ss) = n
  BY DEF ReadList
<1>2. ASSUME NEW i \in 1..n
      PROVE  /\ ss[i] \in Seq(S)
             /\ read[i] = NullPtr => Len(ss[i]) = 0
             /\ read[i] # NullPtr => Len(ss[i]) = 1 /\ ss[i][1] = read[i]
  <2>1. ss[i] = IF read[i] = NullPtr THEN <<>> ELSE <<read[i]>>
    OBVIOUS
  <2> HIDE DEF ss
  <2> QED
    BY <2>1
<1>3. Kept(S, read, 0, <<>>)
  BY DEF Kept
<1>4. CASE n = 0
  <2>1. ReadList(read) = ss /\ ss = <<>>
    BY <1>1, <1>4 DEF FlattenSeq
  <2> QED
    BY <1>3, <1>4, <2>1
<1>5. CASE n # 0
  <2> DEFINE f == CHOOSE f : f = [i \in 1..n |-> IF i = 1 THEN ss[i] ELSE f[i - 1] \o ss[i]]
             T == {k \in Nat : k + 1 <= n => Kept(S, read, k + 1, f[k + 1])}
  <2> HIDE DEF ss
  <2>1. ReadList(read) = f[n]
    BY <1>1, <1>5 DEF FlattenSeq
  <2>2. f = [i \in 1..n |-> IF i = 1 THEN ss[i] ELSE f[i - 1] \o ss[i]]
    BY FlattenExists
  <2> HIDE DEF f
  <2>3. \A i \in 1..n : f[i] = IF i = 1 THEN ss[i] ELSE f[i - 1] \o ss[i]
    BY <2>2
  <2>4. 0 \in T
    <3>1. f[1] = ss[1] /\ 1 \in 1..n /\ ss[1] \in Seq(S)
      BY <1>2, <1>5, <2>3
    <3>2. <<>> \o ss[1] = ss[1]
      BY <3>1
    <3>3. Kept(S, read, 1, <<>> \o ss[1])
      <4> DEFINE z == 0
      <4>1. z \in Nat /\ z + 1 = 1 /\ Kept(S, read, z, <<>>)
        BY <1>3
      <4> HIDE DEF z
      <4>2. Kept(S, read, z + 1, <<>> \o ss[1])
        BY <1>2, <3>1, <4>1, KeptNext
      <4> QED
        BY <4>1, <4>2
    <3> QED
      BY <3>1, <3>2, <3>3
  <2>5. ASSUME NEW k \in Nat, k \in T PROVE k + 1 \in T
    <3>1. CASE (k + 1) + 1 <= n
      <4>1. k + 1 \in Nat /\ (k + 1) + 1 \in 1..n /\ (k + 1) + 1 # 1
        BY <3>1
      <4>2. Kept(S, read, k + 1, f[k + 1])
        BY <2>5, <3>1
      <4> DEFINE m == k + 1
      <4> HIDE DEF m
      <4>3. f[m + 1] = f[m] \o ss[m + 1]
        <5>1. m + 1 \in 1..n /\ m + 1 # 1 /\ (m + 1) - 1 = m
          BY <4>1 DEF m
        <5> QED
          BY <2>3, <5>1
      <4>4. Kept(S, read, m + 1, f[m] \o ss[m + 1])
        BY <1>2, <4>1, <4>2, KeptNext DEF m
      <4>5. Kept(S, read, (k + 1) + 1, f[(k + 1) + 1])
        BY <4>3, <4>4 DEF m
      <4> QED
        BY <4>1, <4>5
    <3>2. CASE ~((k + 1) + 1 <= n)
      BY <3>2
    <3> QED
      BY <3>1, <3>2
  <2> HIDE DEF T
  <2>6. n - 1 \in Nat /\ (n - 1) + 1 = n
    BY <1>5
  <2>7. n - 1 \in T
    BY <2>4, <2>5, <2>6, NaturalInduction
  <2>8. Kept(S, read, n, f[n])
    BY <2>6, <2>7 DEF T
  <2> QED
    BY <2>1, <2>8
<1> QED
  BY <1>4, <1>5

-----------------------------------------------------------------------------
(***************************************************************************)
(* Nesting.  Nested and Json are recursive functions of the depth; in      *)
(* Under(n) and JsonUnder(n) is what nests less than n deep.               *)
(***************************************************************************)
Under(n) == IF n = 0 THEN {} ELSE Nested[n - 1]
JsonUnder(n) == IF n = 0 THEN {} ELSE Json[n - 1]

\* A sequence over a set is one over any larger set.
LEMMA SeqGrows ==
  ASSUME NEW S, NEW T, S \subseteq T
  PROVE  Seq(S) \subseteq Seq(T)
<1> SUFFICES ASSUME NEW q \in Seq(S) PROVE q \in Seq(T)
  OBVIOUS
<1>1. Len(q) \in Nat /\ q \in [1..Len(q) -> S]
  BY LenProperties
<1>2. q \in [1..Len(q) -> T]
  BY <1>1
<1> QED
  BY <1>1, <1>2, SeqDef

\* Validators over a set are validators over any larger set.
LEMMA ValidatorsOverGrows ==
  ASSUME NEW S, NEW T, S \subseteq T
  PROVE  ValidatorsOver(S) \subseteq ValidatorsOver(T)
BY SeqGrows DEF ValidatorsOver

\* JSON values over a set are JSON values over any larger set.
LEMMA JsonOverGrows ==
  ASSUME NEW S, NEW T, S \subseteq T
  PROVE  JsonOver(S) \subseteq JsonOver(T)
<1>1. [JsonKeys -> S \cup {Undefined}] \subseteq [JsonKeys -> T \cup {Undefined}]
  OBVIOUS
<1> QED
  BY <1>1, SeqGrows DEF JsonOver

\* The function Nested exists, and is what its definition says.
LEMMA NestedUnfolds ==
  \A n \in 0..Depth + 1 : Nested[n] = ValidatorsOver(IF n = 0 THEN {} ELSE Nested[n - 1])
<1> DEFINE Nests(f, k) == f = [n \in 0..k |-> ValidatorsOver(IF n = 0 THEN {} ELSE f[n - 1])]
           T == {k \in Nat : \E f : Nests(f, k)}
<1>1. 0 \in T
  <2> DEFINE g == [n \in 0..0 |-> ValidatorsOver({})]
  <2>1. Nests(g, 0)
    OBVIOUS
  <2>2. \E f : Nests(f, 0)
    <3> HIDE DEF g, Nests
    <3> QED
      BY <2>1
  <2> QED
    BY <2>2
<1>2. ASSUME NEW k \in Nat, k \in T PROVE k + 1 \in T
  <2>1. PICK f : Nests(f, k)
    BY <1>2
  <2> DEFINE g == [n \in 0..k + 1 |-> ValidatorsOver(IF n = 0 THEN {} ELSE f[n - 1])]
  <2>2. \A n \in 0..k : f[n] = ValidatorsOver(IF n = 0 THEN {} ELSE f[n - 1])
    BY <2>1
  <2>3. \A n \in 0..k + 1 : n # 0 => n - 1 \in 0..k /\ n - 1 \in 0..k + 1
    OBVIOUS
  <2>4. \A n \in 0..k : g[n] = f[n]
    BY <2>2
  <2>5. \A n \in 0..k + 1 : g[n] = ValidatorsOver(IF n = 0 THEN {} ELSE g[n - 1])
    BY <2>3, <2>4
  <2>6. g = [n \in 0..k + 1 |-> g[n]]
    OBVIOUS
  <2> HIDE DEF g
  <2>7. Nests(g, k + 1)
    BY <2>5, <2>6
  <2> HIDE DEF Nests
  <2>8. (\E h : Nests(h, k + 1)) /\ k + 1 \in Nat
    BY <2>7
  <2> QED
    BY <2>8
<1> HIDE DEF T
<1>3. Depth + 1 \in T
  BY <1>1, <1>2, NaturalInduction, ValidatorsAssumption DEF ValidatorsAssumption
<1>4. \E f : Nests(f, Depth + 1)
  BY <1>3 DEF T
<1>5. Nests(Nested, Depth + 1)
  BY <1>4 DEF Nested
<1> QED
  BY <1>5

\* The function Json exists, and is what its definition says.
LEMMA JsonUnfolds ==
  \A n \in 0..JsonDepth(Depth + 1) : Json[n] = JsonOver(IF n = 0 THEN {} ELSE Json[n - 1])
<1> DEFINE Nests(f, k) == f = [n \in 0..k |-> JsonOver(IF n = 0 THEN {} ELSE f[n - 1])]
           T == {k \in Nat : \E f : Nests(f, k)}
<1>1. 0 \in T
  <2> DEFINE g == [n \in 0..0 |-> JsonOver({})]
  <2>1. Nests(g, 0)
    OBVIOUS
  <2>2. \E f : Nests(f, 0)
    <3> HIDE DEF g, Nests
    <3> QED
      BY <2>1
  <2> QED
    BY <2>2
<1>2. ASSUME NEW k \in Nat, k \in T PROVE k + 1 \in T
  <2>1. PICK f : Nests(f, k)
    BY <1>2
  <2> DEFINE g == [n \in 0..k + 1 |-> JsonOver(IF n = 0 THEN {} ELSE f[n - 1])]
  <2>2. \A n \in 0..k : f[n] = JsonOver(IF n = 0 THEN {} ELSE f[n - 1])
    BY <2>1
  <2>3. \A n \in 0..k + 1 : n # 0 => n - 1 \in 0..k /\ n - 1 \in 0..k + 1
    OBVIOUS
  <2>4. \A n \in 0..k : g[n] = f[n]
    BY <2>2
  <2>5. \A n \in 0..k + 1 : g[n] = JsonOver(IF n = 0 THEN {} ELSE g[n - 1])
    BY <2>3, <2>4
  <2>6. g = [n \in 0..k + 1 |-> g[n]]
    OBVIOUS
  <2> HIDE DEF g
  <2>7. Nests(g, k + 1)
    BY <2>5, <2>6
  <2> HIDE DEF Nests
  <2>8. (\E h : Nests(h, k + 1)) /\ k + 1 \in Nat
    BY <2>7
  <2> QED
    BY <2>8
<1> HIDE DEF T
<1>3. JsonDepth(Depth + 1) \in T
  <2>1. JsonDepth(Depth + 1) \in Nat
    BY ValidatorsAssumption DEF ValidatorsAssumption, JsonDepth
  <2> QED
    BY <1>1, <1>2, <2>1, NaturalInduction
<1>4. \E f : Nests(f, JsonDepth(Depth + 1))
  BY <1>3 DEF T
<1>5. Nests(Json, JsonDepth(Depth + 1))
  BY <1>4 DEF Json
<1> QED
  BY <1>5

\* What nests deeper is made of what nests less deep, and includes it.
LEMMA UnderGrows ==
  ASSUME NEW n \in 0..Depth + 1
  PROVE  /\ Under(n + 1) = ValidatorsOver(Under(n))
         /\ \A m \in 0..n + 1 : Under(m) \subseteq Under(n + 1)
<1> DEFINE D == Depth + 1
           T == {k \in Nat : k <= D =>
                   /\ Under(k) \subseteq Under(k + 1)
                   /\ \A m \in 0..k + 1 : Under(m) \subseteq Under(k + 1)}
<1>1. D \in Nat
  BY ValidatorsAssumption DEF ValidatorsAssumption
<1>2. ASSUME NEW k \in 0..D PROVE Under(k + 1) = ValidatorsOver(Under(k))
  <2>1. k + 1 # 0 /\ (k + 1) - 1 = k
    BY <1>1
  <2> QED
    BY <2>1, NestedUnfolds DEF Under
<1> HIDE DEF D
<1>3. 0 \in T
  <2>1. Under(0) = {}
    BY DEF Under
  <2>2. \A m \in 0..0 + 1 : m = 0 \/ m = 0 + 1
    OBVIOUS
  <2> QED
    BY <2>1, <2>2
<1>4. ASSUME NEW k \in Nat, k \in T PROVE k + 1 \in T
  <2> SUFFICES ASSUME k + 1 <= D
               PROVE  /\ Under(k + 1) \subseteq Under((k + 1) + 1)
                      /\ \A m \in 0..(k + 1) + 1 : Under(m) \subseteq Under((k + 1) + 1)
    OBVIOUS
  <2>1. k \in 0..D /\ k + 1 \in 0..D
    BY <1>1
  <2>2. /\ Under(k) \subseteq Under(k + 1)
        /\ \A m \in 0..k + 1 : Under(m) \subseteq Under(k + 1)
    BY <1>4, <2>1
  <2>3. /\ Under(k + 1) = ValidatorsOver(Under(k))
        /\ Under((k + 1) + 1) = ValidatorsOver(Under(k + 1))
    BY <1>2, <2>1
  <2>4. Under(k + 1) \subseteq Under((k + 1) + 1)
    BY <2>2, <2>3, ValidatorsOverGrows
  <2>5. \A m \in 0..(k + 1) + 1 : m \in 0..k + 1 \/ m = (k + 1) + 1
    OBVIOUS
  <2> QED
    BY <2>2, <2>4, <2>5
<1> HIDE DEF T
<1>5. n \in Nat /\ n \in 0..D /\ n \in T
  BY <1>1, <1>3, <1>4, NaturalInduction DEF D
<1> QED
  BY <1>1, <1>2, <1>5 DEF T

\* The same for JSON values.
LEMMA JsonUnderGrows ==
  ASSUME NEW n \in 0..JsonDepth(Depth + 1)
  PROVE  /\ JsonUnder(n + 1) = JsonOver(JsonUnder(n))
         /\ \A m \in 0..n + 1 : JsonUnder(m) \subseteq JsonUnder(n + 1)
<1> DEFINE D == JsonDepth(Depth + 1)
           T == {k \in Nat : k <= D =>
                   /\ JsonUnder(k) \subseteq JsonUnder(k + 1)
                   /\ \A m \in 0..k + 1 : JsonUnder(m) \subseteq JsonUnder(k + 1)}
<1>1. D \in Nat
  BY ValidatorsAssumption DEF ValidatorsAssumption, JsonDepth
<1>2. ASSUME NEW k \in 0..D PROVE JsonUnder(k + 1) = JsonOver(JsonUnder(k))
  <2>1. k + 1 # 0 /\ (k + 1) - 1 = k
    BY <1>1
  <2> QED
    BY <2>1, JsonUnfolds DEF JsonUnder
<1> HIDE DEF D
<1>3. 0 \in T
  <2>1. JsonUnder(0) = {}
    BY DEF JsonUnder
  <2>2. \A m \in 0..0 + 1 : m = 0 \/ m = 0 + 1
    OBVIOUS
  <2> QED
    BY <2>1, <2>2
<1>4. ASSUME NEW k \in Nat, k \in T PROVE k + 1 \in T
  <2> SUFFICES ASSUME k + 1 <= D
               PROVE  /\ JsonUnder(k + 1) \subseteq JsonUnder((k + 1) + 1)
                      /\ \A m \in 0..(k + 1) + 1 : JsonUnder(m) \subseteq JsonUnder((k + 1) + 1)
    OBVIOUS
  <2>1. k \in 0..D /\ k + 1 \in 0..D
    BY <1>1
  <2>2. /\ JsonUnder(k) \subseteq JsonUnder(k + 1)
        /\ \A m \in 0..k + 1 : JsonUnder(m) \subseteq JsonUnder(k + 1)
    BY <1>4, <2>1
  <2>3. /\ JsonUnder(k + 1) = JsonOver(JsonUnder(k))
        /\ JsonUnder((k + 1) + 1) = JsonOver(JsonUnder(k + 1))
    BY <1>2, <2>1
  <2>4. JsonUnder(k + 1) \subseteq JsonUnder((k + 1) + 1)
    BY <2>2, <2>3, JsonOverGrows
  <2>5. \A m \in 0..(k + 1) + 1 : m \in 0..k + 1 \/ m = (k + 1) + 1
    OBVIOUS
  <2> QED
    BY <2>2, <2>4, <2>5
<1> HIDE DEF T
<1>5. n \in Nat /\ n \in 0..D /\ n \in T
  BY <1>1, <1>3, <1>4, NaturalInduction DEF D
<1> QED
  BY <1>1, <1>2, <1>5 DEF T

\* The limits of the model's domains.
LEMMA Limits ==
  /\ Depth \in Nat
  /\ Validators = Under(Depth + 2) /\ Nested[Depth] = Under(Depth + 1)
  /\ Jsons = JsonUnder(2 * Depth + 6) /\ Json[JsonDepth(Depth)] = JsonUnder(2 * Depth + 4)
  /\ \A n \in 0..Depth + 2 : Under(n) \subseteq Validators
  /\ \A n \in 0..2 * Depth + 6 : JsonUnder(n) \subseteq Jsons
<1>1. Depth \in Nat
  BY ValidatorsAssumption DEF ValidatorsAssumption
<1>2. JsonDepth(Depth + 1) = 2 * Depth + 5 /\ JsonDepth(Depth) = 2 * Depth + 3
  BY <1>1 DEF JsonDepth
<1>3. Validators = Under(Depth + 2) /\ Nested[Depth] = Under(Depth + 1)
  <2>1. /\ Depth + 2 # 0 /\ (Depth + 2) - 1 = Depth + 1
        /\ Depth + 1 # 0 /\ (Depth + 1) - 1 = Depth
    BY <1>1
  <2> QED
    BY <2>1 DEF Under, Validators
<1>4. Jsons = JsonUnder(2 * Depth + 6) /\ Json[JsonDepth(Depth)] = JsonUnder(2 * Depth + 4)
  <2>1. /\ 2 * Depth + 6 # 0 /\ (2 * Depth + 6) - 1 = 2 * Depth + 5
        /\ 2 * Depth + 4 # 0 /\ (2 * Depth + 4) - 1 = 2 * Depth + 3
    BY <1>1
  <2> QED
    BY <1>2, <2>1 DEF JsonUnder, Jsons
<1>5. \A n \in 0..Depth + 2 : Under(n) \subseteq Validators
  <2>1. Depth + 1 \in 0..Depth + 1 /\ (Depth + 1) + 1 = Depth + 2
    BY <1>1
  <2> QED
    BY <1>3, <2>1, UnderGrows
<1>6. \A n \in 0..2 * Depth + 6 : JsonUnder(n) \subseteq Jsons
  <2>1. 2 * Depth + 5 \in 0..JsonDepth(Depth + 1) /\ (2 * Depth + 5) + 1 = 2 * Depth + 6
    BY <1>1, <1>2
  <2> QED
    BY <1>4, <2>1, JsonUnderGrows
<1> QED
  BY <1>1, <1>3, <1>4, <1>5, <1>6

-----------------------------------------------------------------------------
(***************************************************************************)
(* What validators and JSON values are made of.                            *)
(***************************************************************************)
Strings3 == {"Option", "StringPrefix", "StringSuffix"}

\* The members of a validator, by its class.
LEMMA Classes ==
  ASSUME NEW S, NEW v \in ValidatorsOver(S)
  PROVE  \/ v = Dummy /\ v.class = "Dummy"
         \/ v.class = "SingleType" /\ v.field \in TypeNames /\ v = SingleType(v.field)
         \/ v.class = "Types" /\ v.field \in SUBSET TypeNames /\ v = Types(v.field)
         \/ /\ v.class \in Strings3 /\ v.strings \in SUBSET Strings /\ IsFiniteSet(v.strings)
            /\ v = Strs(v.class, v.strings)
         \/ v.class = "Path" /\ v \in Paths
         \/ v.class = "Any" /\ v.items \in Seq(S) /\ v = AnyOf(v.items)
         \/ v.class = "All" /\ v.items \in Seq(S) /\ v = AllOf(v.items)
         \/ v.class = "ListItem" /\ v.item \in S /\ v = ListItem(v.item)
<1>1. CASE v = Dummy
  BY <1>1 DEF Dummy
<1>2. CASE v \in [class : {"SingleType"}, field : TypeNames]
  BY <1>2 DEF SingleType
<1>3. CASE v \in [class : {"Types"}, field : SUBSET TypeNames]
  BY <1>3 DEF Types
<1>4. CASE v \in [class : Strings3, strings : {s \in SUBSET Strings : IsFiniteSet(s)}]
  BY <1>4 DEF Strs
<1>5. CASE v \in Paths
  BY <1>5 DEF Paths
<1>6. CASE v \in [class : {"Any", "All"}, items : Seq(S)]
  BY <1>6 DEF AnyOf, AllOf
<1>7. CASE v \in [class : {"ListItem"}, item : S]
  BY <1>7 DEF ListItem
<1> QED
  BY <1>1, <1>2, <1>3, <1>4, <1>5, <1>6, <1>7 DEF ValidatorsOver, Strings3

\* The validators that readers make.
LEMMA Constructors ==
  ASSUME NEW S
  PROVE  /\ Dummy \in ValidatorsOver(S)
         /\ \A f \in SUBSET TypeNames : Types(f) \in ValidatorsOver(S)
         /\ \A c \in Strings3, s \in SUBSET Strings :
              IsFiniteSet(s) => Strs(c, s) \in ValidatorsOver(S)
         /\ Paths \subseteq ValidatorsOver(S)
         /\ \A q \in Seq(S) : AnyOf(q) \in ValidatorsOver(S) /\ AllOf(q) \in ValidatorsOver(S)
         /\ \A w \in S : ListItem(w) \in ValidatorsOver(S)
BY DEF ValidatorsOver, Types, Strs, AnyOf, AllOf, ListItem, Strings3

\* The members of a JSON value, by its type.
LEMMA JsonTypes ==
  ASSUME NEW S, NEW j \in JsonOver(S)
  PROVE  \/ j = Null
         \/ j.type = "Bool" /\ j.bool \in BOOLEAN
         \/ j.type = "Double" /\ j.integral \in BOOLEAN /\ j.number \in Int /\ (~j.integral => j.number = 0)
         \/ j.type = "String" /\ j.str \in Strings
         \/ j.type = "Array" /\ j.items \in Seq(S)
         \/ j.type = "Object" /\ \A k \in JsonKeys : Member(j, k) \in S \cup {Undefined}
<1>1. CASE j = Null
  BY <1>1
<1>2. CASE j = Fraction
  BY <1>2 DEF Fraction
<1>3. CASE j \in [type : {"Bool"}, bool : BOOLEAN]
  BY <1>3
<1>4. CASE j \in [type : {"Double"}, integral : {TRUE}, number : Int]
  BY <1>4
<1>5. CASE j \in [type : {"String"}, str : Strings]
  BY <1>5
<1>6. CASE j \in [type : {"Array"}, items : Seq(S)]
  BY <1>6
<1>7. CASE j \in [type : {"Object"}, fields : [JsonKeys -> S \cup {Undefined}]]
  BY <1>7 DEF Member
<1> QED
  BY <1>1, <1>2, <1>3, <1>4, <1>5, <1>6, <1>7 DEF JsonOver

\* The JSON values that writers make.
LEMMA JsonConstructors ==
  ASSUME NEW S
  PROVE  /\ Null \in JsonOver(S)
         /\ \A b \in BOOLEAN : Bool(b) \in JsonOver(S)
         /\ \A n \in Int : Number(n) \in JsonOver(S)
         /\ \A s \in Strings : String(s) \in JsonOver(S)
         /\ \A q \in Seq(S) : Array(q) \in JsonOver(S)
BY DEF JsonOver, Bool, Number, String, Array

\* An object whose members are in S, or are not there.
LEMMA ObjectOver ==
  ASSUME NEW S, NEW g, \A k \in DOMAIN g : g[k] \in S \cup {Undefined}
  PROVE  /\ Object(g) \in JsonOver(S)
         /\ \A k \in JsonKeys : Member(Object(g), k) = IF k \in DOMAIN g THEN g[k] ELSE Undefined
<1> DEFINE h == [k \in JsonKeys |-> IF k \in DOMAIN g THEN g[k] ELSE Undefined]
<1>1. h \in [JsonKeys -> S \cup {Undefined}]
  OBVIOUS
<1>2. Object(g) = [type |-> "Object", fields |-> h]
  BY DEF Object
<1> HIDE DEF h
<1>3. Object(g) \in JsonOver(S)
  <2>1. Object(g) \in [type : {"Object"}, fields : [JsonKeys -> S \cup {Undefined}]]
    BY <1>1, <1>2
  <2> QED
    BY <2>1 DEF JsonOver
<1>4. \A k \in JsonKeys : Member(Object(g), k) = h[k]
  BY <1>2 DEF Member
<1> QED
  BY <1>3, <1>4 DEF h

-----------------------------------------------------------------------------
(***************************************************************************)
(* The recursive functions exist: what each is for a validator depends on  *)
(* what it is for the items.  ...Body is the definition with the function  *)
(* as a parameter.                                                         *)
(***************************************************************************)
SerializeBody(f, v) ==
  CASE v.class = "Dummy" -> Object([dummy |-> Null])
    [] v.class = "SingleType" -> Object([type |-> String(v.field)])
    [] v.class = "Types" -> WriteTypes(v)
    [] v.class = "Path" -> WritePath(v)
    [] v.class = "Option" -> WriteOption(v)
    [] v.class = "StringPrefix" -> Object([prefix |-> Null])
    [] v.class = "StringSuffix" -> Object([suffix |-> Null])
    [] v.class = "Any" ->
         Object([any |-> Array([i \in DOMAIN v.items |-> f[v.items[i]]])])
    [] v.class = "All" ->
         Object([all |-> Array([i \in DOMAIN v.items |-> f[v.items[i]]])])
    [] v.class = "ListItem" -> Object([list |-> f[v.item]])

TransmissibleBody(f, v) ==
  CASE v.class = "Dummy" -> TRUE
    [] v.class = "Types" -> v.field # {}
    [] v.class = "Option" -> v.strings # {}
    [] v.class = "Path" -> OrderedBounds(v)
    [] v.class \in {"Any", "All"} ->
         v.items # <<>> /\ \A i \in DOMAIN v.items : f[v.items[i]]
    [] OTHER -> FALSE

StringlessBody(f, v) ==
  CASE v.class \in {"StringPrefix", "StringSuffix"} -> FALSE
    [] v.class \in {"Any", "All"} -> \A i \in DOMAIN v.items : f[v.items[i]]
    [] OTHER -> TRUE

\* The items of a sequence are in the set that it is over.
LEMMA ItemsIn ==
  ASSUME NEW S, NEW q \in Seq(S)
  PROVE  DOMAIN q = 1..Len(q) /\ Len(q) \in Nat /\ \A i \in DOMAIN q : q[i] \in S
BY LenProperties

\* Only the items count.
LEMMA SerializeLocal ==
  ASSUME NEW S, NEW v \in ValidatorsOver(S), NEW f, NEW h, \A w \in S : f[w] = h[w]
  PROVE  SerializeBody(f, v) = SerializeBody(h, v)
<1>1. CASE v.class \in {"Any", "All"}
  <2>1. \A i \in DOMAIN v.items : v.items[i] \in S
    BY <1>1, Classes, ItemsIn DEF Dummy, Strings3
  <2>2. [i \in DOMAIN v.items |-> f[v.items[i]]] = [i \in DOMAIN v.items |-> h[v.items[i]]]
    BY <2>1
  <2> QED
    BY <1>1, <2>2 DEF SerializeBody
<1>2. CASE v.class = "ListItem"
  <2>1. v.item \in S
    BY <1>2, Classes DEF Dummy, Strings3
  <2> QED
    BY <1>2, <2>1 DEF SerializeBody
<1>3. CASE v.class \notin {"Any", "All", "ListItem"}
  <2>1. v.class \in {"Dummy", "SingleType", "Types", "Path"} \cup Strings3
    BY <1>3, Classes
  <2> QED
    BY <2>1 DEF SerializeBody, Strings3
<1> QED
  BY <1>1, <1>2, <1>3

\* Only the items count.
LEMMA TransmissibleLocal ==
  ASSUME NEW S, NEW v \in ValidatorsOver(S), NEW f, NEW h, \A w \in S : f[w] = h[w]
  PROVE  TransmissibleBody(f, v) = TransmissibleBody(h, v)
<1>1. CASE v.class \in {"Any", "All"}
  <2>1. \A i \in DOMAIN v.items : v.items[i] \in S
    BY <1>1, Classes, ItemsIn DEF Dummy, Strings3
  <2>2. (\A i \in DOMAIN v.items : f[v.items[i]]) <=> (\A i \in DOMAIN v.items : h[v.items[i]])
    BY <2>1
  <2> QED
    BY <1>1, <2>2 DEF TransmissibleBody
<1>2. CASE v.class \notin {"Any", "All"}
  BY <1>2 DEF TransmissibleBody
<1> QED
  BY <1>1, <1>2

\* Only the items count.
LEMMA StringlessLocal ==
  ASSUME NEW S, NEW v \in ValidatorsOver(S), NEW f, NEW h, \A w \in S : f[w] = h[w]
  PROVE  StringlessBody(f, v) = StringlessBody(h, v)
<1>1. CASE v.class \in {"Any", "All"}
  <2>1. \A i \in DOMAIN v.items : v.items[i] \in S
    BY <1>1, Classes, ItemsIn DEF Dummy, Strings3
  <2>2. (\A i \in DOMAIN v.items : f[v.items[i]]) <=> (\A i \in DOMAIN v.items : h[v.items[i]])
    BY <2>1
  <2> QED
    BY <1>1, <2>2 DEF StringlessBody
<1>2. CASE v.class \notin {"Any", "All"}
  BY <1>2 DEF StringlessBody
<1> QED
  BY <1>1, <1>2

\* serializeToJson of a validator.
LEMMA SerializeUnfolds ==
  \A v \in Validators : Serialize[v] = SerializeBody(Serialize, v)
<1> DEFINE Defines(f, k) == f = [v \in Under(k) |-> SerializeBody(f, v)]
           T == {k \in Nat : k <= Depth + 2 => \E f : Defines(f, k)}
<1>1. 0 \in T
  <2> DEFINE g == [v \in {} |-> v]
  <2>1. Under(0) = {}
    BY DEF Under
  <2>2. Defines(g, 0)
    BY <2>1
  <2>3. \E f : Defines(f, 0)
    <3> HIDE DEF g, Defines
    <3> QED
      BY <2>2
  <2> QED
    BY <2>3
<1>2. ASSUME NEW k \in Nat, k \in T PROVE k + 1 \in T
  <2> SUFFICES ASSUME k + 1 <= Depth + 2 PROVE \E f : Defines(f, k + 1)
    <3> HIDE DEF Defines
    <3> QED
      OBVIOUS
  <2>1. k <= Depth + 2 /\ k \in 0..Depth + 1
    BY Limits
  <2>2. \E f : Defines(f, k)
    <3> HIDE DEF Defines
    <3> QED
      BY <1>2, <2>1
  <2>3. PICK f : Defines(f, k)
    BY <2>2
  <2> DEFINE g == [v \in Under(k + 1) |-> SerializeBody(f, v)]
  <2>4. Under(k + 1) = ValidatorsOver(Under(k)) /\ Under(k) \subseteq Under(k + 1)
    <3>1. k \in 0..k + 1
      OBVIOUS
    <3> QED
      BY <2>1, <3>1, UnderGrows
  <2>5. \A v \in Under(k) : f[v] = SerializeBody(f, v)
    BY <2>3
  <2>6. \A v \in Under(k) : f[v] = g[v]
    BY <2>4, <2>5
  <2>7. ASSUME NEW v \in Under(k + 1) PROVE g[v] = SerializeBody(g, v)
    <3>1. g[v] = SerializeBody(f, v)
      OBVIOUS
    <3> HIDE DEF g
    <3>2. SerializeBody(f, v) = SerializeBody(g, v)
      BY <2>4, <2>6, SerializeLocal
    <3> QED
      BY <3>1, <3>2
  <2>8. g = [v \in Under(k + 1) |-> g[v]]
    OBVIOUS
  <2> HIDE DEF g
  <2>9. Defines(g, k + 1)
    BY <2>7, <2>8
  <2> HIDE DEF Defines
  <2> QED
    BY <2>9
<1> HIDE DEF T
<1>3. Depth + 2 \in Nat /\ Depth + 2 \in T
  BY <1>1, <1>2, NaturalInduction, Limits
<1>4. \E f : f = [v \in Validators |-> SerializeBody(f, v)]
  BY <1>3, Limits DEF T
<1>5. Serialize = [v \in Validators |-> SerializeBody(Serialize, v)]
  BY <1>4 DEF Serialize, SerializeBody
<1> QED
  BY <1>5

\* Whether a validator survives the way.
LEMMA TransmissibleUnfolds ==
  \A v \in Validators : Transmissible[v] = TransmissibleBody(Transmissible, v)
<1> DEFINE Defines(f, k) == f = [v \in Under(k) |-> TransmissibleBody(f, v)]
           T == {k \in Nat : k <= Depth + 2 => \E f : Defines(f, k)}
<1>1. 0 \in T
  <2> DEFINE g == [v \in {} |-> v]
  <2>1. Under(0) = {}
    BY DEF Under
  <2>2. Defines(g, 0)
    BY <2>1
  <2>3. \E f : Defines(f, 0)
    <3> HIDE DEF g, Defines
    <3> QED
      BY <2>2
  <2> QED
    BY <2>3
<1>2. ASSUME NEW k \in Nat, k \in T PROVE k + 1 \in T
  <2> SUFFICES ASSUME k + 1 <= Depth + 2 PROVE \E f : Defines(f, k + 1)
    <3> HIDE DEF Defines
    <3> QED
      OBVIOUS
  <2>1. k <= Depth + 2 /\ k \in 0..Depth + 1
    BY Limits
  <2>2. \E f : Defines(f, k)
    <3> HIDE DEF Defines
    <3> QED
      BY <1>2, <2>1
  <2>3. PICK f : Defines(f, k)
    BY <2>2
  <2> DEFINE g == [v \in Under(k + 1) |-> TransmissibleBody(f, v)]
  <2>4. Under(k + 1) = ValidatorsOver(Under(k)) /\ Under(k) \subseteq Under(k + 1)
    <3>1. k \in 0..k + 1
      OBVIOUS
    <3> QED
      BY <2>1, <3>1, UnderGrows
  <2>5. \A v \in Under(k) : f[v] = TransmissibleBody(f, v)
    BY <2>3
  <2>6. \A v \in Under(k) : f[v] = g[v]
    BY <2>4, <2>5
  <2>7. ASSUME NEW v \in Under(k + 1) PROVE g[v] = TransmissibleBody(g, v)
    <3>1. g[v] = TransmissibleBody(f, v)
      OBVIOUS
    <3> HIDE DEF g
    <3>2. TransmissibleBody(f, v) = TransmissibleBody(g, v)
      BY <2>4, <2>6, TransmissibleLocal
    <3> QED
      BY <3>1, <3>2
  <2>8. g = [v \in Under(k + 1) |-> g[v]]
    OBVIOUS
  <2> HIDE DEF g
  <2>9. Defines(g, k + 1)
    BY <2>7, <2>8
  <2> HIDE DEF Defines
  <2> QED
    BY <2>9
<1> HIDE DEF T
<1>3. Depth + 2 \in Nat /\ Depth + 2 \in T
  BY <1>1, <1>2, NaturalInduction, Limits
<1>4. \E f : f = [v \in Validators |-> TransmissibleBody(f, v)]
  BY <1>3, Limits DEF T
<1>5. Transmissible = [v \in Validators |-> TransmissibleBody(Transmissible, v)]
  BY <1>4 DEF Transmissible, TransmissibleBody
<1> QED
  BY <1>5

\* Whether a validator contains no StringPrefix and no StringSuffix.
LEMMA StringlessUnfolds ==
  \A v \in Validators : Stringless[v] = StringlessBody(Stringless, v)
<1> DEFINE Defines(f, k) == f = [v \in Under(k) |-> StringlessBody(f, v)]
           T == {k \in Nat : k <= Depth + 2 => \E f : Defines(f, k)}
<1>1. 0 \in T
  <2> DEFINE g == [v \in {} |-> v]
  <2>1. Under(0) = {}
    BY DEF Under
  <2>2. Defines(g, 0)
    BY <2>1
  <2>3. \E f : Defines(f, 0)
    <3> HIDE DEF g, Defines
    <3> QED
      BY <2>2
  <2> QED
    BY <2>3
<1>2. ASSUME NEW k \in Nat, k \in T PROVE k + 1 \in T
  <2> SUFFICES ASSUME k + 1 <= Depth + 2 PROVE \E f : Defines(f, k + 1)
    <3> HIDE DEF Defines
    <3> QED
      OBVIOUS
  <2>1. k <= Depth + 2 /\ k \in 0..Depth + 1
    BY Limits
  <2>2. \E f : Defines(f, k)
    <3> HIDE DEF Defines
    <3> QED
      BY <1>2, <2>1
  <2>3. PICK f : Defines(f, k)
    BY <2>2
  <2> DEFINE g == [v \in Under(k + 1) |-> StringlessBody(f, v)]
  <2>4. Under(k + 1) = ValidatorsOver(Under(k)) /\ Under(k) \subseteq Under(k + 1)
    <3>1. k \in 0..k + 1
      OBVIOUS
    <3> QED
      BY <2>1, <3>1, UnderGrows
  <2>5. \A v \in Under(k) : f[v] = StringlessBody(f, v)
    BY <2>3
  <2>6. \A v \in Under(k) : f[v] = g[v]
    BY <2>4, <2>5
  <2>7. ASSUME NEW v \in Under(k + 1) PROVE g[v] = StringlessBody(g, v)
    <3>1. g[v] = StringlessBody(f, v)
      OBVIOUS
    <3> HIDE DEF g
    <3>2. StringlessBody(f, v) = StringlessBody(g, v)
      BY <2>4, <2>6, StringlessLocal
    <3> QED
      BY <3>1, <3>2
  <2>8. g = [v \in Under(k + 1) |-> g[v]]
    OBVIOUS
  <2> HIDE DEF g
  <2>9. Defines(g, k + 1)
    BY <2>7, <2>8
  <2> HIDE DEF Defines
  <2> QED
    BY <2>9
<1> HIDE DEF T
<1>3. Depth + 2 \in Nat /\ Depth + 2 \in T
  BY <1>1, <1>2, NaturalInduction, Limits
<1>4. \E f : f = [v \in Validators |-> StringlessBody(f, v)]
  BY <1>3, Limits DEF T
<1>5. Stringless = [v \in Validators |-> StringlessBody(Stringless, v)]
  BY <1>4 DEF Stringless, StringlessBody
<1> QED
  BY <1>5

-----------------------------------------------------------------------------
(***************************************************************************)
(* The same for validate, deserializeFromJson and Keeps.                   *)
(***************************************************************************)
AcceptsBody(f, v) == [j \in Jsons |->
  CASE v.class = "Dummy" -> TRUE
    [] v.class = "SingleType" -> HasType(j, v.field)
    [] v.class = "Types" -> \E t \in v.field : HasType(j, t)
    [] v.class = "Path" -> j.type = "String" /\ AcceptsPath(v, j.str)
    [] v.class \in {"Option", "StringPrefix", "StringSuffix"} ->
         j.type = "String" /\ AcceptsString(v, j.str)
    [] v.class = "Any" -> \E i \in DOMAIN v.items : f[v.items[i]][j]
    [] v.class = "All" -> \A i \in DOMAIN v.items : f[v.items[i]][j]
    [] v.class = "ListItem" ->
         j.type = "Array" /\ \A i \in DOMAIN j.items : f[v.item][j.items[i]]]

KeepsBody(f, v) == [class \in {"Any", "All"} |->
  v.class \in {"Any", "All"} => \A i \in DOMAIN v.items :
    /\ f[v.items[i]][class]
    /\ v.class = class => Deserialize[Serialize[v.items[i]]] # NullPtr]

DeserializeBody(f, j) ==
  IF Matching(j) = {} THEN NullPtr
  ELSE LET body == Member(j, FirstKey(j))
       IN ReadBody(FirstKey(j), body, [i \in DOMAIN body.items |-> f[body.items[i]]])

\* The items of an array are JSON values.
LEMMA JsonItems ==
  ASSUME NEW j \in Jsons, j.type = "Array"
  PROVE  /\ DOMAIN j.items = 1..Len(j.items) /\ Len(j.items) \in Nat
         /\ \A i \in DOMAIN j.items : j.items[i] \in Jsons
<1>1. 2 * Depth + 5 \in 0..JsonDepth(Depth + 1) /\ (2 * Depth + 5) + 1 = 2 * Depth + 6
  BY Limits DEF JsonDepth
<1>2. j \in JsonOver(JsonUnder(2 * Depth + 5))
  BY <1>1, JsonUnderGrows, Limits
<1>3. j.items \in Seq(JsonUnder(2 * Depth + 5))
  BY <1>2, JsonTypes DEF Null
<1>4. JsonUnder(2 * Depth + 5) \subseteq Jsons
  BY Limits
<1> QED
  BY <1>3, <1>4, ItemsIn

\* Only the items count.
LEMMA AcceptsLocal ==
  ASSUME NEW S, NEW v \in ValidatorsOver(S), NEW f, NEW h, \A w \in S : f[w] = h[w]
  PROVE  AcceptsBody(f, v) = AcceptsBody(h, v)
<1>1. CASE v.class \in {"Any", "All"}
  <2>1. \A i \in DOMAIN v.items : f[v.items[i]] = h[v.items[i]]
    BY <1>1, Classes, ItemsIn DEF Dummy, Strings3
  <2>2. \A j \in Jsons :
          /\ (\A i \in DOMAIN v.items : f[v.items[i]][j]) = (\A i \in DOMAIN v.items : h[v.items[i]][j])
          /\ (\E i \in DOMAIN v.items : f[v.items[i]][j]) = (\E i \in DOMAIN v.items : h[v.items[i]][j])
    BY <2>1
  <2> QED
    BY <1>1, <2>2 DEF AcceptsBody
<1>2. CASE v.class = "ListItem"
  <2>1. f[v.item] = h[v.item]
    BY <1>2, Classes DEF Dummy, Strings3
  <2> QED
    BY <1>2, <2>1 DEF AcceptsBody
<1>3. CASE v.class \notin {"Any", "All", "ListItem"}
  <2>1. v.class \in {"Dummy", "SingleType", "Types", "Path"} \cup Strings3
    BY <1>3, Classes
  <2> QED
    BY <2>1 DEF AcceptsBody, Strings3
<1> QED
  BY <1>1, <1>2, <1>3

\* Only the items count.
LEMMA KeepsLocal ==
  ASSUME NEW S, NEW v \in ValidatorsOver(S), NEW f, NEW h, \A w \in S : f[w] = h[w]
  PROVE  KeepsBody(f, v) = KeepsBody(h, v)
<1>1. CASE v.class \in {"Any", "All"}
  <2>1. \A i \in DOMAIN v.items : f[v.items[i]] = h[v.items[i]]
    BY <1>1, Classes, ItemsIn DEF Dummy, Strings3
  <2> QED
    BY <2>1 DEF KeepsBody
<1>2. CASE v.class \notin {"Any", "All"}
  BY <1>2 DEF KeepsBody
<1> QED
  BY <1>1, <1>2

\* The key that decides is one that is read, and holds a value of its type.
LEMMA FirstKeyMatches ==
  ASSUME NEW j, Matching(j) # {}
  PROVE  /\ FirstKey(j) \in {"dummy", "types", "path", "options", "prefix", "suffix", "any", "all"}
         /\ FirstKey(j) \in JsonKeys
         /\ Member(j, FirstKey(j)).type = BodyType[FirstKey(j)]
<1>1. DOMAIN Keys = {1, 2, 3, 4, 5, 6, 7, 8}
  BY DEF Keys
<1>2. Matching(j) \subseteq {1, 2, 3, 4, 5, 6, 7, 8}
  BY <1>1 DEF Matching
<1>3. \A i \in {1, 2, 3, 4, 5, 6, 7, 8} : Keys[i] \in
        {"dummy", "types", "path", "options", "prefix", "suffix", "any", "all"}
  BY DEF Keys
<1> DEFINE M == Matching(j)
<1> HIDE DEF M
<1>4. \E i \in M : \A k \in M : i <= k
  BY <1>2 DEF M
<1>5. PICK i \in Matching(j) : FirstKey(j) = Keys[i]
  BY <1>4 DEF FirstKey, M
<1>6. Member(j, Keys[i]).type = BodyType[Keys[i]]
  BY DEF Matching
<1> QED
  BY <1>2, <1>3, <1>5, <1>6 DEF JsonKeys

\* Only what is inside counts.
LEMMA DeserializeLocal ==
  ASSUME NEW S, S \subseteq JsonOver(S), NEW j \in JsonOver(S), NEW f, NEW h,
         \A w \in S : f[w] = h[w]
  PROVE  DeserializeBody(f, j) = DeserializeBody(h, j)
<1>1. CASE Matching(j) = {}
  BY <1>1 DEF DeserializeBody
<1>2. CASE Matching(j) # {}
  <2> DEFINE key == FirstKey(j)
             body == Member(j, FirstKey(j))
             F == [i \in DOMAIN body.items |-> f[body.items[i]]]
             H == [i \in DOMAIN body.items |-> h[body.items[i]]]
  <2>1. DeserializeBody(f, j) = ReadBody(key, body, F) /\ DeserializeBody(h, j) = ReadBody(key, body, H)
    BY <1>2 DEF DeserializeBody
  <2>2. /\ key \in {"dummy", "types", "path", "options", "prefix", "suffix", "any", "all"}
        /\ key \in JsonKeys /\ body.type = BodyType[key]
    BY <1>2, FirstKeyMatches
  <2>3. CASE key \in {"any", "all"}
    <3>1. body.type = "Array"
      BY <2>2, <2>3 DEF BodyType
    <3>2. body \in S
      <4>1. j.type = "Object"
        BY <3>1 DEF Member, Undefined
      <4>2. body \in S \cup {Undefined}
        BY <2>2, <4>1, JsonTypes DEF Null
      <4> QED
        BY <3>1, <4>2 DEF Undefined
    <3>3. body.items \in Seq(S)
      BY <3>1, <3>2, JsonTypes DEF Null
    <3>4. \A i \in DOMAIN body.items : body.items[i] \in S
      BY <3>3, ItemsIn
    <3> HIDE DEF body
    <3>5. F = H
      BY <3>4
    <3> QED
      BY <2>1, <3>5
  <2>4. CASE key \notin {"any", "all"}
    <3> HIDE DEF key, body, F, H
    <3> QED
      BY <2>1, <2>2, <2>4 DEF ReadBody
  <2> QED
    BY <2>3, <2>4
<1> QED
  BY <1>1, <1>2

\* validate of a validator.
LEMMA AcceptsUnfolds ==
  \A v \in Validators : Accepts[v] = AcceptsBody(Accepts, v)
<1> DEFINE Defines(f, k) == f = [v \in Under(k) |-> AcceptsBody(f, v)]
           T == {k \in Nat : k <= Depth + 2 => \E f : Defines(f, k)}
<1>1. 0 \in T
  <2> DEFINE g == [v \in {} |-> v]
  <2>1. Under(0) = {}
    BY DEF Under
  <2>2. Defines(g, 0)
    BY <2>1
  <2>3. \E f : Defines(f, 0)
    <3> HIDE DEF g, Defines
    <3> QED
      BY <2>2
  <2> QED
    BY <2>3
<1>2. ASSUME NEW k \in Nat, k \in T PROVE k + 1 \in T
  <2> SUFFICES ASSUME k + 1 <= Depth + 2 PROVE \E f : Defines(f, k + 1)
    <3> HIDE DEF Defines
    <3> QED
      OBVIOUS
  <2>1. k <= Depth + 2 /\ k \in 0..Depth + 1
    BY Limits
  <2>2. \E f : Defines(f, k)
    <3> HIDE DEF Defines
    <3> QED
      BY <1>2, <2>1
  <2>3. PICK f : Defines(f, k)
    BY <2>2
  <2> DEFINE g == [v \in Under(k + 1) |-> AcceptsBody(f, v)]
  <2>4. Under(k + 1) = ValidatorsOver(Under(k)) /\ Under(k) \subseteq Under(k + 1)
    <3>1. k \in 0..k + 1
      OBVIOUS
    <3> QED
      BY <2>1, <3>1, UnderGrows
  <2>5. \A v \in Under(k) : f[v] = AcceptsBody(f, v)
    BY <2>3
  <2>6. \A v \in Under(k) : f[v] = g[v]
    BY <2>4, <2>5
  <2>7. ASSUME NEW v \in Under(k + 1) PROVE g[v] = AcceptsBody(g, v)
    <3>1. g[v] = AcceptsBody(f, v)
      OBVIOUS
    <3> HIDE DEF g
    <3>2. AcceptsBody(f, v) = AcceptsBody(g, v)
      BY <2>4, <2>6, AcceptsLocal
    <3> QED
      BY <3>1, <3>2
  <2>8. g = [v \in Under(k + 1) |-> g[v]]
    OBVIOUS
  <2> HIDE DEF g
  <2>9. Defines(g, k + 1)
    BY <2>7, <2>8
  <2> HIDE DEF Defines
  <2> QED
    BY <2>9
<1> HIDE DEF T
<1>3. Depth + 2 \in Nat /\ Depth + 2 \in T
  BY <1>1, <1>2, NaturalInduction, Limits
<1>4. \E f : f = [v \in Validators |-> AcceptsBody(f, v)]
  BY <1>3, Limits DEF T
<1>5. Accepts = [v \in Validators |-> AcceptsBody(Accepts, v)]
  BY <1>4 DEF Accepts, AcceptsBody
<1> QED
  BY <1>5

\* Whether all items of a class are kept.
LEMMA KeepsUnfolds ==
  \A v \in Validators : Keeps[v] = KeepsBody(Keeps, v)
<1> DEFINE Defines(f, k) == f = [v \in Under(k) |-> KeepsBody(f, v)]
           T == {k \in Nat : k <= Depth + 2 => \E f : Defines(f, k)}
<1>1. 0 \in T
  <2> DEFINE g == [v \in {} |-> v]
  <2>1. Under(0) = {}
    BY DEF Under
  <2>2. Defines(g, 0)
    BY <2>1
  <2>3. \E f : Defines(f, 0)
    <3> HIDE DEF g, Defines
    <3> QED
      BY <2>2
  <2> QED
    BY <2>3
<1>2. ASSUME NEW k \in Nat, k \in T PROVE k + 1 \in T
  <2> SUFFICES ASSUME k + 1 <= Depth + 2 PROVE \E f : Defines(f, k + 1)
    <3> HIDE DEF Defines
    <3> QED
      OBVIOUS
  <2>1. k <= Depth + 2 /\ k \in 0..Depth + 1
    BY Limits
  <2>2. \E f : Defines(f, k)
    <3> HIDE DEF Defines
    <3> QED
      BY <1>2, <2>1
  <2>3. PICK f : Defines(f, k)
    BY <2>2
  <2> DEFINE g == [v \in Under(k + 1) |-> KeepsBody(f, v)]
  <2>4. Under(k + 1) = ValidatorsOver(Under(k)) /\ Under(k) \subseteq Under(k + 1)
    <3>1. k \in 0..k + 1
      OBVIOUS
    <3> QED
      BY <2>1, <3>1, UnderGrows
  <2>5. \A v \in Under(k) : f[v] = KeepsBody(f, v)
    BY <2>3
  <2>6. \A v \in Under(k) : f[v] = g[v]
    BY <2>4, <2>5
  <2>7. ASSUME NEW v \in Under(k + 1) PROVE g[v] = KeepsBody(g, v)
    <3>1. g[v] = KeepsBody(f, v)
      OBVIOUS
    <3> HIDE DEF g
    <3>2. KeepsBody(f, v) = KeepsBody(g, v)
      BY <2>4, <2>6, KeepsLocal
    <3> QED
      BY <3>1, <3>2
  <2>8. g = [v \in Under(k + 1) |-> g[v]]
    OBVIOUS
  <2> HIDE DEF g
  <2>9. Defines(g, k + 1)
    BY <2>7, <2>8
  <2> HIDE DEF Defines
  <2> QED
    BY <2>9
<1> HIDE DEF T
<1>3. Depth + 2 \in Nat /\ Depth + 2 \in T
  BY <1>1, <1>2, NaturalInduction, Limits
<1>4. \E f : f = [v \in Validators |-> KeepsBody(f, v)]
  BY <1>3, Limits DEF T
<1>5. Keeps = [v \in Validators |-> KeepsBody(Keeps, v)]
  BY <1>4 DEF Keeps, KeepsBody
<1> QED
  BY <1>5

\* deserializeFromJson of a JSON value.
LEMMA DeserializeUnfolds ==
  \A j \in Jsons : Deserialize[j] = DeserializeBody(Deserialize, j)
<1> DEFINE Defines(f, k) == f = [j \in JsonUnder(k) |-> DeserializeBody(f, j)]
           T == {k \in Nat : k <= 2 * Depth + 6 => \E f : Defines(f, k)}
<1>1. 0 \in T
  <2> DEFINE g == [j \in {} |-> j]
  <2>1. JsonUnder(0) = {}
    BY DEF JsonUnder
  <2>2. Defines(g, 0)
    BY <2>1
  <2>3. \E f : Defines(f, 0)
    <3> HIDE DEF g, Defines
    <3> QED
      BY <2>2
  <2> QED
    BY <2>3
<1>2. ASSUME NEW k \in Nat, k \in T PROVE k + 1 \in T
  <2> SUFFICES ASSUME k + 1 <= 2 * Depth + 6 PROVE \E f : Defines(f, k + 1)
    <3> HIDE DEF Defines
    <3> QED
      OBVIOUS
  <2>1. k <= 2 * Depth + 6 /\ k \in 0..JsonDepth(Depth + 1)
    BY Limits DEF JsonDepth
  <2>2. \E f : Defines(f, k)
    <3> HIDE DEF Defines
    <3> QED
      BY <1>2, <2>1
  <2>3. PICK f : Defines(f, k)
    BY <2>2
  <2> DEFINE g == [j \in JsonUnder(k + 1) |-> DeserializeBody(f, j)]
  <2>4. JsonUnder(k + 1) = JsonOver(JsonUnder(k)) /\ JsonUnder(k) \subseteq JsonUnder(k + 1)
    <3>1. k \in 0..k + 1
      OBVIOUS
    <3> QED
      BY <2>1, <3>1, JsonUnderGrows
  <2>5. \A j \in JsonUnder(k) : f[j] = DeserializeBody(f, j)
    BY <2>3
  <2>6. \A j \in JsonUnder(k) : f[j] = g[j]
    BY <2>4, <2>5
  <2>7. ASSUME NEW j \in JsonUnder(k + 1) PROVE g[j] = DeserializeBody(g, j)
    <3>1. g[j] = DeserializeBody(f, j)
      OBVIOUS
    <3> HIDE DEF g
    <3>2. DeserializeBody(f, j) = DeserializeBody(g, j)
      BY <2>4, <2>6, DeserializeLocal
    <3> QED
      BY <3>1, <3>2
  <2>8. g = [j \in JsonUnder(k + 1) |-> g[j]]
    OBVIOUS
  <2> HIDE DEF g
  <2>9. Defines(g, k + 1)
    BY <2>7, <2>8
  <2> HIDE DEF Defines
  <2> QED
    BY <2>9
<1> HIDE DEF T
<1>3. 2 * Depth + 6 \in Nat /\ 2 * Depth + 6 \in T
  BY <1>1, <1>2, NaturalInduction, Limits
<1>4. \E f : f = [j \in Jsons |-> DeserializeBody(f, j)]
  BY <1>3, Limits DEF T
<1>5. Deserialize = [j \in Jsons |-> DeserializeBody(Deserialize, j)]
  BY <1>4 DEF Deserialize, DeserializeBody
<1> QED
  BY <1>5

-----------------------------------------------------------------------------
(***************************************************************************)
(* Flags as numbers.                                                       *)
(***************************************************************************)

\* The bits of a permission field.
LEMMA PermissionBits ==
  ASSUME NEW n \in 0..15
  PROVE  \A x : x \in Flags(PathPermission, n) <=>
                 \/ x = "Executable" /\ n \in {1, 3, 5, 7, 9, 11, 13, 15}
                 \/ x = "Readable" /\ n \in {2, 3, 6, 7, 10, 11, 14, 15}
                 \/ x = "Writable" /\ n \in {4, 5, 6, 7, 12, 13, 14, 15}
                 \/ x = Unnamed /\ n > 7
<1>1. /\ PathPermission.bit["Executable"] = 1
      /\ PathPermission.bit["Readable"] = 2
      /\ PathPermission.bit["Writable"] = 4
      /\ DOMAIN PathPermission.bit = {"Executable", "Readable", "Writable"}
      /\ PathPermission.all = 7
  BY DEF PathPermission
<1>2. /\ (n \div 1) % 2 = 1 <=> n \in {1, 3, 5, 7, 9, 11, 13, 15}
      /\ (n \div 2) % 2 = 1 <=> n \in {2, 3, 6, 7, 10, 11, 14, 15}
      /\ (n \div 4) % 2 = 1 <=> n \in {4, 5, 6, 7, 12, 13, 14, 15}
  OBVIOUS
<1> QED
  BY <1>1, <1>2 DEF Flags, AllFlags

\* The bits of a type field.
LEMMA TypeBits ==
  ASSUME NEW n \in 0..7
  PROVE  \A x : x \in Flags(PathType, n) <=>
                 \/ x = "File" /\ n \in {1, 3, 5, 7}
                 \/ x = "Dir" /\ n \in {2, 3, 6, 7}
                 \/ x = Unnamed /\ n > 3
<1>1. /\ PathType.bit["File"] = 1 /\ PathType.bit["Dir"] = 2
      /\ DOMAIN PathType.bit = {"File", "Dir"} /\ PathType.all = 3
  BY DEF PathType
<1>2. /\ (n \div 1) % 2 = 1 <=> n \in {1, 3, 5, 7}
      /\ (n \div 2) % 2 = 1 <=> n \in {2, 3, 6, 7}
  OBVIOUS
<1> QED
  BY <1>1, <1>2 DEF Flags, AllFlags

\* Each field of permissions has a number.
LEMMA PermissionNumbers ==
  ASSUME NEW f \in PermissionFields
  PROVE  /\ Numeric(PathPermission, f) \in 0..(FieldModulus - 1)
         /\ Flags(PathPermission, Numeric(PathPermission, f)) = f
<1>1. \E n \in 0..(FieldModulus - 1) : Flags(PathPermission, n) = f
  <2> DEFINE e == IF "Executable" \in f THEN 1 ELSE 0
             r == IF "Readable" \in f THEN 2 ELSE 0
             w == IF "Writable" \in f THEN 4 ELSE 0
             u == IF Unnamed \in f THEN 8 ELSE 0
             n == e + r + w + u
  <2>1. /\ n \in 0..15
        /\ n \in {1, 3, 5, 7, 9, 11, 13, 15} <=> "Executable" \in f
        /\ n \in {2, 3, 6, 7, 10, 11, 14, 15} <=> "Readable" \in f
        /\ n \in {4, 5, 6, 7, 12, 13, 14, 15} <=> "Writable" \in f
        /\ n > 7 <=> Unnamed \in f
    OBVIOUS
  <2> HIDE DEF n
  <2>2. Flags(PathPermission, n) = f
    <3>1. \A x : x \in Flags(PathPermission, n) <=>
                   \/ x = "Executable" /\ n \in {1, 3, 5, 7, 9, 11, 13, 15}
                   \/ x = "Readable" /\ n \in {2, 3, 6, 7, 10, 11, 14, 15}
                   \/ x = "Writable" /\ n \in {4, 5, 6, 7, 12, 13, 14, 15}
                   \/ x = Unnamed /\ n > 7
      BY <2>1, PermissionBits
    <3>2. \A x : x \in f => x \in {"Executable", "Readable", "Writable", Unnamed}
      BY DEF Permissions, PermissionFields
    <3>3. \A x : x \in Flags(PathPermission, n) <=> x \in f
      BY <2>1, <3>1, <3>2
    <3> QED
      BY <3>3
  <2>3. n \in 0..(FieldModulus - 1)
    BY <2>1, LeafAssumption DEF LeafAssumption
  <2> QED
    BY <2>2, <2>3
<1> QED
  BY <1>1 DEF Numeric

\* The same for the types.
LEMMA TypeNumbers ==
  ASSUME NEW f \in TypeFields
  PROVE  /\ Numeric(PathType, f) \in 0..(FieldModulus - 1)
         /\ Flags(PathType, Numeric(PathType, f)) = f
<1>1. \E n \in 0..(FieldModulus - 1) : Flags(PathType, n) = f
  <2> DEFINE e == IF "File" \in f THEN 1 ELSE 0
             r == IF "Dir" \in f THEN 2 ELSE 0
             u == IF Unnamed \in f THEN 4 ELSE 0
             n == e + r + u
  <2>1. /\ n \in 0..7
        /\ n \in {1, 3, 5, 7} <=> "File" \in f
        /\ n \in {2, 3, 6, 7} <=> "Dir" \in f
        /\ n > 3 <=> Unnamed \in f
    OBVIOUS
  <2> HIDE DEF n
  <2>2. Flags(PathType, n) = f
    <3>1. \A x : x \in Flags(PathType, n) <=>
                   \/ x = "File" /\ n \in {1, 3, 5, 7}
                   \/ x = "Dir" /\ n \in {2, 3, 6, 7}
                   \/ x = Unnamed /\ n > 3
      BY <2>1, TypeBits
    <3>2. \A x : x \in f => x \in {"File", "Dir", Unnamed}
      BY DEF PathTypes, TypeFields
    <3>3. \A x : x \in Flags(PathType, n) <=> x \in f
      BY <2>1, <3>1, <3>2
    <3> QED
      BY <3>3
  <2>3. n \in 0..(FieldModulus - 1)
    BY <2>1, LeafAssumption DEF LeafAssumption
  <2> QED
    BY <2>2, <2>3
<1> QED
  BY <1>1 DEF Numeric

-----------------------------------------------------------------------------
(***************************************************************************)
(* Bounds.                                                                 *)
(***************************************************************************)

\* What matters about a kind of flags: every field, with bits that have no
\* name or without, has a number that fits.
Encodes(enum, flags) ==
  /\ AllFlags(enum) = flags
  /\ \A f \in SUBSET (flags \cup {Unnamed}) :
       /\ Numeric(enum, f) \in 0..(FieldModulus - 1)
       /\ Flags(enum, Numeric(enum, f)) = f

\* Both kinds of flags encode.
LEMMA Encodings ==
  Encodes(PathPermission, Permissions) /\ Encodes(PathType, PathTypes)
<1>1. AllFlags(PathPermission) = Permissions /\ AllFlags(PathType) = PathTypes
  BY DEF AllFlags, PathPermission, PathType, Permissions, PathTypes
<1> QED
  BY <1>1, PermissionNumbers, TypeNumbers DEF Encodes, PermissionFields, TypeFields

\* Bounds that are written are read again if they are in order and have names
\* for all their bits, and refused otherwise; bounds that are left out are read
\* as those that say nothing.
LEMMA RangeRoundTrip ==
  ASSUME NEW enum, NEW flags, Encodes(enum, flags),
         NEW lower \in SUBSET (flags \cup {Unnamed}), NEW upper \in SUBSET (flags \cup {Unnamed})
  PROVE  ReadRange(enum, WriteRange(enum, lower, upper)) =
           IF lower \subseteq upper /\ upper \subseteq flags
           THEN [lower |-> lower, upper |-> upper] ELSE NullPtr
<1> DEFINE a == Numeric(enum, lower)
           b == Numeric(enum, upper)
           j == WriteRange(enum, lower, upper)
<1>1. /\ a \in 0..(FieldModulus - 1) /\ Flags(enum, a) = lower
      /\ b \in 0..(FieldModulus - 1) /\ Flags(enum, b) = upper
      /\ AllFlags(enum) = flags
  BY DEF Encodes
<1>2. CASE lower = {} /\ upper = AllFlags(enum)
  <2>1. j.type = "Undefined"
    BY <1>2 DEF WriteRange, Undefined
  <2> QED
    BY <1>1, <1>2, <2>1 DEF ReadRange
<1>3. CASE ~(lower = {} /\ upper = AllFlags(enum))
  <2> HIDE DEF a, b
  <2>1. j = Array(<<Number(a), Number(b)>>)
    BY <1>3 DEF WriteRange, a, b
  <2>2. /\ j.type = "Array" /\ j.items = <<Number(a), Number(b)>>
        /\ Len(j.items) = 2 /\ j.items[1] = Number(a) /\ j.items[2] = Number(b)
    BY <2>1 DEF Array
  <2>3. \A n \in 0..(FieldModulus - 1) : \A default :
          ToInteger(Number(n), default) % FieldModulus = n
    <3> SUFFICES ASSUME NEW n \in 0..(FieldModulus - 1), NEW default
                 PROVE  ToInteger(Number(n), default) % FieldModulus = n
      OBVIOUS
    <3>1. ToInteger(Number(n), default) = n
      BY DEF ToInteger, Number
    <3>2. FieldModulus \in Nat /\ n < FieldModulus /\ n \in Nat
      BY LeafAssumption DEF LeafAssumption
    <3>3. \A i, m \in Nat : i < m => i % m = i
      BY Z3
    <3> QED
      BY <3>1, <3>2, <3>3
  <2>4. /\ Flags(enum, ToInteger(j.items[1], FieldModulus - 1) % FieldModulus) = lower
        /\ Flags(enum, ToInteger(j.items[2], 0) % FieldModulus) = upper
    BY <1>1, <2>2, <2>3
  <2>5. ReadRange(enum, j) =
          IF Between(lower, {}, flags) /\ Between(upper, lower, flags)
          THEN [lower |-> lower, upper |-> upper] ELSE NullPtr
    BY <1>1, <2>2, <2>4 DEF ReadRange
  <2> QED
    BY <2>5 DEF Between
<1> QED
  BY <1>2, <1>3

-----------------------------------------------------------------------------
\* A Path is read as it was written if its bounds are in order and have names
\* for all their bits; otherwise it is refused.  (What the reader accepts is
\* therefore what the client does.)
THEOREM PathRoundTrip ==
  ASSUME NEW v \in Paths
  PROVE  ReadPath(Member(WritePath(v), "path")) = IF OrderedBounds(v) THEN v ELSE NullPtr
<1> DEFINE e == v.existance
           p == v.min_perm
           q == v.max_perm
           t == v.min_type
           u == v.max_type
<1>1. /\ e \in Existance /\ p \in PermissionFields /\ q \in PermissionFields
      /\ t \in TypeFields /\ u \in TypeFields
  BY DEF Paths
<1>2. v = Path(e, p, q, t, u)
  BY DEF Paths, Path
<1> DEFINE written == Member(WritePath(v), "path")
           E == IF e = "Undefined" THEN Undefined ELSE Bool(e = "Exist")
           P == WriteRange(PathPermission, p, q)
           T == WriteRange(PathType, t, u)
           member == [existance |-> E, perm |-> P, type |-> T]
<1>3. WritePath(v) = Object([path |-> Object(member)])
  BY DEF WritePath
<1>4. written = Object(member)
  BY <1>3 DEF Member, Object, JsonKeys
<1>5. \A k \in {"existance", "perm", "type"} : Member(written, k) = member[k]
  BY <1>4 DEF Member, Object, JsonKeys
<1>6. Member(written, "existance") = E /\ Member(written, "perm") = P /\ Member(written, "type") = T
  BY <1>5
<1> HIDE DEF written, P, T, e, p, q, t, u
<1>7. (IF E = Undefined THEN "Undefined" ELSE IF ToBool(E) THEN "Exist" ELSE "Nonexist") = e
  <2>1. CASE e = "Undefined"
    BY <2>1
  <2>2. CASE e # "Undefined"
    <3>1. E = [type |-> "Bool", bool |-> (e = "Exist")] /\ E.type = "Bool" /\ E.bool = (e = "Exist")
      BY <2>2 DEF Bool
    <3>2. E # Undefined
      BY <3>1 DEF Undefined
    <3> QED
      BY <1>1, <2>2, <3>1, <3>2 DEF ToBool, Existance
  <2> QED
    BY <2>1, <2>2
<1>8. /\ ReadRange(PathPermission, P) =
           IF p \subseteq q /\ q \subseteq Permissions THEN [lower |-> p, upper |-> q] ELSE NullPtr
      /\ ReadRange(PathType, T) =
           IF t \subseteq u /\ u \subseteq PathTypes THEN [lower |-> t, upper |-> u] ELSE NullPtr
  BY <1>1, Encodings, RangeRoundTrip DEF P, T, PermissionFields, TypeFields
<1>9. /\ p \subseteq q /\ q \subseteq Permissions => [lower |-> p, upper |-> q] # NullPtr
      /\ t \subseteq u /\ u \subseteq PathTypes => [lower |-> t, upper |-> u] # NullPtr
  BY <1>1, LeafAssumption DEF LeafAssumption
<1>10. OrderedBounds(v) <=>
         p \subseteq q /\ q \subseteq Permissions /\ t \subseteq u /\ u \subseteq PathTypes
  BY DEF OrderedBounds, p, q, t, u
<1> HIDE DEF E
<1> QED
  BY <1>1, <1>2, <1>6, <1>7, <1>8, <1>9, <1>10 DEF ReadPath, written

\* Bounds that are read are in order and have names, whatever the text.
LEMMA RangesAreOrdered ==
  ASSUME NEW enum, NEW j, ReadRange(enum, j) # NullPtr
  PROVE  /\ ReadRange(enum, j) \in [lower : SUBSET AllFlags(enum), upper : SUBSET AllFlags(enum)]
         /\ ReadRange(enum, j).lower \subseteq ReadRange(enum, j).upper
BY DEF ReadRange, Between

\* What ReadPath reads, from any JSON value, is a Path with bounds in order.
LEMMA PathsReadAreValid ==
  ASSUME NEW j, ReadPath(j) # NullPtr
  PROVE  ReadPath(j) \in Paths /\ OrderedBounds(ReadPath(j))
<1> DEFINE perm == ReadRange(PathPermission, Member(j, "perm"))
           type == ReadRange(PathType, Member(j, "type"))
           e == IF Member(j, "existance") = Undefined THEN "Undefined"
                ELSE IF ToBool(Member(j, "existance")) THEN "Exist" ELSE "Nonexist"
<1>1. perm # NullPtr /\ type # NullPtr /\ ReadPath(j) = Path(e, perm.lower, perm.upper, type.lower, type.upper)
  BY DEF ReadPath
<1>2. AllFlags(PathPermission) = Permissions /\ AllFlags(PathType) = PathTypes
  BY Encodings DEF Encodes
<1>3. /\ perm.lower \subseteq perm.upper /\ perm.upper \subseteq Permissions
      /\ type.lower \subseteq type.upper /\ type.upper \subseteq PathTypes
  BY <1>1, <1>2, RangesAreOrdered
<1>4. e \in Existance
  BY DEF Existance
<1> HIDE DEF perm, type, e
<1> QED
  BY <1>1, <1>3, <1>4 DEF Path, Paths, OrderedBounds, PermissionFields, TypeFields

-----------------------------------------------------------------------------
(***************************************************************************)
(* What is written.                                                        *)
(***************************************************************************)
ReadKeys == {"dummy", "types", "path", "options", "prefix", "suffix", "any", "all"}

\* SetToSeq(S) lists the elements of S.
LEMMA SetToSeqLists ==
  ASSUME NEW S, IsFiniteSet(S)
  PROVE  /\ SetToSeq(S) \in Seq(S)
         /\ \A x \in S : \E k \in DOMAIN SetToSeq(S) : SetToSeq(S)[k] = x
         /\ SetToSeq(S) = <<>> <=> S = {}
<1> DEFINE C == Cardinality(S)
           s == SetToSeq(S)
<1>1. C \in Nat /\ ExistsBijection(1..C, S)
  BY FS_CardinalityType
<1>2. \E f \in [1..C -> S] : IsInjective(f)
  BY <1>1 DEF ExistsBijection, Bijection, Injection
<1>3. s \in [1..C -> S] /\ IsInjective(s)
  BY <1>2 DEF SetToSeq
<1>4. s \in Seq(S)
  BY <1>1, <1>3, SeqDef
<1>5. s \in Surjection(1..C, S)
  <2>1. s \in Injection(1..C, S)
    BY <1>3 DEF Injection
  <2>2. Cardinality(1..C) = C
    BY <1>1, FS_Interval
  <2> QED
    BY <2>1, <2>2, FS_Injection
<1>6. \A x \in S : \E k \in 1..C : s[k] = x
  BY <1>5 DEF Surjection
<1>7. DOMAIN s = 1..C
  BY <1>3
<1> HIDE DEF s, C
<1>8. s = <<>> <=> S = {}
  <2>1. DOMAIN s = 1..Len(s) /\ Len(s) \in Nat /\ \A k \in DOMAIN s : s[k] \in S
    BY <1>4, ItemsIn
  <2>2. S = {} => s = <<>>
    BY <1>4, <2>1
  <2>3. s = <<>> => S = {}
    BY <1>6, <1>7
  <2> QED
    BY <2>2, <2>3
<1> QED
  BY <1>4, <1>6, <1>7, <1>8 DEF s

\* Finitely many strings make finitely many JSON values.
LEMMA FiniteStrings ==
  ASSUME NEW T, IsFiniteSet(T)
  PROVE  IsFiniteSet({String(s) : s \in T})
<1> DEFINE g == [s \in T |-> String(s)]
           I == {String(s) : s \in T}
<1>1. g \in Surjection(T, I)
  BY DEF Surjection
<1> QED
  BY <1>1, FS_Surjection

\* There are finitely many types.
LEMMA TypeNamesFinite == IsFiniteSet(TypeNames)
<1>1. IsFiniteSet({"Null"})
  BY FS_Singleton
<1>2. IsFiniteSet({"Null"} \cup {"Bool"} \cup {"Integer"} \cup {"Double"}
                    \cup {"String"} \cup {"Array"} \cup {"Object"})
  BY <1>1, FS_Singleton, FS_Union
<1>3. TypeNames = {"Null"} \cup {"Bool"} \cup {"Integer"} \cup {"Double"}
                    \cup {"String"} \cup {"Array"} \cup {"Object"}
  BY DEF TypeNames
<1> QED
  BY <1>2, <1>3

\* An object with one member is read by the class of the key, if the value is
\* of its type, and by none otherwise.
LEMMA SingleMember ==
  ASSUME NEW g, NEW key \in JsonKeys, DOMAIN g = {key}
  PROVE  /\ Member(Object(g), key) = g[key]
         /\ (key \in ReadKeys /\ g[key].type = BodyType[key]) =>
              Matching(Object(g)) # {} /\ FirstKey(Object(g)) = key
         /\ ~(key \in ReadKeys /\ g[key].type = BodyType[key]) => Matching(Object(g)) = {}
<1>1. \A k \in JsonKeys : Member(Object(g), k) = IF k = key THEN g[key] ELSE Undefined
  BY DEF Object, Member
<1>2. \A k \in ReadKeys : k \in JsonKeys /\ BodyType[k] # "Undefined"
  BY DEF ReadKeys, JsonKeys, BodyType
<1>3. \A k \in ReadKeys : k # key => Member(Object(g), k).type # BodyType[k]
  BY <1>1, <1>2 DEF Undefined
<1>4. \A k \in ReadKeys : \E i \in DOMAIN Keys : Keys[i] = k
  <2>1. DOMAIN Keys = {1, 2, 3, 4, 5, 6, 7, 8}
    BY DEF Keys
  <2>2. /\ Keys[1] = "dummy" /\ Keys[2] = "types" /\ Keys[3] = "path" /\ Keys[4] = "options"
        /\ Keys[5] = "prefix" /\ Keys[6] = "suffix" /\ Keys[7] = "any" /\ Keys[8] = "all"
    BY DEF Keys
  <2> QED
    BY <2>1, <2>2 DEF ReadKeys
<1>5. \A j : Matching(j) # {} => FirstKey(j) \in ReadKeys /\ Member(j, FirstKey(j)).type = BodyType[FirstKey(j)]
  BY FirstKeyMatches DEF ReadKeys
<1>6. ASSUME key \in ReadKeys, g[key].type = BodyType[key]
      PROVE  Matching(Object(g)) # {} /\ FirstKey(Object(g)) = key
  <2>1. PICK i \in DOMAIN Keys : Keys[i] = key
    BY <1>4, <1>6
  <2>2. i \in Matching(Object(g))
    BY <1>1, <1>6, <2>1 DEF Matching
  <2> QED
    BY <1>3, <1>5, <2>2
<1>7. ASSUME ~(key \in ReadKeys /\ g[key].type = BodyType[key])
      PROVE  Matching(Object(g)) = {}
  <2> SUFFICES ASSUME Matching(Object(g)) # {} PROVE FALSE
    OBVIOUS
  <2>1. FirstKey(Object(g)) = key
    BY <1>3, <1>5
  <2> QED
    BY <1>1, <1>5, <1>7, <2>1
<1> QED
  BY <1>1, <1>6, <1>7

\* The first levels of JSON.
LEMMA Levels ==
  \A n \in 0..2 * Depth + 5 :
    /\ JsonUnder(n + 1) = JsonOver(JsonUnder(n))
    /\ \A m \in 0..n + 1 : JsonUnder(m) \subseteq JsonUnder(n + 1)
<1>1. JsonDepth(Depth + 1) = 2 * Depth + 5
  BY Limits DEF JsonDepth
<1> QED
  BY <1>1, JsonUnderGrows

\* A validator without items is written in four levels.
LEMMA LeafTypes ==
  ASSUME NEW S, NEW v \in ValidatorsOver(S), v.class \notin {"Any", "All", "ListItem"}, NEW f
  PROVE  SerializeBody(f, v) \in JsonUnder(4)
<1>1. /\ JsonUnder(1) = JsonOver(JsonUnder(0)) /\ JsonUnder(2) = JsonOver(JsonUnder(1))
      /\ JsonUnder(3) = JsonOver(JsonUnder(2)) /\ JsonUnder(4) = JsonOver(JsonUnder(3))
      /\ \A m \in 0..3 : JsonUnder(m) \subseteq JsonUnder(3)
  <2>1. /\ {0, 1, 2, 3} \subseteq 0..2 * Depth + 5
        /\ 0 + 1 = 1 /\ 1 + 1 = 2 /\ 2 + 1 = 3 /\ 3 + 1 = 4
    BY Limits
  <2> QED
    BY <2>1, Levels
<1> DEFINE J == JsonUnder(3)
<1>2. \A g : (\A k \in DOMAIN g : g[k] \in J \cup {Undefined}) => Object(g) \in JsonUnder(4)
  BY <1>1, ObjectOver
<1>3. /\ Null \in J /\ \A s \in Strings : String(s) \in J /\ String(s) \in JsonUnder(1)
      /\ \A q \in Seq(JsonUnder(1)) : Array(q) \in JsonUnder(2) /\ Array(q) \in J
  BY <1>1, JsonConstructors
<1>4. CASE v.class = "Dummy"
  <2>1. SerializeBody(f, v) = Object([dummy |-> Null])
    BY <1>4 DEF SerializeBody
  <2> QED
    BY <1>2, <1>3, <2>1
<1>5. CASE v.class = "SingleType"
  <2>1. SerializeBody(f, v) = Object([type |-> String(v.field)])
    BY <1>5 DEF SerializeBody
  <2>2. v.field \in Strings
    BY <1>5, Classes, LeafAssumption DEF LeafAssumption, Dummy, Strings3
  <2> QED
    BY <1>2, <1>3, <2>1, <2>2
<1>6. ASSUME NEW T \in SUBSET Strings, IsFiniteSet(T)
      PROVE  Array(SetToSeq({String(s) : s \in T})) \in J
  <2>1. IsFiniteSet({String(s) : s \in T})
    BY <1>6, FiniteStrings
  <2>2. SetToSeq({String(s) : s \in T}) \in Seq(JsonUnder(1))
    <3>1. {String(s) : s \in T} \subseteq JsonUnder(1)
      BY <1>3
    <3> QED
      BY <2>1, <3>1, SetToSeqLists, SeqGrows
  <2> QED
    BY <1>3, <2>2
<1>7. CASE v.class = "Types"
  <2>1. SerializeBody(f, v) = Object([types |-> Array(SetToSeq({String(s) : s \in v.field}))])
    BY <1>7 DEF SerializeBody, WriteTypes
  <2>2. v.field \in SUBSET Strings /\ v.field \subseteq TypeNames
    BY <1>7, Classes, LeafAssumption DEF LeafAssumption, Dummy, Strings3
  <2>3. IsFiniteSet(v.field)
    BY <2>2, FS_Subset, TypeNamesFinite
  <2>4. Array(SetToSeq({String(s) : s \in v.field})) \in J
    BY <1>6, <2>2, <2>3
  <2> QED
    BY <1>2, <2>1, <2>4
<1>8. CASE v.class = "Option"
  <2>1. SerializeBody(f, v) = Object([options |-> Array(SetToSeq({String(s) : s \in v.strings}))])
    BY <1>8 DEF SerializeBody, WriteOption
  <2>2. Array(SetToSeq({String(s) : s \in v.strings})) \in J
    BY <1>6, <1>8, Classes DEF Dummy, Strings3
  <2> QED
    BY <1>2, <2>1, <2>2
<1>9. CASE v.class \in {"StringPrefix", "StringSuffix"}
  <2>1. \/ SerializeBody(f, v) = Object([prefix |-> Null])
        \/ SerializeBody(f, v) = Object([suffix |-> Null])
    BY <1>9 DEF SerializeBody
  <2> QED
    BY <1>2, <1>3, <2>1
<1>10. CASE v.class = "Path"
  <2> DEFINE member == [existance |-> IF v.existance = "Undefined" THEN Undefined
                                      ELSE Bool(v.existance = "Exist"),
                        perm |-> WriteRange(PathPermission, v.min_perm, v.max_perm),
                        type |-> WriteRange(PathType, v.min_type, v.max_type)]
  <2>1. SerializeBody(f, v) = Object([path |-> Object(member)])
    BY <1>10 DEF SerializeBody, WritePath
  <2>2. v \in Paths
    BY <1>10, Classes DEF Dummy, Strings3
  <2>3. \A enum, flags : Encodes(enum, flags) =>
          \A lower, upper \in SUBSET (flags \cup {Unnamed}) :
            WriteRange(enum, lower, upper) \in JsonUnder(2) \cup {Undefined}
    <3> SUFFICES ASSUME NEW enum, NEW flags, Encodes(enum, flags),
                        NEW lower \in SUBSET (flags \cup {Unnamed}),
                        NEW upper \in SUBSET (flags \cup {Unnamed})
                 PROVE  WriteRange(enum, lower, upper) \in JsonUnder(2) \cup {Undefined}
      OBVIOUS
    <3>1. Numeric(enum, lower) \in Int /\ Numeric(enum, upper) \in Int
      BY DEF Encodes
    <3>2. \A n \in Int : Number(n) \in JsonUnder(1)
      BY <1>1, JsonConstructors
    <3>3. <<Number(Numeric(enum, lower)), Number(Numeric(enum, upper))>> \in Seq(JsonUnder(1))
      BY <3>1, <3>2
    <3> QED
      BY <1>3, <3>3 DEF WriteRange
  <2>4. member.perm \in JsonUnder(2) \cup {Undefined} /\ member.type \in JsonUnder(2) \cup {Undefined}
    <3>1. /\ v.min_perm \in PermissionFields /\ v.max_perm \in PermissionFields
          /\ v.min_type \in TypeFields /\ v.max_type \in TypeFields
      BY <2>2 DEF Paths
    <3> QED
      BY <2>3, <3>1, Encodings DEF PermissionFields, TypeFields
  <2>5. member.existance \in JsonUnder(2) \cup {Undefined}
    BY <1>1, JsonConstructors
  <2>6. \A k \in DOMAIN member : member[k] \in JsonUnder(2) \cup {Undefined}
    BY <2>4, <2>5
  <2> HIDE DEF member
  <2>7. Object(member) \in J
    BY <1>1, <2>6, ObjectOver
  <2> QED
    BY <1>2, <2>1, <2>7
<1> QED
  BY <1>4, <1>5, <1>7, <1>8, <1>9, <1>10, Classes DEF Strings3, Dummy

\* What a loop makes of the items of a sequence is a sequence.
LEMMA MappedSequence ==
  ASSUME NEW S, NEW T, NEW q \in Seq(S), NEW g, g = [i \in DOMAIN q |-> g[i]],
         \A i \in DOMAIN q : g[i] \in T
  PROVE  g \in Seq(T) /\ DOMAIN g = DOMAIN q /\ Len(g) = Len(q)
<1>1. DOMAIN q = 1..Len(q) /\ Len(q) \in Nat
  BY ItemsIn
<1>2. g \in [1..Len(q) -> T]
  BY <1>1
<1>3. g \in Seq(T)
  BY <1>1, <1>2, SeqDef
<1>4. Len(g) = Len(q)
  BY <1>1, <1>2, <1>3, LenProperties
<1> QED
  BY <1>1, <1>2, <1>3, <1>4

\* A validator writes two levels more than its items.
LEMMA SerializeTypes ==
  ASSUME NEW n \in 0..Depth + 2, NEW v \in Under(n)
  PROVE  Serialize[v] \in JsonUnder(2 * n + 2)
<1> DEFINE T == {k \in Nat : k <= Depth + 2 =>
                   \A w \in Under(k) : Serialize[w] \in JsonUnder(2 * k + 2)}
<1>1. 0 \in T
  BY DEF Under
<1>2. ASSUME NEW k \in Nat, k \in T PROVE k + 1 \in T
  <2> SUFFICES ASSUME k + 1 <= Depth + 2, NEW w \in Under(k + 1)
               PROVE  Serialize[w] \in JsonUnder(2 * (k + 1) + 2)
    OBVIOUS
  <2>1. k \in 0..Depth + 1 /\ k <= Depth + 2 /\ k + 1 \in 0..Depth + 2
    BY Limits
  <2>2. w \in ValidatorsOver(Under(k)) /\ w \in Validators
    BY <2>1, UnderGrows, Limits
  <2>3. Serialize[w] = SerializeBody(Serialize, w)
    BY <2>2, SerializeUnfolds
  <2> DEFINE m == 2 * k + 2
  <2>4. /\ m \in 0..2 * Depth + 5 /\ m + 1 \in 0..2 * Depth + 5
        /\ 2 * (k + 1) + 2 = (m + 1) + 1 /\ m \in 0..(m + 1) + 1 /\ 4 \in 0..(m + 1) + 1
        /\ m \in 0..m + 1
    BY <2>1, Limits
  <2>5. \A x \in Under(k) : Serialize[x] \in JsonUnder(m)
    BY <1>2, <2>1
  <2> HIDE DEF m
  <2>6. /\ JsonUnder(m + 1) = JsonOver(JsonUnder(m))
        /\ JsonUnder((m + 1) + 1) = JsonOver(JsonUnder(m + 1))
        /\ JsonUnder(4) \subseteq JsonUnder((m + 1) + 1)
        /\ JsonUnder(m) \subseteq JsonUnder(m + 1)
    BY <2>4, Levels
  <2>7. CASE w.class \notin {"Any", "All", "ListItem"}
    BY <2>2, <2>3, <2>4, <2>6, <2>7, LeafTypes
  <2>8. CASE w.class \in {"Any", "All"}
    <3> DEFINE g == [i \in DOMAIN w.items |-> Serialize[w.items[i]]]
    <3>1. w.items \in Seq(Under(k))
      BY <2>2, <2>8, Classes DEF Dummy, Strings3
    <3>2. \A i \in DOMAIN w.items : g[i] \in JsonUnder(m)
      BY <2>5, <3>1, ItemsIn
    <3>3. g \in Seq(JsonUnder(m))
      <4> HIDE DEF g
      <4>1. g = [i \in DOMAIN w.items |-> g[i]]
        BY DEF g
      <4> QED
        BY <3>1, <3>2, <4>1, MappedSequence
    <3>4. Serialize[w] = Object([any |-> Array(g)]) \/ Serialize[w] = Object([all |-> Array(g)])
      BY <2>3, <2>8 DEF SerializeBody
    <3> HIDE DEF g
    <3>5. Array(g) \in JsonUnder(m + 1)
      BY <2>6, <3>3, JsonConstructors
    <3>6. Object([any |-> Array(g)]) \in JsonUnder((m + 1) + 1)
      BY <2>6, <3>5, ObjectOver
    <3>7. Object([all |-> Array(g)]) \in JsonUnder((m + 1) + 1)
      BY <2>6, <3>5, ObjectOver
    <3> QED
      BY <2>4, <3>4, <3>6, <3>7
  <2>9. CASE w.class = "ListItem"
    <3>1. w.item \in Under(k)
      BY <2>2, <2>9, Classes DEF Dummy, Strings3
    <3>2. Serialize[w.item] \in JsonUnder(m + 1)
      BY <2>5, <2>6, <3>1
    <3>3. Serialize[w] = Object([list |-> Serialize[w.item]])
      BY <2>3, <2>9 DEF SerializeBody
    <3>4. Object([list |-> Serialize[w.item]]) \in JsonUnder((m + 1) + 1)
      BY <2>6, <3>2, ObjectOver
    <3> QED
      BY <2>4, <3>3, <3>4
  <2> QED
    BY <2>7, <2>8, <2>9
<1> HIDE DEF T
<1>3. n \in Nat /\ n \in T /\ n <= Depth + 2
  BY <1>1, <1>2, NaturalInduction, Limits
<1> QED
  BY <1>3 DEF T

\* Everything that is written can be read.
LEMMA Written ==
  ASSUME NEW v \in Validators
  PROVE  Serialize[v] \in Jsons /\ Serialize[v] = SerializeBody(Serialize, v)
<1>1. /\ Depth + 2 \in 0..Depth + 2 /\ 2 * (Depth + 2) + 2 = 2 * Depth + 6
  BY Limits
<1>2. Serialize[v] \in JsonUnder(2 * (Depth + 2) + 2)
  BY <1>1, SerializeTypes, Limits
<1> QED
  BY <1>1, <1>2, Limits, SerializeUnfolds

-----------------------------------------------------------------------------
(***************************************************************************)
(* What is read.                                                           *)
(***************************************************************************)

\* The types that are read from an array.
LEMMA TypesRead ==
  ASSUME NEW j
  PROVE  ReadTypes(j) = NullPtr \/ \E f \in SUBSET TypeNames : f # {} /\ ReadTypes(j) = Types(f)
<1> DEFINE known == {t \in TypeNames : \E i \in DOMAIN j.items : j.items[i] = String(t)}
<1>1. known \in SUBSET TypeNames
  OBVIOUS
<1>2. ReadTypes(j) = IF known = {} THEN NullPtr ELSE Types(known)
  BY DEF ReadTypes
<1> QED
  BY <1>1, <1>2

\* The strings that are read from an array.
LEMMA StringsRead ==
  ASSUME NEW S, NEW j, j.items \in Seq(JsonOver(S)), NEW class \in Strings3
  PROVE  \/ ReadStrings(class, j) = NullPtr
         \/ \E s \in SUBSET Strings :
              IsFiniteSet(s) /\ s # {} /\ ReadStrings(class, j) = Strs(class, s)
<1> DEFINE q == j.items
           strings == {AsString(q[i]) : i \in DOMAIN q}
           g == [i \in DOMAIN q |-> AsString(q[i])]
<1>1. DOMAIN q = 1..Len(q) /\ Len(q) \in Nat /\ \A i \in DOMAIN q : q[i] \in JsonOver(S)
  BY ItemsIn
<1>2. \A i \in DOMAIN q : AsString(q[i]) \in Strings
  BY <1>1, JsonTypes, LeafAssumption DEF AsString, LeafAssumption, Null
<1>3. IsFiniteSet(DOMAIN q)
  BY <1>1, FS_Interval
<1>4. g \in Surjection(DOMAIN q, strings)
  BY DEF Surjection
<1>5. IsFiniteSet(strings)
  <2> HIDE DEF g, strings
  <2> QED
    BY <1>3, <1>4, FS_Surjection
<1>6. ReadStrings(class, j) = IF q = <<>> THEN NullPtr ELSE Strs(class, strings)
  BY DEF ReadStrings
<1>7. strings \in SUBSET Strings
  BY <1>2
<1>8. q # <<>> => strings # {}
  <2>1. q # <<>> => 1 \in DOMAIN q
    BY <1>1, EmptySeq
  <2> QED
    BY <2>1
<1> HIDE DEF strings
<1> QED
  BY <1>5, <1>6, <1>7, <1>8

\* What has been read from a list: validators, if there is anything.
LEMMA ListRead ==
  ASSUME NEW S, NullPtr \notin S, NEW n \in Nat, NEW read, DOMAIN read = 1..n,
         \A i \in 1..n : read[i] \in S \cup {NullPtr}
  PROVE  ReadList(read) \in Seq(S)
BY ReadListKeeps DEF Kept

\* The validators that can be published unless they contain strings.
Sound(n) == {v \in Under(n) : Transmissible[v] <=> Stringless[v]}

\* The readers make such validators of such items.
LEMMA SoundValidators ==
  ASSUME NEW k \in 0..Depth + 1
  PROVE  /\ Dummy \in Sound(k + 1)
         /\ \A f \in SUBSET TypeNames : f # {} => Types(f) \in Sound(k + 1)
         /\ \A c \in Strings3, s \in SUBSET Strings :
              IsFiniteSet(s) /\ s # {} => Strs(c, s) \in Sound(k + 1)
         /\ \A v \in Paths : OrderedBounds(v) => v \in Sound(k + 1)
         /\ \A q \in Seq(Sound(k)) :
              q # <<>> => AnyOf(q) \in Sound(k + 1) /\ AllOf(q) \in Sound(k + 1)
<1>1. /\ k + 1 \in 0..Depth + 2
      /\ Under(k + 1) = ValidatorsOver(Under(k)) /\ Under(k + 1) \subseteq Validators
  <2>1. k + 1 \in 0..Depth + 2
    BY Limits
  <2> QED
    BY <2>1, UnderGrows, Limits
<1>2. \A v \in Under(k + 1) :
        /\ Transmissible[v] = TransmissibleBody(Transmissible, v)
        /\ Stringless[v] = StringlessBody(Stringless, v)
  BY <1>1, TransmissibleUnfolds, StringlessUnfolds
<1>3. \A v \in Under(k + 1) :
        (TransmissibleBody(Transmissible, v) <=> StringlessBody(Stringless, v)) => v \in Sound(k + 1)
  BY <1>2 DEF Sound
<1>4. Dummy \in Sound(k + 1)
  <2>1. Dummy \in Under(k + 1) /\ Dummy.class = "Dummy"
    BY <1>1, Constructors DEF Dummy
  <2> QED
    BY <1>3, <2>1 DEF TransmissibleBody, StringlessBody
<1>5. ASSUME NEW f \in SUBSET TypeNames, f # {} PROVE Types(f) \in Sound(k + 1)
  <2>1. Types(f) \in Under(k + 1)
    BY <1>1, Constructors
  <2>2. Types(f).class = "Types" /\ Types(f).field # {}
    BY <1>5 DEF Types
  <2> QED
    BY <1>3, <2>1, <2>2 DEF TransmissibleBody, StringlessBody
<1>6. ASSUME NEW c \in Strings3, NEW s \in SUBSET Strings, IsFiniteSet(s), s # {}
      PROVE  Strs(c, s) \in Sound(k + 1)
  <2>1. Strs(c, s) \in Under(k + 1)
    BY <1>1, <1>6, Constructors
  <2>2. Strs(c, s).class = c /\ Strs(c, s).strings # {}
    BY <1>6 DEF Strs
  <2> QED
    BY <1>3, <2>1, <2>2 DEF TransmissibleBody, StringlessBody, Strings3
<1>7. ASSUME NEW v \in Paths, OrderedBounds(v) PROVE v \in Sound(k + 1)
  <2>1. v \in Under(k + 1)
    BY <1>1, Constructors
  <2>2. v.class = "Path"
    BY DEF Paths
  <2> QED
    BY <1>3, <1>7, <2>1, <2>2 DEF TransmissibleBody, StringlessBody
<1>8. ASSUME NEW q \in Seq(Sound(k)), q # <<>>
      PROVE  AnyOf(q) \in Sound(k + 1) /\ AllOf(q) \in Sound(k + 1)
  <2>1. \A i \in DOMAIN q : q[i] \in Sound(k)
    BY ItemsIn
  <2>2. \A i \in DOMAIN q : Transmissible[q[i]] <=> Stringless[q[i]]
    BY <2>1 DEF Sound
  <2>3. q \in Seq(Under(k))
    <3>1. Sound(k) \subseteq Under(k)
      BY DEF Sound
    <3> QED
      BY <3>1, SeqGrows
  <2>4. ASSUME NEW v \in Under(k + 1), v.class \in {"Any", "All"}, v.items = q
        PROVE  v \in Sound(k + 1)
    BY <1>3, <1>8, <2>2, <2>4 DEF TransmissibleBody, StringlessBody
  <2>5. AnyOf(q) \in Under(k + 1) /\ AllOf(q) \in Under(k + 1)
    BY <1>1, <2>3, Constructors
  <2>6. /\ AnyOf(q).class = "Any" /\ AnyOf(q).items = q
        /\ AllOf(q).class = "All" /\ AllOf(q).items = q
    BY DEF AnyOf, AllOf
  <2> QED
    BY <2>4, <2>5, <2>6
<1> QED
  BY <1>4, <1>5, <1>6, <1>7, <1>8

\* What is read from at most 2k levels nests less than k deep, and is sound:
\* what makes a validator unfit to be published is skipped or refused.
LEMMA DeserializeTypes ==
  ASSUME NEW n \in 0..Depth + 2, NEW j \in JsonUnder(2 * n + 1)
  PROVE  Deserialize[j] \in Sound(n) \cup {NullPtr}
<1> DEFINE T == {k \in Nat : k <= Depth + 2 =>
                   \A x \in JsonUnder(2 * k + 1) : Deserialize[x] \in Sound(k) \cup {NullPtr}}
<1>1. \A k \in Nat : k <= Depth + 2 =>
        /\ 2 * k + 1 \in 0..2 * Depth + 6 /\ 2 * k \in 0..2 * Depth + 5
        /\ 2 * (k + 1) + 1 = (2 * k + 2) + 1
        /\ (k + 1 <= Depth + 2 => 2 * k + 2 \in 0..2 * Depth + 5 /\ k \in 0..Depth + 1
                                    /\ (2 * k + 1) + 1 = 2 * k + 2 /\ 2 * k + 1 \in 0..2 * Depth + 5
                                    /\ 2 * (k + 1) + 1 \in 0..2 * Depth + 6)
  BY Limits
<1>2. \A k \in Nat : \A x : k <= Depth + 2 /\ x \in JsonUnder(2 * k + 1) =>
        x \in Jsons /\ Deserialize[x] = DeserializeBody(Deserialize, x)
  BY <1>1, Limits, DeserializeUnfolds
<1>3. 0 \in T
  <2> SUFFICES ASSUME NEW x \in JsonUnder(2 * 0 + 1) PROVE Deserialize[x] = NullPtr
    OBVIOUS
  <2>1. 2 * 0 + 1 = 0 + 1 /\ 0 \in 0..2 * Depth + 5 /\ 0 <= Depth + 2
    BY Limits
  <2>2. x \in JsonOver({})
    BY <2>1, Levels DEF JsonUnder
  <2>3. \A k \in JsonKeys : Member(x, k) = Undefined
    BY <2>2, JsonTypes DEF Member, Null
  <2>4. Matching(x) = {}
    BY <2>3, FirstKeyMatches DEF BodyType, Undefined
  <2> QED
    BY <1>2, <2>1, <2>4 DEF DeserializeBody
<1>4. ASSUME NEW k \in Nat, k \in T PROVE k + 1 \in T
  <2> SUFFICES ASSUME k + 1 <= Depth + 2, NEW x \in JsonUnder(2 * (k + 1) + 1)
               PROVE  Deserialize[x] \in Sound(k + 1) \cup {NullPtr}
    OBVIOUS
  <2>1. k <= Depth + 2 /\ k + 1 \in Nat
    BY Limits
  <2>2. k \in 0..Depth + 1 /\ NullPtr \notin Sound(k)
    <3>1. k \in 0..Depth + 1 /\ k \in 0..Depth + 2
      BY <1>1, <2>1
    <3>2. NullPtr \notin Validators
      BY ValidatorsAssumption DEF ValidatorsAssumption
    <3> QED
      BY <3>1, <3>2, UnderGrows, Limits DEF Sound
  <2>3. x \in JsonOver(JsonUnder(2 * k + 2))
    BY <1>1, <2>1, Levels
  <2>4. Deserialize[x] = DeserializeBody(Deserialize, x)
    BY <1>2, <2>1
  <2>5. CASE Matching(x) = {}
    BY <2>4, <2>5 DEF DeserializeBody
  <2>6. CASE Matching(x) # {}
    <3> DEFINE key == FirstKey(x)
               body == Member(x, FirstKey(x))
               read == [i \in DOMAIN body.items |-> Deserialize[body.items[i]]]
    <3>1. Deserialize[x] = ReadBody(key, body, read)
      BY <2>4, <2>6 DEF DeserializeBody
    <3>2. key \in ReadKeys /\ key \in JsonKeys /\ body.type = BodyType[key]
      BY <2>6, FirstKeyMatches DEF ReadKeys
    <3>3. body \in JsonUnder(2 * k + 2)
      <4>1. body # Undefined
        BY <3>2 DEF Undefined, BodyType, ReadKeys
      <4>2. x.type = "Object"
        BY <4>1 DEF Member
      <4> QED
        BY <2>3, <3>2, <4>1, <4>2, JsonTypes DEF Null
    <3>4. body \in JsonOver(JsonUnder(2 * k + 1))
      BY <1>1, <2>1, <3>3, Levels
    <3>5. body.type = "Array" => body.items \in Seq(JsonUnder(2 * k + 1))
      BY <3>4, JsonTypes DEF Null
    <3> HIDE DEF key, body
    <3>6. CASE key \in {"any", "all"}
      <4>1. body.items \in Seq(JsonUnder(2 * k + 1))
        BY <3>2, <3>5, <3>6 DEF BodyType
      <4>2. /\ DOMAIN read = 1..Len(body.items) /\ Len(body.items) \in Nat
            /\ \A i \in DOMAIN read : read[i] \in Sound(k) \cup {NullPtr}
        BY <1>4, <2>1, <4>1, ItemsIn
      <4> HIDE DEF read
      <4>3. ReadList(read) \in Seq(Sound(k))
        BY <2>2, <4>2, ListRead
      <4>4. ReadList(read) # <<>> =>
              AnyOf(ReadList(read)) \in Sound(k + 1) /\ AllOf(ReadList(read)) \in Sound(k + 1)
        BY <2>2, <4>3, SoundValidators
      <4> QED
        BY <3>1, <3>6, <4>4 DEF ReadBody, ReadAny, ReadAll
    <3>7. CASE key \in {"options", "prefix", "suffix"}
      <4>1. body.items \in Seq(JsonUnder(2 * k + 1))
        BY <3>2, <3>5, <3>7 DEF BodyType
      <4>2. JsonUnder(2 * k + 1) = JsonOver(JsonUnder(2 * k))
        BY <1>1, <2>1, Levels
      <4>3. \A c \in Strings3 : ReadStrings(c, body) \in Sound(k + 1) \cup {NullPtr}
        BY <2>2, <4>1, <4>2, StringsRead, SoundValidators
      <4> HIDE DEF read
      <4> QED
        BY <3>1, <3>7, <4>3 DEF ReadBody, Strings3
    <3>8. CASE key \in {"dummy", "types", "path"}
      <4>1. /\ ReadTypes(body) \in Sound(k + 1) \cup {NullPtr}
            /\ ReadPath(body) \in Sound(k + 1) \cup {NullPtr}
            /\ Dummy \in Sound(k + 1)
        BY <2>2, TypesRead, PathsReadAreValid, SoundValidators
      <4> HIDE DEF read
      <4> QED
        BY <3>1, <3>8, <4>1 DEF ReadBody
    <3> QED
      BY <3>2, <3>6, <3>7, <3>8 DEF ReadKeys
  <2> QED
    BY <2>5, <2>6
<1> HIDE DEF T
<1>5. n \in Nat /\ n \in T /\ n <= Depth + 2
  BY <1>3, <1>4, NaturalInduction, Limits
<1> QED
  BY <1>5 DEF T

-----------------------------------------------------------------------------
(***************************************************************************)
(* The way of a validator: written, and read back.                         *)
(***************************************************************************)

\* An object with one member, read by Abstract::deserializeFromJson.
LEMMA ReadsMember ==
  ASSUME NEW g, NEW key \in JsonKeys, DOMAIN g = {key}, Object(g) \in Jsons
  PROVE  /\ (key \in ReadKeys /\ g[key].type = BodyType[key]) =>
              Deserialize[Object(g)] =
                ReadBody(key, g[key], [i \in DOMAIN g[key].items |-> Deserialize[g[key].items[i]]])
         /\ ~(key \in ReadKeys /\ g[key].type = BodyType[key]) => Deserialize[Object(g)] = NullPtr
<1>1. Deserialize[Object(g)] = DeserializeBody(Deserialize, Object(g))
  BY DeserializeUnfolds
<1>2. ASSUME key \in ReadKeys, g[key].type = BodyType[key]
      PROVE  Deserialize[Object(g)] =
               ReadBody(key, g[key], [i \in DOMAIN g[key].items |-> Deserialize[g[key].items[i]]])
  BY <1>1, <1>2, SingleMember DEF DeserializeBody
<1>3. ASSUME ~(key \in ReadKeys /\ g[key].type = BodyType[key])
      PROVE  Deserialize[Object(g)] = NullPtr
  BY <1>1, <1>3, SingleMember DEF DeserializeBody
<1> QED
  BY <1>2, <1>3

\* How the strings of a set are written.
Listed(T) == SetToSeq({String(s) : s \in T})

\* The strings of a set, written and read.
LEMMA ListedStrings ==
  ASSUME NEW T, IsFiniteSet(T)
  PROVE  /\ \A s : s \in T <=> \E i \in DOMAIN Listed(T) : Listed(T)[i] = String(s)
         /\ \A s : s \in T <=> \E i \in DOMAIN Listed(T) : s = AsString(Listed(T)[i])
         /\ Listed(T) = <<>> <=> T = {}
<1> DEFINE S == {String(s) : s \in T}
           q == Listed(T)
<1>1. /\ q \in Seq(S)
      /\ \A x \in S : \E k \in DOMAIN q : q[k] = x
      /\ q = <<>> <=> S = {}
  BY FiniteStrings, SetToSeqLists DEF Listed
<1> HIDE DEF q
<1>2. \A i \in DOMAIN q : q[i] \in S
  BY <1>1, ItemsIn
<1>3. \A i \in DOMAIN q : \E s \in T : q[i] = String(s)
  BY <1>2
<1>4. \A s \in T : \E i \in DOMAIN q : q[i] = String(s)
  BY <1>1
<1>5. \A s : String(s).str = s /\ AsString(String(s)) = s
  BY DEF String, AsString
<1>6. \A s : s \in T <=> \E i \in DOMAIN q : q[i] = String(s)
  BY <1>3, <1>4, <1>5
<1>7. S = {} <=> T = {}
  OBVIOUS
<1> HIDE DEF S
<1>8. \A s : s \in T <=> \E i \in DOMAIN q : s = AsString(q[i])
  BY <1>3, <1>4, <1>5
<1> QED
  BY <1>1, <1>6, <1>7, <1>8 DEF q

\* What becomes of a validator without items: itself, or nothing.
LEMMA LeafReads ==
  ASSUME NEW v \in Validators, v.class \notin {"Any", "All", "ListItem"}
  PROVE  Deserialize[Serialize[v]] = IF Transmissible[v] THEN v ELSE NullPtr
<1> DEFINE D == Deserialize[Serialize[v]]
           t == TransmissibleBody(Transmissible, v)
<1>1. /\ Serialize[v] \in Jsons /\ Serialize[v] = SerializeBody(Serialize, v)
      /\ Transmissible[v] = t
  BY Written, TransmissibleUnfolds
<1>2. v \in ValidatorsOver(Under(Depth + 1))
  <2>1. Depth + 1 \in 0..Depth + 1 /\ (Depth + 1) + 1 = Depth + 2
    BY Limits
  <2> QED
    BY <2>1, UnderGrows, Limits
<1> HIDE DEF t
<1> SUFFICES D = IF t THEN v ELSE NullPtr
  BY <1>1
<1>3. CASE v.class = "Dummy"
  <2> DEFINE g == [dummy |-> Null]
  <2>1. Serialize[v] = Object(g)
    BY <1>1, <1>3 DEF SerializeBody
  <2>2. DOMAIN g = {"dummy"} /\ g["dummy"] = Null /\ "dummy" \in JsonKeys /\ "dummy" \in ReadKeys
    BY DEF JsonKeys, ReadKeys
  <2>3. Null.type = BodyType["dummy"]
    BY DEF Null, BodyType
  <2> HIDE DEF g
  <2>4. D = ReadBody("dummy", g["dummy"], [i \in DOMAIN g["dummy"].items |-> Deserialize[g["dummy"].items[i]]])
    BY <1>1, <2>1, <2>2, <2>3, ReadsMember
  <2>5. v = Dummy
    BY <1>2, <1>3, Classes DEF Strings3
  <2> QED
    BY <1>3, <2>4, <2>5 DEF ReadBody, t, TransmissibleBody
<1>4. CASE v.class = "SingleType"
  <2> DEFINE g == [type |-> String(v.field)]
  <2>1. Serialize[v] = Object(g)
    BY <1>1, <1>4 DEF SerializeBody
  <2>2. DOMAIN g = {"type"} /\ "type" \in JsonKeys /\ "type" \notin ReadKeys
    BY DEF JsonKeys, ReadKeys
  <2> HIDE DEF g
  <2>3. D = NullPtr
    BY <1>1, <2>1, <2>2, ReadsMember
  <2> QED
    BY <1>4, <2>3 DEF t, TransmissibleBody
<1>5. CASE v.class = "Types"
  <2> DEFINE q == Listed(v.field)
             g == [types |-> Array(q)]
  <2>1. Serialize[v] = Object(g)
    BY <1>1, <1>5 DEF SerializeBody, WriteTypes, Listed
  <2>2. /\ DOMAIN g = {"types"} /\ g["types"] = Array(q)
        /\ "types" \in JsonKeys /\ "types" \in ReadKeys
    BY DEF JsonKeys, ReadKeys
  <2>3. Array(q).type = BodyType["types"] /\ Array(q).items = q
    BY DEF Array, BodyType
  <2>4. v.field \in SUBSET TypeNames /\ v = Types(v.field)
    BY <1>2, <1>5, Classes DEF Dummy, Strings3
  <2>5. IsFiniteSet(v.field)
    BY <2>4, FS_Subset, TypeNamesFinite
  <2>6. \A s : s \in v.field <=> \E i \in DOMAIN q : q[i] = String(s)
    BY <2>5, ListedStrings
  <2> HIDE DEF g, q
  <2>7. D = ReadBody("types", g["types"], [i \in DOMAIN g["types"].items |-> Deserialize[g["types"].items[i]]])
    BY <1>1, <2>1, <2>2, <2>3, ReadsMember
  <2>8. D = ReadTypes(Array(q))
    BY <2>2, <2>7 DEF ReadBody
  <2> DEFINE known == {x \in TypeNames : \E i \in DOMAIN q : q[i] = String(x)}
  <2>9. known = v.field
    BY <2>4, <2>6
  <2>10. ReadTypes(Array(q)) = IF known = {} THEN NullPtr ELSE Types(known)
    BY <2>3 DEF ReadTypes
  <2> HIDE DEF known
  <2>11. t = (v.field # {})
    BY <1>5 DEF t, TransmissibleBody
  <2> QED
    BY <2>4, <2>8, <2>9, <2>10, <2>11
<1>6. CASE v.class = "Path"
  <2> DEFINE body == Member(WritePath(v), "path")
             g == [path |-> body]
  <2>1. WritePath(v) = Object(g) /\ body.type = "Object"
    <3> DEFINE member == [existance |-> IF v.existance = "Undefined" THEN Undefined
                                        ELSE Bool(v.existance = "Exist"),
                          perm |-> WriteRange(PathPermission, v.min_perm, v.max_perm),
                          type |-> WriteRange(PathType, v.min_type, v.max_type)]
    <3>1. WritePath(v) = Object([path |-> Object(member)])
      BY DEF WritePath
    <3> HIDE DEF member
    <3>2. body = Object(member)
      BY <3>1 DEF Member, Object, JsonKeys
    <3> HIDE DEF body
    <3>3. g = [path |-> Object(member)]
      BY <3>2
    <3> QED
      BY <3>1, <3>2, <3>3 DEF Object
  <2>2. Serialize[v] = Object(g)
    BY <1>1, <1>6, <2>1 DEF SerializeBody
  <2>3. DOMAIN g = {"path"} /\ g["path"] = body /\ "path" \in JsonKeys /\ "path" \in ReadKeys
    BY DEF JsonKeys, ReadKeys
  <2>4. body.type = BodyType["path"]
    BY <2>1 DEF BodyType
  <2>5. v \in Paths
    BY <1>2, <1>6, Classes DEF Dummy, Strings3
  <2>6. ReadPath(body) = IF OrderedBounds(v) THEN v ELSE NullPtr
    BY <2>5, PathRoundTrip
  <2> HIDE DEF g, body
  <2>7. D = ReadBody("path", g["path"], [i \in DOMAIN g["path"].items |-> Deserialize[g["path"].items[i]]])
    BY <1>1, <2>2, <2>3, <2>4, ReadsMember
  <2>8. D = ReadPath(body)
    BY <2>3, <2>7 DEF ReadBody
  <2>9. t = OrderedBounds(v)
    BY <1>6 DEF t, TransmissibleBody
  <2> QED
    BY <2>6, <2>8, <2>9
<1>7. CASE v.class = "Option"
  <2> DEFINE q == Listed(v.strings)
             g == [options |-> Array(q)]
  <2>1. Serialize[v] = Object(g)
    BY <1>1, <1>7 DEF SerializeBody, WriteOption, Listed
  <2>2. /\ DOMAIN g = {"options"} /\ g["options"] = Array(q)
        /\ "options" \in JsonKeys /\ "options" \in ReadKeys
    BY DEF JsonKeys, ReadKeys
  <2>3. Array(q).type = BodyType["options"] /\ Array(q).items = q
    BY DEF Array, BodyType
  <2>4. IsFiniteSet(v.strings) /\ v = Strs("Option", v.strings)
    BY <1>2, <1>7, Classes DEF Dummy, Strings3
  <2> DEFINE T == v.strings
  <2> HIDE DEF g, T
  <2>5. {AsString(q[i]) : i \in DOMAIN q} = T /\ (q = <<>> <=> T = {})
    <3>1. q = Listed(T) /\ IsFiniteSet(T)
      BY <2>4 DEF T
    <3> HIDE DEF q
    <3>2. (\A s : s \in T <=> \E i \in DOMAIN q : s = AsString(q[i])) /\ (q = <<>> <=> T = {})
      BY <3>1, ListedStrings
    <3>3. \A s : s \in {AsString(q[i]) : i \in DOMAIN q} <=> s \in T
      BY <3>2
    <3> QED
      BY <3>2, <3>3
  <2> HIDE DEF q
  <2>6. D = ReadBody("options", g["options"], [i \in DOMAIN g["options"].items |-> Deserialize[g["options"].items[i]]])
    BY <1>1, <2>1, <2>2, <2>3, ReadsMember
  <2>7. D = ReadStrings("Option", Array(q))
    BY <2>2, <2>6 DEF ReadBody
  <2>8. ReadStrings("Option", Array(q)) = IF T = {} THEN NullPtr ELSE Strs("Option", T)
    BY <2>3, <2>5 DEF ReadStrings
  <2>9. t = (v.strings # {})
    BY <1>7 DEF t, TransmissibleBody
  <2> QED
    BY <2>4, <2>7, <2>8, <2>9 DEF T
<1>8. CASE v.class \in {"StringPrefix", "StringSuffix"}
  <2>1. PICK key \in {"prefix", "suffix"} : Serialize[v] = Object([k \in {key} |-> Null])
    <3>1. [prefix |-> Null] = [k \in {"prefix"} |-> Null] /\ [suffix |-> Null] = [k \in {"suffix"} |-> Null]
      OBVIOUS
    <3> QED
      BY <1>1, <1>8, <3>1 DEF SerializeBody
  <2> DEFINE g == [k \in {key} |-> Null]
  <2>2. DOMAIN g = {key} /\ g[key] = Null /\ key \in JsonKeys
    BY DEF JsonKeys
  <2>3. Null.type # BodyType[key]
    BY DEF Null, BodyType
  <2>4. Object(g) \in Jsons
    BY <1>1, <2>1
  <2> HIDE DEF g
  <2>5. Deserialize[Object(g)] = NullPtr
    BY <2>2, <2>3, <2>4, ReadsMember
  <2>6. D = NullPtr
    BY <2>1, <2>5 DEF g
  <2> QED
    BY <1>8, <2>6 DEF t, TransmissibleBody
<1> QED
  BY <1>2, <1>3, <1>4, <1>5, <1>6, <1>7, <1>8, Classes DEF Strings3, Dummy

\* What is read from what a client's validator writes is a validator, or
\* nothing.
LEMMA CopyTypes ==
  ASSUME NEW v \in Under(Depth + 1)
  PROVE  v \in Validators /\ Deserialize[Serialize[v]] \in Validators \cup {NullPtr}
<1>1. /\ Depth + 1 \in 0..Depth + 2 /\ Depth + 2 \in 0..Depth + 2
      /\ 2 * (Depth + 1) + 2 = 2 * Depth + 4 /\ 2 * (Depth + 2) + 1 = (2 * Depth + 4) + 1
      /\ 2 * Depth + 4 \in 0..2 * Depth + 5 /\ 2 * Depth + 4 \in 0..(2 * Depth + 4) + 1
  BY Limits
<1>2. Serialize[v] \in JsonUnder(2 * Depth + 4)
  BY <1>1, SerializeTypes
<1>3. Serialize[v] \in JsonUnder(2 * (Depth + 2) + 1)
  BY <1>1, <1>2, Levels
<1>4. Deserialize[Serialize[v]] \in Under(Depth + 2) \cup {NullPtr}
  BY <1>1, <1>3, DeserializeTypes DEF Sound
<1> QED
  BY <1>1, <1>4, Limits

\* What becomes of each item of a validator, as the reader's loop sees it.
ReadItems(v) == [i \in DOMAIN v.items |-> Deserialize[Serialize[v.items[i]]]]

\* What becomes of Any and All: the same of what is left of their items.
LEMMA ComposedReads ==
  ASSUME NEW S, S \subseteq Under(Depth + 1), NEW v \in Validators, v \in ValidatorsOver(S),
         v.class \in {"Any", "All"}
  PROVE  /\ v.items \in Seq(S) /\ v = [class |-> v.class, items |-> v.items]
         /\ Kept(Validators, ReadItems(v), Len(v.items), ReadList(ReadItems(v)))
         /\ Deserialize[Serialize[v]] =
              IF ReadList(ReadItems(v)) = <<>> THEN NullPtr
              ELSE [class |-> v.class, items |-> ReadList(ReadItems(v))]
<1> DEFINE q == v.items
           W == [i \in DOMAIN q |-> Serialize[q[i]]]
           read == ReadItems(v)
<1>1. q \in Seq(S) /\ v = [class |-> v.class, items |-> q]
  BY Classes DEF Dummy, Strings3, AnyOf, AllOf
<1>2. DOMAIN q = 1..Len(q) /\ Len(q) \in Nat /\ \A i \in DOMAIN q : q[i] \in S
  BY <1>1, ItemsIn
<1>3. /\ DOMAIN read = 1..Len(q)
      /\ \A i \in 1..Len(q) : read[i] \in Validators \cup {NullPtr}
  BY <1>2, CopyTypes DEF ReadItems
<1>4. Kept(Validators, read, Len(q), ReadList(read))
  BY <1>2, <1>3, ReadListKeeps
<1>5. Serialize[v] \in Jsons /\ Serialize[v] = SerializeBody(Serialize, v)
  BY Written
<1>6. [i \in DOMAIN W |-> Deserialize[W[i]]] = read
  BY DEF ReadItems
<1>7. CASE v.class = "Any"
  <2> DEFINE g == [any |-> Array(W)]
  <2>1. Serialize[v] = Object(g)
    BY <1>5, <1>7 DEF SerializeBody
  <2> HIDE DEF W, read
  <2>2. /\ DOMAIN g = {"any"} /\ g["any"] = Array(W) /\ "any" \in JsonKeys /\ "any" \in ReadKeys
        /\ Array(W).type = BodyType["any"] /\ Array(W).items = W
    BY DEF JsonKeys, ReadKeys, Array, BodyType
  <2> HIDE DEF g
  <2>3. Deserialize[Serialize[v]] =
          ReadBody("any", g["any"], [i \in DOMAIN g["any"].items |-> Deserialize[g["any"].items[i]]])
    BY <1>5, <2>1, <2>2, ReadsMember
  <2>4. Deserialize[Serialize[v]] = ReadBody("any", Array(W), read)
    BY <1>6, <2>2, <2>3
  <2>5. Deserialize[Serialize[v]] = ReadAny(read)
    BY <2>4 DEF ReadBody
  <2>6. ReadAny(read) = IF ReadList(read) = <<>> THEN NullPtr
                        ELSE [class |-> v.class, items |-> ReadList(read)]
    BY <1>7 DEF ReadAny, AnyOf
  <2> QED
    BY <1>1, <1>4, <2>5, <2>6 DEF read
<1>8. CASE v.class = "All"
  <2> DEFINE g == [all |-> Array(W)]
  <2>1. Serialize[v] = Object(g)
    BY <1>5, <1>8 DEF SerializeBody
  <2> HIDE DEF W, read
  <2>2. /\ DOMAIN g = {"all"} /\ g["all"] = Array(W) /\ "all" \in JsonKeys /\ "all" \in ReadKeys
        /\ Array(W).type = BodyType["all"] /\ Array(W).items = W
    BY DEF JsonKeys, ReadKeys, Array, BodyType
  <2> HIDE DEF g
  <2>3. Deserialize[Serialize[v]] =
          ReadBody("all", g["all"], [i \in DOMAIN g["all"].items |-> Deserialize[g["all"].items[i]]])
    BY <1>5, <2>1, <2>2, ReadsMember
  <2>4. Deserialize[Serialize[v]] = ReadBody("all", Array(W), read)
    BY <1>6, <2>2, <2>3
  <2>5. Deserialize[Serialize[v]] = ReadAll(read)
    BY <2>4 DEF ReadBody
  <2>6. ReadAll(read) = IF ReadList(read) = <<>> THEN NullPtr
                        ELSE [class |-> v.class, items |-> ReadList(read)]
    BY <1>8 DEF ReadAll, AllOf
  <2> QED
    BY <1>1, <1>4, <2>5, <2>6 DEF read
<1> QED
  BY <1>7, <1>8

\* ListItem is written, but not read.
LEMMA ListItemReads ==
  ASSUME NEW v \in Validators, v.class = "ListItem"
  PROVE  Deserialize[Serialize[v]] = NullPtr
<1> DEFINE g == [list |-> Serialize[v.item]]
<1>1. Serialize[v] \in Jsons /\ Serialize[v] = SerializeBody(Serialize, v)
  BY Written
<1>2. Serialize[v] = Object(g)
  BY <1>1 DEF SerializeBody
<1>3. DOMAIN g = {"list"} /\ "list" \in JsonKeys /\ "list" \notin ReadKeys
  BY DEF JsonKeys, ReadKeys
<1> HIDE DEF g
<1> QED
  BY <1>1, <1>2, <1>3, ReadsMember

\* A validator is read as it was exactly if it is transmissible.
LEMMA WayThere ==
  ASSUME NEW v \in Validators
  PROVE  Deserialize[Serialize[v]] = v <=> Transmissible[v]
<1> DEFINE C(w) == Deserialize[Serialize[w]]
           T == {k \in Nat : k <= Depth + 2 => \A w \in Under(k) : C(w) = w <=> Transmissible[w]}
<1>1. NullPtr \notin Validators
  BY ValidatorsAssumption DEF ValidatorsAssumption
<1>2. 0 \in T
  BY DEF Under
<1>3. ASSUME NEW k \in Nat, k \in T PROVE k + 1 \in T
  <2> SUFFICES ASSUME k + 1 <= Depth + 2, NEW w \in Under(k + 1)
               PROVE  C(w) = w <=> Transmissible[w]
    OBVIOUS
  <2>1. k \in 0..Depth + 1 /\ k <= Depth + 2 /\ k + 1 \in 0..Depth + 2 /\ k \in 0..Depth + 2
        /\ Depth \in 0..Depth + 1
    BY Limits
  <2>2. w \in ValidatorsOver(Under(k)) /\ w \in Validators
    BY <2>1, UnderGrows, Limits
  <2>3. Under(k) \subseteq Under(Depth + 1)
    BY <2>1, UnderGrows
  <2>4. Transmissible[w] = TransmissibleBody(Transmissible, w)
    BY <2>2, TransmissibleUnfolds
  <2>5. \A x \in Under(k) : C(x) = x <=> Transmissible[x]
    BY <1>3, <2>1
  <2>6. CASE w.class \notin {"Any", "All", "ListItem"}
    BY <1>1, <2>2, <2>6, LeafReads
  <2>7. CASE w.class = "ListItem"
    <3>1. ~Transmissible[w]
      BY <2>4, <2>7 DEF TransmissibleBody
    <3> QED
      BY <1>1, <2>2, <2>7, <3>1, ListItemReads
  <2>8. CASE w.class \in {"Any", "All"}
    <3> DEFINE q == w.items
               read == ReadItems(w)
               r == ReadList(ReadItems(w))
               n == Len(w.items)
    <3>1. /\ q \in Seq(Under(k)) /\ w = [class |-> w.class, items |-> q]
          /\ Kept(Validators, read, n, r)
          /\ C(w) = IF r = <<>> THEN NullPtr ELSE [class |-> w.class, items |-> r]
      BY <2>2, <2>3, <2>8, ComposedReads
    <3>2. DOMAIN q = 1..n /\ n \in Nat /\ \A i \in 1..n : q[i] \in Under(k)
      BY <3>1, ItemsIn
    <3>3. \A i \in 1..n : read[i] = C(q[i])
      BY <3>2 DEF ReadItems
    <3>4. Transmissible[w] = (q # <<>> /\ \A i \in 1..n : Transmissible[q[i]])
      BY <2>4, <2>8, <3>2 DEF TransmissibleBody
    <3>5. \A i \in 1..n : q[i] # NullPtr
      <4>1. Under(k) \subseteq Validators
        BY <2>1, Limits
      <4> QED
        BY <1>1, <3>2, <4>1
    <3> HIDE DEF read, r, n, q
    <3>6. r \in Seq(Validators) /\ DOMAIN r = 1..Len(r) /\ Len(r) \in Nat
      BY <3>1, ItemsIn DEF Kept
    <3>7. q = <<>> <=> n = 0
      BY <3>1, <3>2 DEF n, q
    <3>8. ASSUME Transmissible[w] PROVE C(w) = w
      <4>1. q # <<>> /\ \A i \in 1..n : read[i] = q[i]
        BY <2>5, <3>2, <3>3, <3>4, <3>8
      <4>2. Len(r) = n /\ \A i \in 1..n : r[i] = read[i]
        BY <3>1, <3>5, <4>1 DEF Kept
      <4>3. r = q
        <5>1. r = [i \in 1..n |-> r[i]] /\ q = [i \in 1..n |-> q[i]]
          <6>1. q \in [1..n -> Under(k)]
            BY <3>1 DEF q, n
          <6>2. r \in [1..n -> Validators]
            BY <3>6, <4>2
          <6> QED
            BY <6>1, <6>2
        <5> QED
          BY <4>1, <4>2, <5>1
      <4> QED
        BY <3>1, <4>1, <4>3
    <3>9. ASSUME C(w) = w PROVE Transmissible[w]
      <4>1. r # <<>> /\ [class |-> w.class, items |-> r] = w
        BY <1>1, <2>2, <3>1, <3>9
      <4>2. r = q
        BY <4>1 DEF q
      <4>3. Len(r) = n
        BY <4>2 DEF n, q
      <4>4. \A i \in 1..n : read[i] # NullPtr
        BY <3>1, <4>3 DEF Kept
      <4>5. \A i \in 1..n : r[i] = read[i]
        BY <3>1, <4>4 DEF Kept
      <4>6. \A i \in 1..n : Transmissible[q[i]]
        BY <2>5, <3>2, <3>3, <4>2, <4>5
      <4> QED
        BY <3>4, <4>1, <4>2, <4>6
    <3> QED
      BY <3>8, <3>9
  <2> QED
    BY <2>6, <2>7, <2>8
<1> HIDE DEF T
<1>4. Depth + 2 \in Nat /\ Depth + 2 \in T
  BY <1>2, <1>3, NaturalInduction, Limits
<1> QED
  BY <1>4, Limits DEF T

\* What a client's validator and its copy accept: a skipped item of an Any
\* makes the copy accept less, one of an All more, and nothing else matters.
LEMMA CopiesCompare ==
  ASSUME NEW v \in Nested[Depth], Deserialize[Serialize[v]] # NullPtr, NEW j \in Jsons
  PROVE  /\ Keeps[v]["Any"] /\ Accepts[v][j] => Accepts[Deserialize[Serialize[v]]][j]
         /\ Keeps[v]["All"] /\ Accepts[Deserialize[Serialize[v]]][j] => Accepts[v][j]
<1> DEFINE C(w) == Deserialize[Serialize[w]]
           Alike(w) == /\ Keeps[w]["Any"] /\ Accepts[w][j] => Accepts[C(w)][j]
                       /\ Keeps[w]["All"] /\ Accepts[C(w)][j] => Accepts[w][j]
           T == {k \in Nat : k <= Depth + 1 => \A w \in Under(k) : C(w) # NullPtr => Alike(w)}
<1>1. 0 \in T
  BY DEF Under
<1>2. ASSUME NEW k \in Nat, k \in T PROVE k + 1 \in T
  <2> HIDE DEF C, Alike
  <2> SUFFICES ASSUME k + 1 <= Depth + 1, NEW w \in Under(k + 1), C(w) # NullPtr
               PROVE  Alike(w)
    OBVIOUS
  <2>1. k \in 0..Depth + 1 /\ k <= Depth + 1 /\ k + 1 \in 0..Depth + 2 /\ k + 1 \in 0..Depth + 1
        /\ Depth \in 0..Depth + 1
    BY Limits
  <2>2. w \in ValidatorsOver(Under(k)) /\ w \in Validators /\ w \in Under(Depth + 1)
    BY <2>1, UnderGrows, Limits
  <2>3. Under(k) \subseteq Under(Depth + 1)
    BY <2>1, UnderGrows
  <2>4. \A x \in Under(k) : C(x) # NullPtr => Alike(x)
    BY <1>2, <2>1
  <2>5. CASE w.class \notin {"Any", "All", "ListItem"}
    BY <2>2, <2>5, LeafReads DEF Alike, C
  <2>6. CASE w.class = "ListItem"
    BY <2>2, <2>6, ListItemReads DEF C
  <2>7. CASE w.class \in {"Any", "All"}
    <3> DEFINE q == w.items
               n == Len(w.items)
               read == ReadItems(w)
               r == ReadList(ReadItems(w))
    <3>1. /\ q \in Seq(Under(k)) /\ Kept(Validators, read, n, r)
          /\ C(w) = IF r = <<>> THEN NullPtr ELSE [class |-> w.class, items |-> r]
      BY <2>2, <2>3, <2>7, ComposedReads DEF C
    <3>2. DOMAIN q = 1..n /\ n \in Nat /\ \A i \in 1..n : q[i] \in Under(k)
      BY <3>1, ItemsIn
    <3>3. \A i \in 1..n : read[i] = C(q[i])
      BY <3>2 DEF ReadItems, C
    <3>4. C(w) \in Validators
      BY <2>2, CopyTypes DEF C
    <3> HIDE DEF read, r, n, q
    <3>5. C(w).class = w.class /\ C(w).items = r
      BY <3>1
    <3>6. r \in Seq(Validators) /\ DOMAIN r = 1..Len(r)
      BY <3>1, ItemsIn DEF Kept
    <3>7. \A class \in {"Any", "All"} : Keeps[w][class] => \A i \in 1..n :
            Keeps[q[i]][class] /\ (w.class = class => C(q[i]) # NullPtr)
      <4>1. Keeps[w] = KeepsBody(Keeps, w)
        BY <2>2, KeepsUnfolds
      <4> QED
        BY <2>7, <3>2, <4>1 DEF KeepsBody, C, q
    <3>8. ASSUME NEW i \in 1..n, C(q[i]) # NullPtr
          PROVE  /\ Alike(q[i])
                 /\ \E m \in 1..Len(r) : r[m] = C(q[i])
      <4>1. Alike(q[i])
        BY <2>4, <3>2, <3>8
      <4>2. \E m \in 1..Len(r) : r[m] = C(q[i])
        <5>1. \A p \in 1..n : read[p] # NullPtr => \E m \in 1..Len(r) : r[m] = read[p]
          BY <3>1 DEF Kept
        <5> QED
          BY <3>3, <3>8, <5>1
      <4> QED
        BY <4>1, <4>2
    <3>9. \A m \in 1..Len(r) : \E i \in 1..n : r[m] = C(q[i]) /\ C(q[i]) # NullPtr
      BY <3>1, <3>3 DEF Kept
    <3>10. Accepts[w] = AcceptsBody(Accepts, w) /\ Accepts[C(w)] = AcceptsBody(Accepts, C(w))
      BY <2>2, <3>4, AcceptsUnfolds
    <3>11. CASE w.class = "Any"
      <4>1. Accepts[w][j] <=> \E i \in 1..n : Accepts[q[i]][j]
        BY <3>2, <3>10, <3>11 DEF AcceptsBody, q
      <4>2. Accepts[C(w)][j] <=> \E m \in 1..Len(r) : Accepts[r[m]][j]
        BY <3>5, <3>6, <3>10, <3>11 DEF AcceptsBody
      <4>3. ASSUME Keeps[w]["Any"], Accepts[w][j] PROVE Accepts[C(w)][j]
        <5>1. PICK i \in 1..n : Accepts[q[i]][j]
          BY <4>1, <4>3
        <5>2. Keeps[q[i]]["Any"] /\ C(q[i]) # NullPtr
          BY <3>7, <3>11, <4>3
        <5>3. Accepts[C(q[i])][j]
          BY <3>8, <5>1, <5>2 DEF Alike
        <5> QED
          BY <3>8, <4>2, <5>2, <5>3
      <4>4. ASSUME Keeps[w]["All"], Accepts[C(w)][j] PROVE Accepts[w][j]
        <5>1. PICK m \in 1..Len(r) : Accepts[r[m]][j]
          BY <4>2, <4>4
        <5>2. PICK i \in 1..n : r[m] = C(q[i]) /\ C(q[i]) # NullPtr
          BY <3>9
        <5>3. Keeps[q[i]]["All"]
          BY <3>7, <4>4
        <5>4. Accepts[q[i]][j]
          BY <3>8, <5>1, <5>2, <5>3 DEF Alike
        <5> QED
          BY <4>1, <5>4
      <4> QED
        BY <4>3, <4>4 DEF Alike
    <3>12. CASE w.class = "All"
      <4>1. Accepts[w][j] <=> \A i \in 1..n : Accepts[q[i]][j]
        BY <3>2, <3>10, <3>12 DEF AcceptsBody, q
      <4>2. Accepts[C(w)][j] <=> \A m \in 1..Len(r) : Accepts[r[m]][j]
        BY <3>5, <3>6, <3>10, <3>12 DEF AcceptsBody
      <4>3. ASSUME Keeps[w]["Any"], Accepts[w][j] PROVE Accepts[C(w)][j]
        <5> SUFFICES ASSUME NEW m \in 1..Len(r) PROVE Accepts[r[m]][j]
          BY <4>2
        <5>1. PICK i \in 1..n : r[m] = C(q[i]) /\ C(q[i]) # NullPtr
          BY <3>9
        <5>2. Keeps[q[i]]["Any"] /\ Accepts[q[i]][j]
          BY <3>7, <4>1, <4>3
        <5> QED
          BY <3>8, <5>1, <5>2 DEF Alike
      <4>4. ASSUME Keeps[w]["All"], Accepts[C(w)][j] PROVE Accepts[w][j]
        <5> SUFFICES ASSUME NEW i \in 1..n PROVE Accepts[q[i]][j]
          BY <4>1
        <5>1. Keeps[q[i]]["All"] /\ C(q[i]) # NullPtr
          BY <3>7, <3>12, <4>4
        <5>2. Accepts[C(q[i])][j]
          BY <3>8, <4>2, <4>4, <5>1
        <5> QED
          BY <3>8, <5>1, <5>2 DEF Alike
      <4> QED
        BY <4>3, <4>4 DEF Alike
    <3> QED
      BY <2>7, <3>11, <3>12
  <2> QED
    BY <2>2, <2>5, <2>6, <2>7
<1> HIDE DEF T
<1>3. Depth + 1 \in Nat /\ Depth + 1 \in T
  BY <1>1, <1>2, NaturalInduction, Limits
<1>4. \A w \in Nested[Depth] : C(w) # NullPtr => Alike(w)
  BY <1>3, Limits DEF T
<1> QED
  BY <1>4

-----------------------------------------------------------------------------
(***************************************************************************)
(* The specification.                                                      *)
(***************************************************************************)

\* Where the published JSON comes from.
Published ==
  \/ original \in Given /\ json = Serialize[original]
  \/ original = NullPtr /\ json \in Texts

\* The inductive invariant: what each stage leaves in the other variables.
Way ==
  \/ stage = "given" /\ original \in Given /\ copy = NullPtr
  \/ stage = "written" /\ Published /\ copy = NullPtr
  \/ stage = "read" /\ Published /\ copy = Deserialize[json]
  \/ stage = "single" /\ Published /\ copy \in ReadSingle(json)
  \/ stage = "list" /\ Published /\ copy = ReadListItem(json)

\* A validator or a text, the JSON of it, and what its reader makes of it
\* belong together, in every stage.
THEOREM WayInductive == Spec => []Way
<1>1. Init => Way
  BY DEF Init, Way, Published
<1>2. Way /\ [Next]_vars => Way'
  <2> SUFFICES ASSUME Way, [Next]_vars PROVE Way'
    OBVIOUS
  <2>1. CASE Write
    BY <2>1 DEF Write, Way, Published
  <2>2. CASE Read
    BY <2>2 DEF Read, Way, Published
  <2>3. CASE ReadAsSingleType
    BY <2>3 DEF ReadAsSingleType, Way, Published
  <2>4. CASE ReadAsListItem
    BY <2>4 DEF ReadAsListItem, Way, Published
  <2>5. CASE UNCHANGED vars
    BY <2>5 DEF vars, Way, Published
  <2> QED
    BY <2>1, <2>2, <2>3, <2>4, <2>5 DEF Next
<1> QED
  BY <1>1, <1>2, PTL DEF Spec

\* What is published is JSON, and not too deep for its reader.
LEMMA PublishedTypes ==
  ASSUME Published
  PROVE  /\ json \in JsonUnder(2 * Depth + 4) /\ json \in Jsons
         /\ Deserialize[json] \in Validators \cup {NullPtr}
         /\ Deserialize[json] # NullPtr =>
              (Transmissible[Deserialize[json]] <=> Stringless[Deserialize[json]])
         /\ original # NullPtr =>
              original \in Nested[Depth] /\ original \in Validators /\ json = Serialize[original]
<1>1. /\ Depth \in 0..Depth + 1 /\ Depth + 1 \in 0..Depth + 2 /\ Depth + 2 \in 0..Depth + 2
      /\ 2 * (Depth + 1) + 2 = 2 * Depth + 4 /\ 2 * (Depth + 2) + 1 = (2 * Depth + 4) + 1
      /\ 2 * Depth + 4 \in 0..2 * Depth + 5 /\ 2 * Depth + 4 \in 0..(2 * Depth + 4) + 1
      /\ 2 * Depth + 4 \in 0..2 * Depth + 6
  BY Limits
<1>2. original \in Given =>
        original \in Nested[Depth] /\ original \in Under(Depth + 1) /\ original \in Validators
  BY <1>1, Limits, ValidatorsAssumption DEF ValidatorsAssumption
<1>3. json \in JsonUnder(2 * Depth + 4)
  <2>1. CASE original \in Given /\ json = Serialize[original]
    BY <1>1, <1>2, <2>1, SerializeTypes
  <2>2. CASE json \in Texts
    BY <2>2, Limits, ValidatorsAssumption DEF ValidatorsAssumption
  <2> QED
    BY <2>1, <2>2 DEF Published
<1>4. json \in JsonUnder(2 * (Depth + 2) + 1)
  BY <1>1, <1>3, Levels
<1>5. Deserialize[json] \in Sound(Depth + 2) \cup {NullPtr} /\ Sound(Depth + 2) \subseteq Validators
  BY <1>1, <1>4, DeserializeTypes, Limits DEF Sound
<1> QED
  BY <1>1, <1>2, <1>3, <1>5, Limits DEF Published, Sound

\* No client's validator is the null pointer.
LEMMA Originals ==
  ASSUME Way, original # NullPtr
  PROVE  /\ original \in Validators /\ original \in Nested[Depth]
         /\ stage = "read" => copy = Deserialize[Serialize[original]]
         /\ stage = "list" => copy = ReadListItem(Serialize[original]) /\ Serialize[original] \in Jsons
<1>1. original \in Given => original \in Nested[Depth] /\ original \in Validators
  <2>1. Depth + 1 \in 0..Depth + 2
    BY Limits
  <2> QED
    BY <2>1, Limits, ValidatorsAssumption DEF ValidatorsAssumption
<1> QED
  BY <1>1, PublishedTypes DEF Way, Published

-----------------------------------------------------------------------------
\* The reader gets the client's validator exactly if all of it is written, in
\* order, and not empty: Transmissible says so by the members alone.
THEOREM TransmissibleArrives == Spec => []RoundTrip
<1>1. Way => RoundTrip
  BY Originals, WayThere DEF RoundTrip
<1> QED
  BY <1>1, WayInductive, PTL

\* ListItem::deserializeFromJson, which Abstract does not call, reads its own.
THEOREM ListItemsArrive == Spec => []ListItemsReadDirectly
<1>1. Way => ListItemsReadDirectly
  <2> SUFFICES ASSUME Way, stage = "list", original # NullPtr
               PROVE  copy = original <=> original.class = "ListItem" /\ Transmissible[original.item]
    BY DEF ListItemsReadDirectly
  <2>1. /\ original \in Validators /\ original \in Nested[Depth]
        /\ copy = ReadListItem(Serialize[original]) /\ Serialize[original] \in Jsons
    BY Originals
  <2> DEFINE member == Member(Serialize[original], "list")
  <2>2. copy = IF member = Undefined \/ Deserialize[member] = NullPtr THEN NullPtr
               ELSE ListItem(Deserialize[member])
    BY <2>1 DEF ReadListItem
  <2>3. NullPtr \notin Validators
    BY ValidatorsAssumption DEF ValidatorsAssumption
  <2>4. /\ Depth \in 0..Depth + 1 /\ Depth \in 0..Depth + 2
        /\ 2 * Depth + 5 \in 0..2 * Depth + 5 /\ (2 * Depth + 5) + 1 = 2 * Depth + 6
    BY Limits
  <2>5. original \in ValidatorsOver(Under(Depth))
    BY <2>1, <2>4, UnderGrows, Limits
  <2> HIDE DEF member
  <2>6. CASE original.class # "ListItem"
    BY <2>1, <2>2, <2>3, <2>6 DEF ListItem
  <2>7. CASE original.class = "ListItem"
    <3>1. original.item \in Under(Depth) /\ original = ListItem(original.item)
      BY <2>5, <2>7, Classes DEF Dummy, Strings3
    <3> DEFINE item == original.item
    <3>2. item \in Validators
      BY <2>4, <3>1, Limits
    <3>3. Serialize[original] = Object([list |-> Serialize[item]])
      BY <2>1, <2>7, Written DEF SerializeBody
    <3>4. member = Serialize[item]
      BY <3>3 DEF member, Member, Object, JsonKeys
    <3>5. Serialize[item] # Undefined
      <4>1. Serialize[item] \in JsonOver(JsonUnder(2 * Depth + 5))
        BY <2>4, <3>2, Written, Levels, Limits
      <4> QED
        BY <4>1, JsonTypes DEF Undefined, Null
    <3>6. Deserialize[Serialize[item]] = item <=> Transmissible[item]
      BY <3>2, WayThere
    <3> HIDE DEF item
    <3>7. copy = IF Deserialize[Serialize[item]] = NullPtr THEN NullPtr
                 ELSE ListItem(Deserialize[Serialize[item]])
      BY <2>2, <3>4, <3>5
    <3>8. \A x, y : ListItem(x) = ListItem(y) => x = y
      <4>1. \A x : ListItem(x).item = x
        BY DEF ListItem
      <4> QED
        BY <4>1
    <3>9. original = ListItem(item) /\ item # NullPtr /\ original # NullPtr
      BY <2>1, <2>3, <3>1, <3>2 DEF item
    <3> QED
      BY <2>7, <3>6, <3>7, <3>8, <3>9 DEF item
  <2> QED
    BY <2>6, <2>7
<1> QED
  BY <1>1, WayInductive, PTL

\* No Any lost an item: the reader accepts all that the client does.
THEOREM NothingRefused == Spec => []CopyAcceptsNoLess
<1>1. Way => CopyAcceptsNoLess
  <2>1. Probes \subseteq Jsons
    BY ValidatorsAssumption DEF ValidatorsAssumption
  <2> QED
    BY <2>1, Originals, CopiesCompare DEF CopyAcceptsNoLess, Compared
<1> QED
  BY <1>1, WayInductive, PTL

\* No All lost an item: the reader accepts nothing that the client does not.
THEOREM NothingLetThrough == Spec => []CopyAcceptsNoMore
<1>1. Way => CopyAcceptsNoMore
  <2>1. Probes \subseteq Jsons
    BY ValidatorsAssumption DEF ValidatorsAssumption
  <2> QED
    BY <2>1, Originals, CopiesCompare DEF CopyAcceptsNoMore, Compared
<1> QED
  BY <1>1, WayInductive, PTL

-----------------------------------------------------------------------------
(***************************************************************************)
(* What validators without items accept.                                   *)
(***************************************************************************)

\* What validate of each class without items says.
LEMMA LeafAccepts ==
  ASSUME NEW v \in Validators, NEW j \in Jsons
  PROVE  /\ v.class = "SingleType" => (Accepts[v][j] <=> HasType(j, v.field))
         /\ v.class = "Types" => (Accepts[v][j] <=> \E t \in v.field : HasType(j, t))
         /\ v.class = "Path" => (Accepts[v][j] <=> j.type = "String" /\ AcceptsPath(v, j.str))
<1>1. Accepts[v] = AcceptsBody(Accepts, v)
  BY AcceptsUnfolds
<1> QED
  BY <1>1 DEF AcceptsBody

\* toInteger with the defaults -1 and 0 finds exactly the integers: no number
\* is equal to both.
LEMMA IntegersFound ==
  ASSUME NEW j \in Jsons
  PROVE  /\ IsInteger(j) <=> j.type = "Double" /\ j.integral
         /\ j.type # "Integer"
<1>1. 2 * Depth + 5 \in 0..2 * Depth + 5 /\ (2 * Depth + 5) + 1 = 2 * Depth + 6
  BY Limits
<1>2. j \in JsonOver(JsonUnder(2 * Depth + 5))
  BY <1>1, Levels, Limits
<1>3. j.type # "Integer" /\ (j.type = "Double" => j.number \in Int /\ j.integral \in BOOLEAN)
  BY <1>2, JsonTypes DEF Null
<1>4. IsInteger(j) <=> j.type = "Double" /\ j.integral
  <2>1. CASE j.type = "Double" /\ j.integral
    BY <1>3, <2>1 DEF IsInteger, ToInteger
  <2>2. CASE ~(j.type = "Double" /\ j.integral)
    BY <2>2 DEF IsInteger, ToInteger
  <2> QED
    BY <2>1, <2>2
<1> QED
  BY <1>3, <1>4

\* A copy of a validator without items is the same validator.
LEMMA LeafCopies ==
  ASSUME Way, Compared, original.class \notin {"Any", "All", "ListItem"}
  PROVE  original \in Validators /\ copy = original
BY Originals, LeafReads DEF Compared

\* The copy of a Types accepts what is of one of the types, and integers if
\* Integer is among them.
THEOREM TypesMeanTypes == Spec => []TypesAreExact
<1>1. Way => TypesAreExact
  <2> SUFFICES ASSUME Way, Compared, original.class = "Types", NEW j \in Probes
               PROVE  Accepts[copy][j] <=>
                        \/ j.type \in original.field
                        \/ "Integer" \in original.field /\ j.type = "Double" /\ j.integral
    BY DEF TypesAreExact
  <2>1. original \in Validators /\ copy = original
    BY LeafCopies
  <2>2. j \in Jsons
    BY ValidatorsAssumption DEF ValidatorsAssumption
  <2>3. Accepts[copy][j] <=> \E t \in original.field : HasType(j, t)
    BY <2>1, <2>2, LeafAccepts
  <2>4. /\ IsInteger(j) <=> j.type = "Double" /\ j.integral
        /\ j.type # "Integer"
    BY <2>2, IntegersFound
  <2> QED
    BY <2>3, <2>4 DEF HasType
<1> QED
  BY <1>1, WayInductive, PTL

\* SingleType::deserializeFromJson, which Abstract does not call, understands
\* every type's name but Integer.
THEOREM SingleTypesMeanTypes == Spec => []SingleTypesReadDirectly
<1>1. Way => SingleTypesReadDirectly
  <2> DEFINE name == Member(json, "types")
  <2> SUFFICES ASSUME Way, stage = "single", copy # NullPtr, name.str \in TypeNames \ {"Integer"},
                      NEW j \in Probes
               PROVE  Accepts[copy][j] <=> j.type = name.str
    BY DEF SingleTypesReadDirectly
  <2>1. copy \in ReadSingle(json)
    BY DEF Way
  <2>2. copy = SingleType(name.str)
    BY <2>1 DEF ReadSingle
  <2> HIDE DEF name
  <2>3. copy \in Validators
    <3>1. Depth + 1 \in 0..Depth + 1 /\ (Depth + 1) + 1 = Depth + 2
      BY Limits
    <3>2. copy \in ValidatorsOver(Under(Depth + 1))
      BY <2>2 DEF SingleType, ValidatorsOver
    <3> QED
      BY <3>1, <3>2, UnderGrows, Limits
  <2>4. j \in Jsons
    BY ValidatorsAssumption DEF ValidatorsAssumption
  <2>5. copy.class = "SingleType" /\ copy.field = name.str
    BY <2>2 DEF SingleType
  <2>6. Accepts[copy][j] <=> HasType(j, name.str)
    BY <2>3, <2>4, <2>5, LeafAccepts
  <2> QED
    BY <2>6 DEF HasType
<1> QED
  BY <1>1, WayInductive, PTL

\* The copies of OpenFile, SaveFile and ExistedDir accept the paths that their
\* names promise, in every file system.
THEOREM ReadyMadePathsMean == Spec => []ReadyMadePaths
<1>1. Way => ReadyMadePaths
  <2> SUFFICES ASSUME Way, Compared, original \in {OpenFile, SaveFile, ExistedDir}, NEW s \in Strings
               PROVE  Accepts[copy][String(s)] <=>
                        CASE original = OpenFile ->
                               File[s].exists /\ File[s].type = {"File"} /\ "Readable" \in File[s].perm
                          [] original = ExistedDir -> File[s].exists /\ File[s].type = {"Dir"}
                          [] original = SaveFile ->
                               IF File[s].exists
                               THEN File[s].type = {"File"} /\ "Writable" \in File[s].perm
                               ELSE File[s].parent
    BY DEF ReadyMadePaths
  <2>1. /\ OpenFile.class = "Path" /\ SaveFile.class = "Path" /\ ExistedDir.class = "Path"
        /\ OpenFile.existance = "Exist" /\ SaveFile.existance = "Undefined" /\ ExistedDir.existance = "Exist"
        /\ OpenFile.min_perm = {"Readable"} /\ SaveFile.min_perm = {"Writable"} /\ ExistedDir.min_perm = {}
        /\ OpenFile.max_perm = Permissions /\ SaveFile.max_perm = Permissions /\ ExistedDir.max_perm = Permissions
        /\ OpenFile.min_type = {"File"} /\ SaveFile.min_type = {"File"} /\ ExistedDir.min_type = {"Dir"}
        /\ OpenFile.max_type = {"File"} /\ SaveFile.max_type = {"File"} /\ ExistedDir.max_type = {"Dir"}
    BY DEF OpenFile, SaveFile, ExistedDir, Path
  <2>2. OpenFile # SaveFile /\ OpenFile # ExistedDir /\ SaveFile # ExistedDir
    BY <2>1
  <2>3. original \in Validators /\ copy = original
    BY <2>1, LeafCopies
  <2>4. String(s) \in Jsons /\ String(s).type = "String" /\ String(s).str = s
    <3>1. 2 * Depth + 5 \in 0..2 * Depth + 5 /\ (2 * Depth + 5) + 1 = 2 * Depth + 6
      BY Limits
    <3> QED
      BY <3>1, Levels, Limits, JsonConstructors DEF String
  <2>5. Accepts[copy][String(s)] <=> AcceptsPath(original, s)
    BY <2>1, <2>3, <2>4, LeafAccepts
  <2>6. /\ File[s].exists \in BOOLEAN /\ File[s].parent \in BOOLEAN
        /\ File[s].perm \in SUBSET Permissions /\ File[s].type \in SUBSET PathTypes
    BY LeafAssumption DEF LeafAssumption
  <2> DEFINE f == File[s]
  <2> HIDE DEF f
  <2>7. CASE original = OpenFile
    <3>1. AcceptsPath(OpenFile, s) <=> f.exists /\ f.type = {"File"} /\ "Readable" \in f.perm
      BY <2>1, <2>6 DEF AcceptsPath, Between, f
    <3> QED
      BY <2>2, <2>5, <2>7, <3>1 DEF f
  <2>8. CASE original = ExistedDir
    <3>1. AcceptsPath(ExistedDir, s) <=> f.exists /\ f.type = {"Dir"}
      BY <2>1, <2>6 DEF AcceptsPath, Between, f
    <3> QED
      BY <2>2, <2>5, <2>8, <3>1 DEF f
  <2>9. CASE original = SaveFile
    <3>1. AcceptsPath(SaveFile, s) <=>
            IF f.exists THEN f.type = {"File"} /\ "Writable" \in f.perm ELSE f.parent
      BY <2>1, <2>6 DEF AcceptsPath, Between, f
    <3> QED
      BY <2>2, <2>5, <2>9, <3>1 DEF f
  <2> QED
    BY <2>7, <2>8, <2>9
<1> QED
  BY <1>1, WayInductive, PTL

-----------------------------------------------------------------------------
(***************************************************************************)
(* What a reader makes of any text.                                        *)
(***************************************************************************)

\* What a reader makes of any text, at any depth, can be published again and
\* arrives (TransmissibleArrives), StringPrefix and StringSuffix excepted.
THEOREM ReadersFilter == Spec => []ReadCanBeSentOn
<1>1. Way => ReadCanBeSentOn
  BY PublishedTypes DEF Way, ReadCanBeSentOn
<1> QED
  BY <1>1, WayInductive, PTL
=============================================================================
