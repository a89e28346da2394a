--------------------------- MODULE RegistryProofs ---------------------------
(***************************************************************************)
(* Theorems about OptionRegistry, for any number of threads, names and     *)
(* calls.                                                                  *)
(***************************************************************************)
EXTENDS OptionRegistry, TLAPS

\* Who holds options_lock_, and where.
LockHeld ==
  /\ \A t \in Threads : step[t] = "find" <=> t \in readers
  /\ loop = "subscribing" <=> Loop \in readers
  /\ \A t \in Threads : step[t] \in {"emplace", "connect", "return"} <=> writer = t
  /\ writer # Nobody => readers = {}

\* An object in the map was made by one call, which has got past emplace, and
\* is under one name.
MadeOnce ==
  /\ \A n \in Names, t \in Threads, k \in 1..MaxCalls : options[n] = <<t, k>> =>
       /\ k <= calls[t]
       /\ k = calls[t] => step[t] \notin {"read", "find", "write", "emplace"}
  /\ \A m, n \in Names : Registered(n) /\ options[m] = options[n] => m = n
  /\ \A t \in Threads : step[t] # "idle" => calls[t] >= 1

\* The slots of an object in the map are connected, or about to be by the
\* thread that made it; nobody else has seen the object before.
ConnectedOnce ==
  /\ \A o \in Objects : slots[o] # 0 => \E n \in Names : options[n] = o
  /\ \A t \in Threads : step[t] = "connect" =>
       /\ options[wants[t]] = <<t, calls[t]>>
       /\ slots[<<t, calls[t]>>] = 0
       /\ \A o \in Objects : <<wants[t], o>> \notin results
  /\ \A n \in Names : Registered(n) =>
       \/ slots[options[n]] = 1
       \/ \E t \in Threads : step[t] = "connect" /\ wants[t] = n
  /\ \A t \in Threads : step[t] = "return" => Registered(wants[t])

\* Where the subscriptions are.
SubscribedSoFar ==
  /\ online <=> loop # "offline"
  /\ loop = "subscribing" => visited \subseteq subscribed

RegistryInv ==
  /\ TypeOK
  /\ LockHeld
  /\ MadeOnce
  /\ ConnectedOnce
  /\ OneObjectPerName
  /\ SubscribedSoFar
  /\ NoneMissed

\* The initial state.
LEMMA InitRegistry == Init => RegistryInv
  <1> SUFFICES ASSUME Init PROVE RegistryInv
    OBVIOUS
  <1> USE RegistryAssumption DEF RegistryAssumption, Init
  <1>1. TypeOK
    <2>1. /\ calls \in [Threads -> 0..MaxCalls] /\ slots \in [Objects -> 0..1]
          /\ sessions \in 0..MaxSessions
      OBVIOUS
    <2> QED
      BY <2>1 DEF TypeOK
  <1>2. LockHeld
    BY DEF LockHeld
  <1>3. MadeOnce /\ ConnectedOnce
    BY DEF MadeOnce, ConnectedOnce, Registered, Objects
  <1>4. OneObjectPerName /\ SubscribedSoFar /\ NoneMissed
    BY DEF OneObjectPerName, SubscribedSoFar, NoneMissed
  <1> QED
    BY <1>1, <1>2, <1>3, <1>4 DEF RegistryInv

-----------------------------------------------------------------------------
\* An invariant that speaks of the shape of objects needs this.
LEMMA ObjectShape ==
  ASSUME TypeOK
  PROVE  /\ Null \notin Objects
         /\ \A t \in Threads : step[t] # "idle" /\ MadeOnce => <<t, calls[t]>> \in Objects
         /\ \A o \in Objects : \E t \in Threads, k \in 1..MaxCalls : o = <<t, k>>
  BY RegistryAssumption DEF RegistryAssumption, TypeOK, Objects, MadeOnce

\* A call begins.
LEMMA CallStep ==
  ASSUME RegistryInv, NEW t \in Threads, NEW n \in Names, NEW create \in BOOLEAN,
         NEW s \in {"read", "write"}, Call(t, s, n, create)
  PROVE  RegistryInv'
  <1> USE RegistryAssumption
      DEF RegistryAssumption, Call, Goto, mapVars, lockVars, loopVars, RegistryInv, TypeOK
  <1>1. TypeOK'
    OBVIOUS
  <1>2. LockHeld'
    BY DEF LockHeld
  <1>3. MadeOnce'
    BY DEF MadeOnce, Registered
  <1>4. ConnectedOnce'
    BY DEF ConnectedOnce, Registered
  <1>5. OneObjectPerName' /\ SubscribedSoFar' /\ NoneMissed'
    BY DEF OneObjectPerName, SubscribedSoFar, NoneMissed, Registered
  <1> QED
    BY <1>1, <1>2, <1>3, <1>4, <1>5

\* option() looks for the name under the read lock.
LEMMA ReadStep ==
  ASSUME RegistryInv, NEW t \in Threads, LockForReading(t) \/ Find(t)
  PROVE  RegistryInv'
  <1> USE RegistryAssumption
      DEF RegistryAssumption, Goto, mapVars, lockVars, loopVars, RegistryInv, TypeOK
  <1>1. CASE LockForReading(t)
    <2> USE <1>1 DEF LockForReading
    <2>1. TypeOK'
      OBVIOUS
    <2>2. LockHeld'
      BY DEF LockHeld
    <2>3. MadeOnce' /\ ConnectedOnce'
      BY DEF MadeOnce, ConnectedOnce, Registered
    <2>4. OneObjectPerName' /\ SubscribedSoFar' /\ NoneMissed'
      BY DEF OneObjectPerName, SubscribedSoFar, NoneMissed, Registered
    <2> QED
      BY <2>1, <2>2, <2>3, <2>4
  <1>2. CASE Find(t)
    <2> USE <1>2 DEF Find, Released
    <2>0. /\ \/ results' = results
             \/ Registered(wants[t]) /\ results' = results \cup {<<wants[t], options[wants[t]]>>}
          /\ \A u \in Threads : step[u] # "connect"
      BY DEF LockHeld
    <2>1. TypeOK'
      BY <2>0 DEF Registered
    <2>2. LockHeld'
      BY DEF LockHeld
    <2>3. MadeOnce'
      BY DEF MadeOnce, Registered
    <2>4. ConnectedOnce'
      BY <2>0 DEF ConnectedOnce, Registered
    <2>5. OneObjectPerName' /\ SubscribedSoFar' /\ NoneMissed'
      BY <2>0 DEF OneObjectPerName, SubscribedSoFar, NoneMissed, Registered
    <2> QED
      BY <2>1, <2>2, <2>3, <2>4, <2>5
  <1> QED
    BY <1>1, <1>2

\* addOption takes the write lock.
LEMMA WriteStep ==
  ASSUME RegistryInv, NEW t \in Threads, LockForWriting(t)
  PROVE  RegistryInv'
  <1> USE RegistryAssumption
      DEF RegistryAssumption, LockForWriting, MayWrite, Goto, mapVars, loopVars,
          RegistryInv, TypeOK
  <1>1. TypeOK'
    OBVIOUS
  <1>2. LockHeld'
    BY DEF LockHeld
  <1>3. MadeOnce' /\ ConnectedOnce'
    BY DEF MadeOnce, ConnectedOnce, Registered
  <1>4. OneObjectPerName' /\ SubscribedSoFar' /\ NoneMissed'
    BY DEF OneObjectPerName, SubscribedSoFar, NoneMissed, Registered
  <1> QED
    BY <1>1, <1>2, <1>3, <1>4

\* emplace inserts a new object, or nothing.
LEMMA EmplaceStep ==
  ASSUME RegistryInv, NEW t \in Threads, Emplace(t)
  PROVE  RegistryInv'
  <1> USE RegistryAssumption
      DEF RegistryAssumption, Emplace, IsNew, Inserts, Goto, lockVars, loopVars, RegistryInv
  <1>1. <<t, calls[t]>> \in Objects /\ Null \notin Objects
    BY ObjectShape
  <1>2. TypeOK'
    BY <1>1 DEF TypeOK
  <1>3. LockHeld'
    BY DEF LockHeld, TypeOK
  <1>4. \A u \in Threads : u # t => step[u] \notin {"emplace", "connect", "return"}
    BY DEF LockHeld
  <1>5. CASE Registered(wants[t])
    <2>1. MadeOnce' /\ ConnectedOnce'
      BY <1>5 DEF MadeOnce, ConnectedOnce, Registered, TypeOK
    <2>2. OneObjectPerName' /\ SubscribedSoFar' /\ NoneMissed'
      BY <1>5 DEF OneObjectPerName, SubscribedSoFar, NoneMissed, Registered, TypeOK
    <2> QED
      BY <1>2, <1>3, <2>1, <2>2
  <1>6. CASE ~Registered(wants[t])
    <2>1. /\ options' = [options EXCEPT ![wants[t]] = <<t, calls[t]>>]
          /\ step' = [step EXCEPT ![t] = "connect"]
      BY <1>6
    <2>2. \A n \in Names : options[n] # <<t, calls[t]>>
      BY <1>1 DEF MadeOnce, Objects
    <2>3. MadeOnce'
      <3>1. /\ options'[wants[t]] = <<t, calls[t]>>
            /\ \A n \in Names : n # wants[t] => options'[n] = options[n]
            /\ step'[t] = "connect" /\ \A u \in Threads : u # t => step'[u] = step[u]
            /\ UNCHANGED calls /\ calls[t] \in 1..MaxCalls
        BY <1>1, <2>1 DEF TypeOK, Objects
      <3>2. \A n \in Names, u \in Threads, k \in 1..MaxCalls : options'[n] = <<u, k>> =>
              /\ k <= calls[u]
              /\ k = calls[u] => step'[u] \notin {"read", "find", "write", "emplace"}
        <4> SUFFICES ASSUME NEW n \in Names, NEW u \in Threads, NEW k \in 1..MaxCalls,
                            options'[n] = <<u, k>>
                     PROVE  /\ k <= calls[u]
                            /\ k = calls[u] =>
                                 step'[u] \notin {"read", "find", "write", "emplace"}
          OBVIOUS
        <4>1. CASE n = wants[t]
          BY <3>1, <4>1
        <4>2. CASE n # wants[t]
          BY <3>1, <4>2 DEF MadeOnce
        <4> QED
          BY <4>1, <4>2
      <3>3. \A m, n \in Names : Registered(n)' /\ options'[m] = options'[n] => m = n
        BY <2>2, <3>1 DEF MadeOnce, Registered
      <3> QED
        BY <3>1, <3>2, <3>3 DEF MadeOnce
    <2>4. slots[<<t, calls[t]>>] = 0
      BY <1>1, <2>2 DEF ConnectedOnce
    <2>5. \A o \in Objects : <<wants[t], o>> \notin results
      BY <1>1, <1>6 DEF OneObjectPerName, Registered, TypeOK
    <2>6. ConnectedOnce'
      BY <1>1, <1>4, <1>6, <2>1, <2>4, <2>5 DEF ConnectedOnce, Registered, TypeOK
    <2>7. OneObjectPerName' /\ SubscribedSoFar' /\ NoneMissed'
      BY <1>4, <2>1, <2>5 DEF OneObjectPerName, SubscribedSoFar, NoneMissed, Registered, TypeOK
    <2> QED
      BY <1>2, <1>3, <2>3, <2>6, <2>7
  <1> QED
    BY <1>5, <1>6

\* The slots are connected and the subscription is made.
LEMMA ConnectStep ==
  ASSUME RegistryInv, NEW t \in Threads, Connect(t)
  PROVE  RegistryInv'
  <1> USE RegistryAssumption
      DEF RegistryAssumption, Connect, SlotsOf, Subscribes, Goto, lockVars, loopVars,
          RegistryInv
  <1>1. /\ <<t, calls[t]>> \in Objects /\ Null \notin Objects
        /\ options[wants[t]] = <<t, calls[t]>> /\ slots[<<t, calls[t]>>] = 0
    BY ObjectShape DEF ConnectedOnce
  <1>2. slots' = [slots EXCEPT ![<<t, calls[t]>>] = 1]
    BY <1>1 DEF TypeOK
  <1>3. TypeOK'
    BY <1>1, <1>2 DEF TypeOK
  <1>4. LockHeld'
    BY DEF LockHeld, TypeOK
  <1>5. MadeOnce'
    BY DEF MadeOnce, Registered, TypeOK
  <1>6. \A u \in Threads : u # t => step[u] \notin {"emplace", "connect", "return"}
    BY DEF LockHeld
  <1>7. ConnectedOnce'
    BY <1>1, <1>2, <1>6 DEF ConnectedOnce, Registered, TypeOK
  <1>8. OneObjectPerName' /\ SubscribedSoFar'
    BY DEF OneObjectPerName, SubscribedSoFar
  <1>9. NoneMissed'
    BY <1>6 DEF NoneMissed, Registered, TypeOK, SubscribedSoFar
  <1> QED
    BY <1>3, <1>4, <1>5, <1>7, <1>8, <1>9

\* addOption returns.
LEMMA ReturnStep ==
  ASSUME RegistryInv, NEW t \in Threads, Return(t)
  PROVE  RegistryInv'
  <1> USE RegistryAssumption
      DEF RegistryAssumption, Return, Goto, mapVars, loopVars, RegistryInv
  <1>1. Registered(wants[t]) /\ \A u \in Threads : step[u] # "connect"
    BY DEF ConnectedOnce, LockHeld
  <1>2. TypeOK'
    BY <1>1 DEF TypeOK, Registered
  <1>3. LockHeld'
    BY DEF LockHeld, TypeOK
  <1>4. MadeOnce' /\ ConnectedOnce'
    BY <1>1 DEF MadeOnce, ConnectedOnce, Registered, TypeOK
  <1>5. OneObjectPerName' /\ SubscribedSoFar' /\ NoneMissed'
    BY <1>1 DEF OneObjectPerName, SubscribedSoFar, NoneMissed, Registered, TypeOK
  <1> QED
    BY <1>2, <1>3, <1>4, <1>5

\* The event loop connects, subscribes, and loses the connection.
LEMMA LoopSteps ==
  ASSUME RegistryInv, LoopStep \/ SocketUp \/ LinkLost
  PROVE  RegistryInv'
  <1> USE RegistryAssumption
      DEF RegistryAssumption, callVars, mapVars, lockVars, RegistryInv
  <1>1. CASE SocketUp \/ LinkLost
    <2>1. TypeOK'
      <3>1. sessions' \in 0..MaxSessions /\ UNCHANGED <<callVars, mapVars, lockVars>>
        BY <1>1 DEF SocketUp, LinkLost, TypeOK, loopVars
      <3> QED
        BY <1>1, <3>1 DEF SocketUp, LinkLost, TypeOK
    <2>2. LockHeld' /\ MadeOnce' /\ ConnectedOnce' /\ OneObjectPerName'
      BY <1>1 DEF SocketUp, LinkLost, LockHeld, MadeOnce, ConnectedOnce, OneObjectPerName, Registered
    <2>3. SubscribedSoFar' /\ NoneMissed'
      BY <1>1 DEF SocketUp, LinkLost, SubscribedSoFar, NoneMissed, Registered
    <2> QED
      BY <2>1, <2>2, <2>3
  <1>2. CASE LoopStep
    <2>1. TypeOK'
      BY <1>2 DEF LoopStep, LockForSubscriptions, SubscribeNext, EndSubscriptions, TypeOK
    <2>2. LockHeld'
      BY <1>2
         DEF LoopStep, LockForSubscriptions, MayRead, SubscribeNext, EndSubscriptions, LockHeld,
             TypeOK
    <2>3. MadeOnce' /\ ConnectedOnce' /\ OneObjectPerName'
      BY <1>2
         DEF LoopStep, LockForSubscriptions, SubscribeNext, EndSubscriptions, MadeOnce,
             ConnectedOnce, OneObjectPerName, Registered
    <2>4. SubscribedSoFar' /\ NoneMissed'
      BY <1>2
         DEF LoopStep, LockForSubscriptions, SubscribeNext, EndSubscriptions, SubscribedSoFar,
             NoneMissed, Registered, TypeOK
    <2> QED
      BY <2>1, <2>2, <2>3, <2>4
  <1> QED
    BY <1>1, <1>2

-----------------------------------------------------------------------------
\* Every step keeps the invariant.
LEMMA NextRegistry == RegistryInv /\ [Next]_vars => RegistryInv'
  <1> SUFFICES ASSUME RegistryInv, [Next]_vars
               PROVE  RegistryInv'
    OBVIOUS
  <1>1. CASE UNCHANGED vars
    BY <1>1
       DEF vars, callVars, mapVars, lockVars, loopVars, RegistryInv, TypeOK, LockHeld, MadeOnce,
           ConnectedOnce, OneObjectPerName, SubscribedSoFar, NoneMissed, Registered
  <1>2. ASSUME NEW t \in Threads, NEW n \in Names,
               CallAddOption(t, n) \/ \E create \in BOOLEAN : CallOption(t, n, create)
        PROVE  RegistryInv'
    BY <1>2, CallStep DEF CallAddOption, CallOption
  <1>3. ASSUME NEW t \in Threads, Proceed(t)
        PROVE  RegistryInv'
    BY <1>3, ReadStep, WriteStep, EmplaceStep, ConnectStep, ReturnStep DEF Proceed
  <1> QED
    BY <1>1, <1>2, <1>3, LoopSteps DEF Next

\* The invariant holds in every behaviour.
LEMMA RegistryInvariant == Spec => []RegistryInv
  BY InitRegistry, NextRegistry, PTL DEF Spec

\* The state is well typed.
THEOREM RegistryTyped == Spec => []TypeOK
  <1>1. RegistryInv => TypeOK
    BY DEF RegistryInv
  <1> QED
    BY <1>1, RegistryInvariant, PTL

\* The gap between the two locks of option() is harmless.
THEOREM SameObject == Spec => []OneObjectPerName
  <1>1. RegistryInv => OneObjectPerName
    BY DEF RegistryInv
  <1> QED
    BY <1>1, RegistryInvariant, PTL

\* What option() and addOption return is connected to its slots, once.
THEOREM ReturnedConnected == Spec => []ReturnedIsConnected
  <1>1. RegistryInv => ReturnedIsConnected
    <2> SUFFICES ASSUME RegistryInv, NEW n \in Names, NEW o \in Objects, <<n, o>> \in results
                 PROVE  slots[o] = 1
      BY DEF ReturnedIsConnected
    <2>1. options[n] = o /\ Registered(n)
      BY RegistryAssumption
         DEF RegistryInv, OneObjectPerName, Registered, RegistryAssumption, Objects
    <2>2. \A t \in Threads : step[t] = "connect" => wants[t] # n
      BY DEF RegistryInv, ConnectedOnce
    <2> QED
      BY <2>1, <2>2 DEF RegistryInv, ConnectedOnce
  <1> QED
    BY <1>1, RegistryInvariant, PTL

\* addOption and setupSubscriptions together miss no option.
THEOREM AllSubscribed == Spec => []NoneMissed
  <1>1. RegistryInv => NoneMissed
    BY DEF RegistryInv
  <1> QED
    BY <1>1, RegistryInvariant, PTL

\* The lock keeps the map from changing under its readers.
THEOREM StableMap == Spec => []MapIsStableForReaders
  <1>1. RegistryInv => MapIsStableForReaders
    <2> SUFFICES ASSUME RegistryInv, NEW t \in Threads,
                        step[t] \in {"emplace", "connect", "return"}
                 PROVE  /\ loop # "subscribing"
                        /\ \A u \in Threads : u # t => step[u] \in {"idle", "read", "write"}
      BY DEF MapIsStableForReaders
    <2>1. writer = t /\ readers = {}
      BY RegistryAssumption DEF RegistryAssumption, RegistryInv, LockHeld
    <2> QED
      BY <2>1 DEF RegistryInv, LockHeld, TypeOK
  <1> QED
    BY <1>1, RegistryInvariant, PTL
=============================================================================
