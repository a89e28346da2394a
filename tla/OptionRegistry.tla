--------------------------- MODULE OptionRegistry ---------------------------
(***************************************************************************)
(* Client's map of options and its QReadWriteLock, when several threads    *)
(* call option and addOption while the thread of the event loop connects   *)
(* and subscribes.  The map of parameters works in the same way, but for   *)
(* the subscriptions.                                                      *)
(***************************************************************************)
EXTENDS Integers

CONSTANTS
  Threads,     \* threads of the application
  Loop,        \* the thread of the event loop
  Names,       \* names of options
  Null,        \* the null pointer
  Nobody,      \* no thread
  MaxCalls,    \* bound on the calls by one thread
  MaxSessions  \* bound on the connections

ASSUME RegistryAssumption ==
  /\ Loop \notin Threads /\ Nobody \notin Threads \cup {Loop}
  /\ MaxCalls \in Nat /\ MaxSessions \in Nat
  /\ Null \notin Threads \X (1..MaxCalls)

\* A NamedValue is known by the call that made it.
Objects == Threads \X (1..MaxCalls)

VARIABLES
  step,        \* where each thread is: idle, or what it does next
  wants,       \* the argument name of its call
  creates,     \* the argument create_if_not_found
  calls,       \* its calls so far
  options,     \* options_
  slots,       \* how often an object is connected to the upload slots
  readers,     \* threads that hold options_lock_ for reading
  writer,      \* the thread that holds it for writing
  online,      \* mqtt_client_->isConnectedToHost()
  loop,        \* where the event loop is
  visited,     \* the names its iteration has been at
  subscribed,  \* the names subscribed to since the connection was made
  sessions,    \* connections so far
  results      \* history: names asked for with the objects returned

callVars == <<step, wants, creates, calls, results>>
mapVars == <<options, slots>>
lockVars == <<readers, writer>>
loopVars == <<online, loop, visited, sessions>>
vars == <<callVars, mapVars, lockVars, loopVars, subscribed>>

TypeOK ==
  /\ step \in [Threads -> {"idle", "read", "find", "write", "emplace", "connect", "return"}]
  /\ wants \in [Threads -> Names]
  /\ creates \in [Threads -> BOOLEAN]
  /\ calls \in [Threads -> 0..MaxCalls]
  /\ options \in [Names -> Objects \cup {Null}]
  /\ slots \in [Objects -> 0..1]
  /\ readers \subseteq Threads \cup {Loop}
  /\ writer \in Threads \cup {Nobody}
  /\ online \in BOOLEAN
  /\ loop \in {"offline", "connected", "subscribing", "session"}
  /\ visited \subseteq Names /\ subscribed \subseteq Names
  /\ sessions \in 0..MaxSessions
  /\ results \subseteq Names \X Objects

Init ==
  /\ step = [t \in Threads |-> "idle"]
  /\ wants \in [Threads -> Names]
  /\ creates = [t \in Threads |-> FALSE]
  /\ calls = [t \in Threads |-> 0]
  /\ options = [n \in Names |-> Null]
  /\ slots = [o \in Objects |-> 0]
  /\ readers = {} /\ writer = Nobody
  /\ online = FALSE /\ loop = "offline"
  /\ visited = {} /\ subscribed = {} /\ sessions = 0
  /\ results = {}

Goto(t, s) == step' = [step EXCEPT ![t] = s]

Registered(n) == options[n] # Null

-----------------------------------------------------------------------------
(***************************************************************************)
(* option and addOption.  A definition named ...Fault is a plausible       *)
(* mistake in the one after it.                                            *)
(***************************************************************************)

Call(t, s, n, create) ==
  /\ step[t] = "idle" /\ calls[t] < MaxCalls
  /\ calls' = [calls EXCEPT ![t] = @ + 1]
  /\ wants' = [wants EXCEPT ![t] = n]
  /\ creates' = [creates EXCEPT ![t] = create]
  /\ Goto(t, s)
  /\ UNCHANGED <<results, subscribed, mapVars, lockVars, loopVars>>

CallOption(t, n, create) == Call(t, "read", n, create)

CallAddOption(t, n) == Call(t, "write", n, TRUE)

\* The QReadLocker of option().
LockForReading(t) ==
  /\ step[t] = "read" /\ writer = Nobody
  /\ readers' = readers \cup {t}
  /\ Goto(t, "find")
  /\ UNCHANGED <<wants, creates, calls, results, writer, subscribed, mapVars, loopVars>>

\* The lock is kept until option() returns.
ReleasedFault(t) == IF Registered(wants[t]) THEN readers \ {t} ELSE readers

\* Both ways out of find() release the lock.
Released(t) == readers \ {t}

\* find() in option(): what is found is returned, what is not is created by
\* addOption or reported as null.
Find(t) ==
  /\ step[t] = "find"
  /\ readers' = Released(t)
  /\ \/ /\ Registered(wants[t])
        /\ results' = results \cup {<<wants[t], options[wants[t]]>>}
        /\ Goto(t, "idle")
     \/ /\ ~Registered(wants[t])
        /\ Goto(t, IF creates[t] THEN "write" ELSE "idle")
        /\ UNCHANGED results
  /\ UNCHANGED <<wants, creates, calls, writer, subscribed, mapVars, loopVars>>

\* Readers do not count.
MayWriteFault == writer = Nobody

MayWrite == writer = Nobody /\ readers = {}

\* The QWriteLocker of addOption.
LockForWriting(t) ==
  /\ step[t] = "write" /\ MayWrite
  /\ writer' = t
  /\ Goto(t, "emplace")
  /\ UNCHANGED <<wants, creates, calls, results, readers, subscribed, mapVars, loopVars>>

\* options_[name] = ... instead of emplace.
InsertsFault(t) == TRUE

\* emplace inserts only if there is no such name.
Inserts(t) == ~Registered(wants[t])

\* The slots are connected for an object that existed, too.
IsNewFault(t) == TRUE

\* itr.second.
IsNew(t) == ~Registered(wants[t])

Emplace(t) ==
  /\ step[t] = "emplace"
  /\ options' = IF Inserts(t) THEN [options EXCEPT ![wants[t]] = <<t, calls[t]>>] ELSE options
  /\ Goto(t, IF IsNew(t) THEN "connect" ELSE "return")
  /\ UNCHANGED <<wants, creates, calls, results, slots, subscribed, lockVars, loopVars>>

SlotsOf(o) == [slots EXCEPT ![o] = @ + 1]

\* setupSubscriptions is left to make all subscriptions.
SubscribesFault(t) == FALSE

\* setupSubscriptionsForOption is called if the socket is open.
Subscribes(t) == online

\* The new object is connected to the slots that upload its value and its
\* validator, and subscribed to if the socket is open.
Connect(t) ==
  /\ step[t] = "connect"
  /\ slots' = SlotsOf(options[wants[t]])
  /\ subscribed' = IF Subscribes(t) THEN subscribed \cup {wants[t]} ELSE subscribed
  /\ Goto(t, "return")
  /\ UNCHANGED <<wants, creates, calls, results, options, lockVars, loopVars>>

\* addOption returns what the map has, and its locker unlocks.
Return(t) ==
  /\ step[t] = "return"
  /\ writer' = Nobody
  /\ results' = results \cup {<<wants[t], options[wants[t]]>>}
  /\ Goto(t, "idle")
  /\ UNCHANGED <<wants, creates, calls, readers, subscribed, mapVars, loopVars>>

-----------------------------------------------------------------------------
(***************************************************************************)
(* The thread of the event loop.                                           *)
(***************************************************************************)

\* The socket opens, whatever the other threads are doing.
SocketUp ==
  /\ loop = "offline" /\ sessions < MaxSessions
  /\ sessions' = sessions + 1
  /\ online' = TRUE /\ loop' = "connected"
  /\ UNCHANGED <<visited, subscribed, callVars, mapVars, lockVars>>

MayRead == writer = Nobody

\* The QReadLocker of setupSubscriptions.
LockForSubscriptions ==
  /\ loop = "connected" /\ MayRead
  /\ readers' = readers \cup {Loop}
  /\ visited' = {} /\ loop' = "subscribing"
  /\ UNCHANGED <<online, sessions, writer, subscribed, callVars, mapVars>>

\* One pass of its loop.
SubscribeNext(n) ==
  /\ loop = "subscribing"
  /\ Registered(n) /\ n \notin visited
  /\ visited' = visited \cup {n}
  /\ subscribed' = subscribed \cup {n}
  /\ UNCHANGED <<online, loop, sessions, callVars, mapVars, lockVars>>

EndSubscriptions ==
  /\ loop = "subscribing"
  /\ \A n \in Names : Registered(n) => n \in visited
  /\ readers' = readers \ {Loop}
  /\ loop' = "session"
  /\ UNCHANGED <<online, visited, sessions, writer, subscribed, callVars, mapVars>>

\* The event loop learns of it between two handlers.  The next session is a
\* clean one.
LinkLost ==
  /\ loop \in {"connected", "session"}
  /\ online' = FALSE /\ loop' = "offline"
  /\ subscribed' = {}
  /\ UNCHANGED <<visited, sessions, callVars, mapVars, lockVars>>

-----------------------------------------------------------------------------
\* What a thread does once it has called.
Proceed(t) ==
  \/ LockForReading(t) \/ Find(t)
  \/ LockForWriting(t) \/ Emplace(t) \/ Connect(t) \/ Return(t)

LoopStep ==
  \/ LockForSubscriptions
  \/ \E n \in Names : SubscribeNext(n)
  \/ EndSubscriptions

Next ==
  \/ \E t \in Threads, n \in Names :
       CallAddOption(t, n) \/ \E create \in BOOLEAN : CallOption(t, n, create)
  \/ \E t \in Threads : Proceed(t)
  \/ LoopStep
  \/ SocketUp
  \/ LinkLost

Spec == Init /\ [][Next]_vars

\* The scheduler runs every thread that can run.
FairSpec ==
  /\ Spec
  /\ \A t \in Threads : WF_vars(Proceed(t))
  /\ WF_vars(LoopStep)

-----------------------------------------------------------------------------
(***************************************************************************)
(* Properties.                                                             *)
(***************************************************************************)

\* Whoever asks for a name gets the same object, although option() gives up
\* its lock between finding nothing and calling addOption.
OneObjectPerName ==
  \A n \in Names, o \in Objects : <<n, o>> \in results => options[n] = o

\* An object that has been returned uploads each change once.
ReturnedIsConnected ==
  \A n \in Names, o \in Objects : <<n, o>> \in results => slots[o] = 1

\* In a session each option is subscribed to, whether it was added before the
\* socket opened, while the event loop waited for the lock or iterated, or
\* later; at most the thread that adds it has not got there yet.
NoneMissed ==
  loop = "session" =>
    \A n \in Names : Registered(n) =>
      n \in subscribed \/ \E t \in Threads : step[t] = "connect" /\ wants[t] = n

\* The map is not changed while option() searches it or setupSubscriptions
\* iterates over it.
MapIsStableForReaders ==
  \A t \in Threads : step[t] \in {"emplace", "connect", "return"} =>
    /\ loop # "subscribing"
    /\ \A u \in Threads : u # t => step[u] \in {"idle", "read", "write"}

\* Nobody waits for ever: each call returns.
CallsReturn == \A t \in Threads : step[t] # "idle" ~> step[t] = "idle"
=============================================================================
