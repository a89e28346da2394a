--------------------------- MODULE LogFileProofs ---------------------------
(***************************************************************************)
(* What LogFile promises, for any number of processes and of old logs.     *)
(***************************************************************************)
EXTENDS LogFile, TLAPS

-----------------------------------------------------------------------------
(***************************************************************************)
(* Types.                                                                  *)
(***************************************************************************)

\* The initial state is well typed.
LEMMA InitTypes == Init => TypeOK
<1> SUFFICES ASSUME Init
             PROVE  TypeOK
  OBVIOUS
<1>1. PICK n \in OldLogs :
        \/ dir = [k \in 1..n |-> k] /\ logs = n
        \/ dir = [k \in 0..n |-> IF k = Current THEN n + 1 ELSE k] /\ logs = n + 1
  BY DEF Init
<1>2. n \in Nat
  BY LogAssumption DEF LogAssumption
<1>3. logs \in Nat /\ Names \subseteq Nat /\ dir \in [Names -> 1..logs]
  BY <1>1, <1>2 DEF Names, Current
<1> QED
  BY <1>3 DEF Init, TypeOK, NoLines, Steps, NoLog

\* Every step keeps the types.
LEMMA NextTypes == TypeOK /\ [Next]_vars => TypeOK'
<1> SUFFICES ASSUME TypeOK, [Next]_vars
             PROVE  TypeOK'
  OBVIOUS
<1> USE DEF TypeOK, Names
<1>1. ASSUME NEW p \in Processes, CheckDirectory(p)
      PROVE  TypeOK'
  BY <1>1 DEF CheckDirectory, Goto, Steps, Installing, fileVars, logVars
<1>2. ASSUME NEW p \in Processes, MakeDirectory(p)
      PROVE  TypeOK'
  BY <1>2 DEF MakeDirectory, Install, Goto, Steps, Installing
<1>3. ASSUME NEW p \in Processes, CheckCurrent(p)
      PROVE  TypeOK'
  BY <1>3 DEF CheckCurrent, Install, Goto, Steps, Installing, fileVars
<1>4. ASSUME NEW p \in Processes, Search(p)
      PROVE  TypeOK'
  BY <1>4 DEF Search, Install, Goto, Steps, Installing, fileVars
<1>5. ASSUME NEW p \in Processes, Rename(p)
      PROVE  TypeOK'
  <2>1. CASE dir' = Renamed(count[p]) /\ Occupied(Current)
    <3>1. dir' \in [Names' -> 1..logs] /\ Names' \subseteq Nat
      BY <2>1 DEF Renamed, Occupied
    <3> QED
      BY <1>5, <3>1 DEF Rename, Install, Goto, Steps, Installing, fileVars
  <2>2. CASE UNCHANGED fileVars
    BY <1>5, <2>2 DEF Rename, Install, Goto, Steps, Installing, fileVars
  <2> QED
    BY <1>5, <2>1, <2>2 DEF Rename
<1>6. ASSUME NEW p \in Processes, Open(p)
      PROVE  TypeOK'
  <2>1. CASE Occupied(Current)
    <3>1. log_file' = [log_file EXCEPT ![p] = dir[Current]] /\ UNCHANGED <<dir, logs, contents>>
      BY <1>6, <2>1 DEF Open
    <3>2. dir[Current] \in 0..logs
      BY <2>1 DEF Occupied
    <3>3. log_file' \in [Processes -> 0..logs]
      BY <3>1, <3>2
    <3> QED
      BY <1>6, <3>1, <3>3 DEF Open, Install, Goto, Steps, Installing, Logging
  <2>2. CASE ~Occupied(Current)
    <3>1. logs' = logs + 1 /\ dir' = [k \in Names \cup {Current} |-> IF k = Current THEN logs' ELSE dir[k]]
      BY <1>6, <2>2 DEF Open
    <3>2. Names' = Names \cup {Current} /\ Names' \subseteq Nat /\ dir' \in [Names' -> 1..logs']
      BY <3>1 DEF Current
    <3>3. contents' \in [1..logs' -> [Processes -> Nat]]
      <4>1. contents' = [l \in 1..logs' |-> IF l = logs' THEN NoLines ELSE contents[l]]
        BY <1>6, <2>2 DEF Open
      <4>2. NoLines \in [Processes -> Nat]
        BY DEF NoLines
      <4>3. \A l \in 1..logs' : l = logs' \/ contents[l] \in [Processes -> Nat]
        BY <3>1
      <4> QED
        BY <4>1, <4>2, <4>3
    <3>4. log_file' \in [Processes -> 0..logs'] /\ before' \in [Processes -> 0..logs']
      BY <1>6, <2>2, <3>1 DEF Open, Install
    <3> QED
      BY <1>6, <3>1, <3>2, <3>3, <3>4 DEF Open, Install, Goto, Steps, Installing, Logging
  <2> QED
    BY <2>1, <2>2
<1>7. ASSUME NEW p \in Processes, Refused(p)
      PROVE  TypeOK'
  BY <1>7 DEF Refused, Goto, Steps, fileVars, logVars
<1>8. ASSUME NEW p \in Processes, Write(p)
      PROVE  TypeOK'
  BY <1>8 DEF Write, Goto, Steps, Logging, fileVars, logVars
<1>9. ASSUME NEW p \in Processes, Flush(p)
      PROVE  TypeOK'
  <2>1. step' \in [Processes -> Steps] /\ lines' \in [Processes -> Nat]
    BY <1>9 DEF Flush, Goto, Steps, Logging
  <2>2. contents' \in [1..logs -> [Processes -> Nat]]
    <3>1. contents' = [contents EXCEPT ![log_file[p]][p] = @ + 1]
      BY <1>9 DEF Flush
    <3>2. CASE log_file[p] = NoLog
      <4>1. log_file[p] \notin DOMAIN contents
        BY <3>2 DEF NoLog
      <4> QED
        BY <3>1, <4>1
    <3>3. CASE log_file[p] # NoLog
      <4>1. log_file[p] \in 1..logs
        BY <3>3 DEF NoLog
      <4>2. contents[log_file[p]] \in [Processes -> Nat]
        BY <4>1
      <4>3. [contents[log_file[p]] EXCEPT ![p] = @ + 1] \in [Processes -> Nat]
        BY <4>2
      <4> QED
        BY <3>1, <4>1, <4>3
    <3> QED
      BY <3>2, <3>3
  <2> QED
    BY <1>9, <2>1, <2>2 DEF Flush
<1>10. ASSUME NEW p \in Processes, End(p)
       PROVE  TypeOK'
  BY <1>10 DEF End, Goto, Steps, fileVars, logVars
<1>11. CASE UNCHANGED vars
  BY <1>11 DEF vars
<1> QED
  BY <1>1, <1>2, <1>3, <1>4, <1>5, <1>6, <1>7, <1>8, <1>9, <1>10, <1>11 DEF Next
\* The state of LogFile is well typed in every behaviour.
THEOREM WellTyped == Spec => []TypeOK
BY InitTypes, NextTypes, PTL DEF Spec

-----------------------------------------------------------------------------
(***************************************************************************)
(* The directory.  The number of a renamed log is its age, since the       *)
(* search of a process passes only names in use, which stay in use.        *)
(***************************************************************************)
DirectoryOK ==
  /\ \A k \in Names : k # Current => dir[k] = k
  /\ IF Occupied(Current) THEN dir[Current] = logs /\ Names = 0..(logs - 1)
                          ELSE Names = 1..logs

SearchOK ==
  \A p \in Processes : step[p] \in {"search", "rename"} =>
    \A k \in 1..(count[p] - 1) : Occupied(k)

\* A step other than Rename and Open leaves the directory alone.
LEMMA DirectoryKept ==
  ASSUME NEW p \in Processes,
         \/ CheckDirectory(p) \/ MakeDirectory(p) \/ CheckCurrent(p) \/ Search(p)
         \/ Refused(p) \/ Write(p) \/ Flush(p) \/ End(p)
  PROVE  dir' = dir /\ logs' = logs
BY DEF CheckDirectory, MakeDirectory, CheckCurrent, Search, Refused, Write, Flush, End, fileVars

\* The initial directory is in order.
LEMMA InitDirectory == Init => DirectoryOK /\ SearchOK
<1> SUFFICES ASSUME Init
             PROVE  DirectoryOK /\ SearchOK
  OBVIOUS
<1>1. PICK n \in OldLogs :
        \/ dir = [k \in 1..n |-> k] /\ logs = n
        \/ dir = [k \in 0..n |-> IF k = Current THEN n + 1 ELSE k] /\ logs = n + 1
  BY DEF Init
<1>2. n \in Nat
  BY LogAssumption DEF LogAssumption
<1>3. DirectoryOK
  BY <1>1, <1>2 DEF DirectoryOK, Names, Current, Occupied
<1>4. SearchOK
  BY DEF Init, SearchOK
<1> QED
  BY <1>3, <1>4

\* A log is renamed to the number of its age.
LEMMA RenamedDirectory ==
  ASSUME TypeOK, DirectoryOK, SearchOK, NEW p \in Processes, step[p] = "rename",
         Occupied(Current), ~Occupied(count[p]), dir' = Renamed(count[p]), logs' = logs
  PROVE  DirectoryOK' /\ Names' = (Names \ {Current}) \cup {logs} /\ ~Occupied(Current)'
<1>1. /\ Names = 0..(logs - 1) /\ dir[Current] = logs /\ logs \in Nat \ {0}
      /\ \A k \in Names : k # Current => dir[k] = k
  BY DEF DirectoryOK, Occupied, Names, Current, TypeOK
<1>2. count[p] = logs
  <2>1. count[p] \in Nat \ {0} /\ count[p] \notin 0..(logs - 1)
    BY <1>1 DEF TypeOK, Occupied, Names
  <2>2. \A k \in 1..(count[p] - 1) : k \in 0..(logs - 1)
    BY <1>1 DEF SearchOK, Occupied, Names
  <2>3. count[p] = 1 \/ count[p] - 1 \in 1..(count[p] - 1)
    BY <2>1
  <2> QED
    BY <1>1, <2>1, <2>2, <2>3
<1>3. /\ dir' = [k \in (Names \ {Current}) \cup {logs} |-> IF k = logs THEN dir[Current] ELSE dir[k]]
      /\ DOMAIN dir' = (Names \ {Current}) \cup {logs}
  BY <1>2 DEF Renamed
<1>4. DOMAIN dir' = 1..logs /\ ~Occupied(Current)'
  BY <1>1, <1>3 DEF Current, Occupied
<1>5. \A k \in DOMAIN dir' : dir'[k] = k
  BY <1>1, <1>3 DEF Current
<1> QED
  BY <1>3, <1>4, <1>5 DEF DirectoryOK, Names

\* A new log is the newest.
LEMMA OpenedDirectory ==
  ASSUME TypeOK, DirectoryOK, ~Occupied(Current), logs' = logs + 1,
         dir' = [k \in Names \cup {Current} |-> IF k = Current THEN logs' ELSE dir[k]]
  PROVE  DirectoryOK' /\ Names' = Names \cup {Current} /\ dir'[Current] = logs'
<1>1. /\ Names = 1..logs /\ logs \in Nat
      /\ \A k \in Names : k # Current => dir[k] = k
  BY DEF DirectoryOK, TypeOK
<1>2. DOMAIN dir' = Names \cup {Current} /\ dir'[Current] = logs'
  OBVIOUS
<1>3. DOMAIN dir' = 0..(logs' - 1) /\ Current \in DOMAIN dir'
  BY <1>1, <1>2 DEF Current
<1>4. \A k \in DOMAIN dir' : k # Current => dir'[k] = k
  BY <1>1, <1>2
<1> QED
  BY <1>2, <1>3, <1>4 DEF DirectoryOK, Names, Occupied

\* Every step keeps the directory in order, and every number in use.
LEMMA NextDirectory ==
  TypeOK /\ DirectoryOK /\ SearchOK /\ [Next]_vars =>
    DirectoryOK' /\ \A k \in Names : k # Current => k \in Names'
<1> SUFFICES ASSUME TypeOK, DirectoryOK, SearchOK, [Next]_vars
             PROVE  DirectoryOK' /\ \A k \in Names : k # Current => k \in Names'
  OBVIOUS
<1>1. CASE dir' = dir /\ logs' = logs
  BY <1>1 DEF DirectoryOK, Names, Occupied
<1>2. ASSUME NEW p \in Processes, Rename(p)
      PROVE  DirectoryOK' /\ \A k \in Names : k # Current => k \in Names'
  <2>1. CASE Occupied(Current) /\ ~Occupied(count[p]) /\ dir' = Renamed(count[p]) /\ logs' = logs
    BY <1>2, <2>1, RenamedDirectory DEF Rename, Install
  <2> QED
    BY <1>1, <1>2, <2>1 DEF Rename, fileVars
<1>3. ASSUME NEW p \in Processes, Open(p)
      PROVE  DirectoryOK' /\ \A k \in Names : k # Current => k \in Names'
  <2>1. CASE ~Occupied(Current)
    BY <1>3, <2>1, OpenedDirectory DEF Open
  <2> QED
    BY <1>1, <1>3, <2>1 DEF Open
<1>4. CASE UNCHANGED vars
  BY <1>1, <1>4 DEF vars
<1> QED
  BY <1>1, <1>2, <1>3, <1>4, DirectoryKept DEF Next

\* Every step keeps what the searches have passed in use.
LEMMA NextSearch ==
  TypeOK /\ DirectoryOK /\ SearchOK /\ [Next]_vars => SearchOK'
<1> SUFFICES ASSUME TypeOK, DirectoryOK, SearchOK, [Next]_vars,
                    NEW q \in Processes, step'[q] \in {"search", "rename"},
                    NEW k \in 1..(count'[q] - 1)
             PROVE  Occupied(k)'
  BY DEF SearchOK
<1>1. \A i \in Names : i # Current => i \in Names'
  BY NextDirectory
<1>2. CASE step[q] \in {"search", "rename"} /\ count'[q] = count[q]
  BY <1>1, <1>2 DEF SearchOK, Occupied, Names, Current, TypeOK
<1>3. ASSUME NEW p \in Processes, CheckCurrent(p)
      PROVE  Occupied(k)'
  <2>1. CASE p = q
    BY <1>3, <2>1 DEF CheckCurrent, TypeOK
  <2>2. CASE p # q
    BY <1>2, <1>3, <2>2 DEF CheckCurrent, Install, Goto, TypeOK
  <2> QED
    BY <2>1, <2>2
<1>4. ASSUME NEW p \in Processes, Search(p)
      PROVE  Occupied(k)'
  <2>1. CASE p = q /\ Occupied(count[p])
    <3>1. step[q] = "search" /\ count'[q] = count[q] + 1 /\ dir' = dir /\ count[q] \in Nat
      BY <1>4, <2>1 DEF Search, Install, TypeOK, fileVars
    <3>2. k \in 1..(count[q] - 1) \/ k = count[q]
      BY <3>1
    <3> QED
      BY <2>1, <3>1, <3>2 DEF SearchOK, Occupied
  <2>2. CASE p # q \/ ~Occupied(count[p])
    BY <1>2, <1>4, <2>2 DEF Search, Install, Goto, TypeOK
  <2> QED
    BY <2>1, <2>2
<1>5. ASSUME NEW p \in Processes,
             \/ CheckDirectory(p) \/ MakeDirectory(p) \/ Rename(p) \/ Open(p)
             \/ Refused(p) \/ Write(p) \/ Flush(p) \/ End(p)
      PROVE  Occupied(k)'
  <2>1. count' = count
    BY <1>5 DEF CheckDirectory, MakeDirectory, Rename, Open, Refused, Write, Flush, End
  <2>2. step[q] \in {"search", "rename"}
    BY <1>5 DEF CheckDirectory, MakeDirectory, Rename, Open, Refused, Write, Flush, End,
         Install, Goto, TypeOK
  <2> QED
    BY <1>2, <2>1, <2>2
<1>6. CASE UNCHANGED vars
  BY <1>2, <1>6 DEF vars
<1> QED
  BY <1>3, <1>4, <1>5, <1>6 DEF Next

\* No log is lost, however many processes rotate at once.
THEOREM LogsKept == Spec => []NoLogIsLost
<1>1. TypeOK /\ DirectoryOK => NoLogIsLost
  <2> SUFFICES ASSUME TypeOK, DirectoryOK, NEW l \in 1..logs
               PROVE  \E name \in Names : dir[name] = l /\ \A k \in Names : dir[k] = l => k = name
    BY DEF NoLogIsLost
  <2>0. logs \in Nat /\ \A k \in Names : k # Current => dir[k] = k
    BY DEF TypeOK, DirectoryOK
  <2>1. CASE Occupied(Current) /\ l = logs
    <3>1. dir[Current] = l /\ Names = 0..(logs - 1)
      BY <2>1 DEF DirectoryOK
    <3> QED
      BY <2>0, <2>1, <3>1 DEF Current
  <2>2. CASE ~(Occupied(Current) /\ l = logs)
    <3>1. l \in Names /\ l # Current /\ (Current \in Names => dir[Current] # l)
      BY <2>0, <2>2 DEF DirectoryOK, Occupied, Names, Current
    <3> QED
      BY <2>0, <3>1
  <2> QED
    BY <2>1, <2>2
<1> QED
  BY <1>1, InitTypes, NextTypes, InitDirectory, NextDirectory, NextSearch, PTL DEF Spec

\* The numbers of the logs tell their age, and there are no gaps.
THEOREM NumbersInOrder == Spec => []NumbersTellAge
<1>1. TypeOK /\ DirectoryOK => NumbersTellAge
  <2> SUFFICES ASSUME TypeOK, DirectoryOK
               PROVE  NumbersTellAge
    OBVIOUS
  <2>0. logs \in Nat /\ \A k \in Names : k # Current => dir[k] = k
    BY DEF TypeOK, DirectoryOK
  <2>1. CASE Occupied(Current)
    <3>1. dir[Current] = logs /\ Names = 0..(logs - 1)
      BY <2>1 DEF DirectoryOK
    <3> QED
      BY <2>0, <3>1 DEF NumbersTellAge, Occupied, Names, Current
  <2>2. CASE ~Occupied(Current)
    <3>1. Names = 1..logs
      BY <2>2 DEF DirectoryOK
    <3> QED
      BY <2>0, <3>1 DEF NumbersTellAge, Occupied, Names, Current
  <2> QED
    BY <2>1, <2>2
<1> QED
  BY <1>1, InitTypes, NextTypes, InitDirectory, NextDirectory, NextSearch, PTL DEF Spec
-----------------------------------------------------------------------------
(***************************************************************************)
(* New logs.                                                               *)
(***************************************************************************)

\* A process that is about to open finds only what is newer than its start.
FreshWhenOpened ==
  \A p \in Processes : step[p] = "open" /\ Occupied(Current) => dir[Current] > before[p]

\* Every step keeps it.
LEMMA NextFresh ==
  TypeOK /\ DirectoryOK /\ SearchOK /\ FreshWhenOpened /\ LogsAreFresh /\ [Next]_vars =>
    FreshWhenOpened' /\ LogsAreFresh'
<1> SUFFICES ASSUME TypeOK, DirectoryOK, SearchOK, FreshWhenOpened, LogsAreFresh, [Next]_vars,
                    NEW q \in Processes
             PROVE  /\ step'[q] = "open" /\ Occupied(Current)' => dir'[Current] > before'[q]
                    /\ step'[q] \in Logging => log_file'[q] > before'[q]
  BY DEF FreshWhenOpened, LogsAreFresh
<1> DEFINE Goal == /\ step'[q] = "open" /\ Occupied(Current)' => dir'[Current] > before'[q]
                   /\ step'[q] \in Logging => log_file'[q] > before'[q]
<1>0. /\ step[q] = "open" /\ Occupied(Current) => dir[Current] > before[q]
      /\ step[q] \in Logging => log_file[q] > before[q]
  BY DEF FreshWhenOpened, LogsAreFresh
<1>1. ASSUME NEW p \in Processes, CheckDirectory(p)
      PROVE  Goal
  BY <1>0, <1>1 DEF CheckDirectory, Goto, TypeOK, Logging, fileVars, logVars, Occupied
<1>2. ASSUME NEW p \in Processes, MakeDirectory(p)
      PROVE  Goal
  BY <1>0, <1>2 DEF MakeDirectory, Install, Goto, TypeOK, Logging, Occupied
<1>3. ASSUME NEW p \in Processes, CheckCurrent(p)
      PROVE  Goal
  BY <1>0, <1>3 DEF CheckCurrent, Install, Goto, TypeOK, Logging, fileVars, Occupied
<1>4. ASSUME NEW p \in Processes, Search(p)
      PROVE  Goal
  BY <1>0, <1>4 DEF Search, Install, Goto, TypeOK, Logging, fileVars, Occupied
<1>5. ASSUME NEW p \in Processes, Rename(p)
      PROVE  Goal
  <2>1. /\ step[p] = "rename" /\ before' = before /\ log_file' = log_file
        /\ \/ step' = [step EXCEPT ![p] = "open"]
           \/ step' = [step EXCEPT ![p] = "failed"] /\ dir' = dir
    BY <1>5 DEF Rename, Install, Goto, fileVars
  <2>2. step'[q] \in Logging => log_file'[q] > before'[q]
    BY <1>0, <2>1 DEF TypeOK, Logging
  <2>3. CASE Occupied(Current) /\ ~Occupied(count[p]) /\ dir' = Renamed(count[p]) /\ logs' = logs
    BY <2>1, <2>2, <2>3, RenamedDirectory
  <2>4. CASE dir' = dir /\ step' = [step EXCEPT ![p] = "failed"]
    BY <1>0, <2>1, <2>2, <2>4 DEF TypeOK, Occupied
  <2> QED
    BY <1>5, <2>3, <2>4 DEF Rename, Install, Goto, fileVars
<1>6. ASSUME NEW p \in Processes, Open(p)
      PROVE  Goal
  <2>1. step[p] = "open" /\ step' = [step EXCEPT ![p] = "log"] /\ before' = before
    BY <1>6 DEF Open, Install, Goto
  <2>2. CASE Occupied(Current)
    <3>1. dir' = dir /\ log_file' = [log_file EXCEPT ![p] = dir[Current]]
      BY <1>6, <2>2 DEF Open
    <3>2. dir[Current] > before[p]
      BY <2>1, <2>2 DEF FreshWhenOpened
    <3> QED
      BY <1>0, <2>1, <3>1, <3>2 DEF TypeOK, Occupied, Logging
  <2>3. CASE ~Occupied(Current)
    <3>1. /\ logs' = logs + 1 /\ log_file' = [log_file EXCEPT ![p] = logs']
          /\ dir'[Current] = logs'
      BY <1>6, <2>3, OpenedDirectory DEF Open
    <3>2. logs' > before[q] /\ logs' > before[p]
      BY <3>1 DEF TypeOK
    <3> QED
      BY <1>0, <2>1, <3>1, <3>2 DEF TypeOK, Logging
  <2> QED
    BY <2>2, <2>3
<1>7. ASSUME NEW p \in Processes, Refused(p) \/ End(p)
      PROVE  Goal
  BY <1>0, <1>7 DEF Refused, End, Goto, TypeOK, Logging, fileVars, logVars, Occupied
<1>8. ASSUME NEW p \in Processes, Write(p) \/ Flush(p)
      PROVE  Goal
  BY <1>0, <1>8 DEF Write, Flush, Goto, TypeOK, Logging, fileVars, logVars, Occupied
<1>9. CASE UNCHANGED vars
  BY <1>0, <1>9 DEF vars, Occupied
<1> QED
  BY <1>1, <1>2, <1>3, <1>4, <1>5, <1>6, <1>7, <1>8, <1>9 DEF Next

\* No process logs to a log that was there before it began.
THEOREM FreshLogs == Spec => []LogsAreFresh
<1>1. Init => FreshWhenOpened /\ LogsAreFresh
  BY DEF Init, FreshWhenOpened, LogsAreFresh, Logging
<1> QED
  BY <1>1, InitTypes, NextTypes, InitDirectory, NextDirectory, NextSearch, NextFresh, PTL DEF Spec

-----------------------------------------------------------------------------
(***************************************************************************)
(* Lines.                                                                  *)
(***************************************************************************)

\* A process has lines in its own log only, and none before it has one.
LinesOK ==
  \A p \in Processes :
    /\ \A l \in 1..logs : contents[l][p] = IF log_file[p] = l THEN lines[p] ELSE 0
    /\ log_file[p] = NoLog => lines[p] = 0
    /\ step[p] \in {"start"} \cup Installing => log_file[p] = NoLog
    /\ step[p] \in Logging => log_file[p] # NoLog

\* Every step keeps it.
LEMMA NextLines == TypeOK /\ LinesOK /\ [Next]_vars => LinesOK'
<1> SUFFICES ASSUME TypeOK, LinesOK, [Next]_vars, NEW q \in Processes
             PROVE  /\ \A l \in 1..logs' : contents'[l][q] = IF log_file'[q] = l THEN lines'[q] ELSE 0
                    /\ log_file'[q] = NoLog => lines'[q] = 0
                    /\ step'[q] \in {"start"} \cup Installing => log_file'[q] = NoLog
                    /\ step'[q] \in Logging => log_file'[q] # NoLog
  BY DEF LinesOK
<1> DEFINE Goal == /\ \A l \in 1..logs' : contents'[l][q] = IF log_file'[q] = l THEN lines'[q] ELSE 0
                   /\ log_file'[q] = NoLog => lines'[q] = 0
                   /\ step'[q] \in {"start"} \cup Installing => log_file'[q] = NoLog
                   /\ step'[q] \in Logging => log_file'[q] # NoLog
<1>0. /\ \A l \in 1..logs : contents[l][q] = IF log_file[q] = l THEN lines[q] ELSE 0
      /\ log_file[q] = NoLog => lines[q] = 0
      /\ step[q] \in {"start"} \cup Installing => log_file[q] = NoLog
      /\ step[q] \in Logging => log_file[q] # NoLog
  BY DEF LinesOK
<1>1. ASSUME logs' = logs, contents' = contents, log_file' = log_file, lines' = lines,
             NEW p \in Processes, NEW next, step' = [step EXCEPT ![p] = next],
             next \in {"failed", "ended"} \/ (step[p] \in {"start"} \cup Installing /\ next \in Installing)
                                          \/ (step[p] \in Logging /\ next \in Logging)
      PROVE  Goal
  BY <1>0, <1>1 DEF TypeOK, Installing, Logging
<1>2. ASSUME NEW p \in Processes, CheckDirectory(p) \/ MakeDirectory(p) \/ CheckCurrent(p)
      PROVE  Goal
  BY <1>1, <1>2 DEF CheckDirectory, MakeDirectory, CheckCurrent, Install, Goto, Installing,
       fileVars, logVars
<1>3. ASSUME NEW p \in Processes, Search(p) \/ Rename(p)
      PROVE  Goal
  BY <1>1, <1>3 DEF Search, Rename, Install, Goto, Installing, fileVars
<1>4. ASSUME NEW p \in Processes, Refused(p) \/ End(p) \/ Write(p)
      PROVE  Goal
  BY <1>1, <1>4 DEF Refused, End, Write, Goto, Logging, fileVars, logVars
<1>5. ASSUME NEW p \in Processes, Open(p)
      PROVE  Goal
  <2>1. /\ step[p] = "open" /\ step' = [step EXCEPT ![p] = "log"] /\ lines' = lines
        /\ log_file[p] = NoLog /\ lines[p] = 0
    BY <1>5 DEF Open, Install, Goto, LinesOK, Installing
  <2>2. CASE Occupied(Current)
    <3>1. /\ log_file' = [log_file EXCEPT ![p] = dir[Current]]
          /\ dir[Current] \in 1..logs /\ logs' = logs /\ contents' = contents
      BY <1>5, <2>2 DEF Open, TypeOK, Occupied, Names
    <3> QED
      BY <1>0, <2>1, <3>1 DEF TypeOK, Installing, Logging, NoLog
  <2>3. CASE ~Occupied(Current)
    <3>1. /\ logs' = logs + 1 /\ log_file' = [log_file EXCEPT ![p] = logs']
          /\ contents' = [l \in 1..logs' |-> IF l = logs' THEN NoLines ELSE contents[l]]
      BY <1>5, <2>3 DEF Open
    <3>2. NoLines[q] = 0 /\ logs \in Nat /\ log_file[q] \in 0..logs /\ log_file'[p] = logs'
      BY <3>1 DEF NoLines, TypeOK
    <3>3. ASSUME NEW l \in 1..logs'
          PROVE  contents'[l][q] = IF log_file'[q] = l THEN lines'[q] ELSE 0
      <4>1. CASE l = logs'
        BY <2>1, <3>1, <3>2, <4>1 DEF TypeOK
      <4>2. CASE l # logs'
        <5>1. l \in 1..logs /\ contents'[l] = contents[l]
          BY <3>1, <3>2, <4>2
        <5> QED
          BY <1>0, <2>1, <3>1, <3>2, <4>2, <5>1 DEF TypeOK, NoLog
      <4> QED
        BY <4>1, <4>2
    <3> QED
      BY <1>0, <2>1, <3>1, <3>2, <3>3 DEF TypeOK, Installing, Logging, NoLog
  <2> QED
    BY <2>2, <2>3
<1>6. ASSUME NEW p \in Processes, Flush(p)
      PROVE  Goal
  <2>1. /\ step[p] = "flush" /\ step' = [step EXCEPT ![p] = "log"]
        /\ contents' = [contents EXCEPT ![log_file[p]][p] = @ + 1]
        /\ lines' = [lines EXCEPT ![p] = @ + 1]
        /\ logs' = logs /\ log_file' = log_file
    BY <1>6 DEF Flush, Goto
  <2>2. log_file[p] \in 1..logs /\ contents[log_file[p]] \in [Processes -> Nat]
    BY <2>1 DEF LinesOK, Logging, TypeOK, NoLog
  <2>3. \A l \in 1..logs : contents'[l][q] =
          IF l = log_file[p] /\ q = p THEN contents[l][q] + 1 ELSE contents[l][q]
    BY <2>1, <2>2 DEF TypeOK
  <2> QED
    BY <1>0, <2>1, <2>2, <2>3 DEF TypeOK, Installing, Logging, NoLog
<1>7. CASE UNCHANGED vars
  BY <1>0, <1>7 DEF vars
<1> QED
  BY <1>2, <1>3, <1>4, <1>5, <1>6, <1>7 DEF Next

\* No line is lost, whoever else renames the log or writes to it.
THEOREM LinesKept == Spec => []NoLineIsLost
<1>1. Init => LinesOK
  BY DEF Init, LinesOK, NoLines, NoLog, Logging
<1>2. TypeOK /\ LinesOK => NoLineIsLost
  BY DEF TypeOK, LinesOK, NoLineIsLost, NoLog
<1> QED
  BY <1>1, <1>2, InitTypes, NextTypes, NextLines, PTL DEF Spec

-----------------------------------------------------------------------------
(***************************************************************************)
(* Failures.                                                               *)
(***************************************************************************)

\* What an undisturbed process has found is still so.
AloneOK ==
  \A p \in alone :
    /\ step[p] \notin {"start", "failed"}
    /\ step[p] = "mkdir" => ~has_dir
    /\ step[p] \in {"search", "rename"} => Occupied(Current)
    /\ step[p] = "rename" => ~Occupied(count[p])

\* Every step keeps it.
LEMMA NextAlone == TypeOK /\ AloneOK /\ [Next]_vars => AloneOK'
<1> SUFFICES ASSUME TypeOK, AloneOK, [Next]_vars, NEW q \in alone'
             PROVE  /\ step'[q] \notin {"start", "failed"}
                    /\ step'[q] = "mkdir" => ~has_dir'
                    /\ step'[q] \in {"search", "rename"} => Occupied(Current)'
                    /\ step'[q] = "rename" => count'[q] \notin Names'
  BY DEF AloneOK, Occupied, Names
<1> DEFINE Goal == /\ step'[q] \notin {"start", "failed"}
                   /\ step'[q] = "mkdir" => ~has_dir'
                   /\ step'[q] \in {"search", "rename"} => Occupied(Current)'
                   /\ step'[q] = "rename" => count'[q] \notin Names'
<1>0. q \in alone => /\ step[q] \notin {"start", "failed"}
                     /\ step[q] = "mkdir" => ~has_dir
                     /\ step[q] \in {"search", "rename"} => Occupied(Current)
                     /\ step[q] = "rename" => count[q] \notin Names
  BY DEF AloneOK, Names, Occupied
<1>1. ASSUME NEW p \in Processes, CheckDirectory(p)
      PROVE  Goal
  BY <1>1 DEF CheckDirectory, Goto, TypeOK, fileVars
<1>2. ASSUME NEW p \in Processes, MakeDirectory(p)
      PROVE  Goal
  BY <1>0, <1>2 DEF MakeDirectory, Install, Goto, TypeOK
<1>3. ASSUME NEW p \in Processes, CheckCurrent(p)
      PROVE  Goal
  BY <1>0, <1>3 DEF CheckCurrent, Install, Goto, TypeOK, fileVars, Names, Occupied
<1>4. ASSUME NEW p \in Processes, Search(p)
      PROVE  Goal
  BY <1>0, <1>4 DEF Search, Install, Goto, TypeOK, fileVars, Names, Occupied
<1>5. ASSUME NEW p \in Processes, Rename(p)
      PROVE  Goal
  BY <1>0, <1>5 DEF Rename, Install, Goto, TypeOK, Names, Occupied
<1>6. ASSUME NEW p \in Processes, Open(p)
      PROVE  Goal
  BY <1>0, <1>6 DEF Open, Install, Goto, TypeOK, Names, Occupied
<1>7. ASSUME NEW p \in Processes, Refused(p)
      PROVE  Goal
  BY <1>0, <1>7 DEF Refused, Goto, TypeOK, fileVars, Names, Occupied
<1>8. ASSUME NEW p \in Processes, Write(p) \/ Flush(p) \/ End(p)
      PROVE  Goal
  BY <1>0, <1>8 DEF Write, Flush, End, Goto, TypeOK, fileVars, Names, Occupied
<1>9. CASE UNCHANGED vars
  BY <1>0, <1>9 DEF vars, Names, Occupied
<1> QED
  BY <1>1, <1>2, <1>3, <1>4, <1>5, <1>6, <1>7, <1>8, <1>9 DEF Next

\* An installation that nobody disturbs, neither another process nor the
\* system by a refusal, does not fail.
THEOREM UndisturbedSucceed == Spec => []OnlyDisturbedFail
<1>1. Init => AloneOK
  BY DEF Init, AloneOK
<1>2. AloneOK => OnlyDisturbedFail
  BY DEF AloneOK, OnlyDisturbedFail
<1> QED
  BY <1>1, <1>2, InitTypes, NextTypes, NextAlone, PTL DEF Spec
=============================================================================
