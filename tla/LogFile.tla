------------------------------ MODULE LogFile ------------------------------
(***************************************************************************)
(* Client::installDefaultMessageHandler in processes of one client id that *)
(* share a working directory: the log of an earlier run is renamed to the  *)
(* first free number, and a new one is opened.  Every access to the file   *)
(* system is a step, so that processes may do this at once.  Each process  *)
(* runs once, and may end at any point.                                    *)
(*                                                                         *)
(* Logs are numbered in the order of their creation.  In the directory the *)
(* name {id}.log is Current, and {id}.{n}.log is n.                        *)
(*                                                                         *)
(* A definition named ...Fault is a plausible mistake in the one after it. *)
(***************************************************************************)
EXTENDS Integers

CONSTANTS
  Processes, \* the runs of programs with this client id
  OldLogs,   \* how many renamed logs there may be in the beginning
  MaxLines   \* bound: the lines each process logs

ASSUME LogAssumption == OldLogs \subseteq Nat /\ MaxLines \in Nat

Current == 0
NoLog == 0

VARIABLES
  has_dir,  \* the directory log exists
  dir,      \* the log under each name in use
  logs,     \* the number of logs created so far
  contents, \* for each log, the number of lines of each process
  step,     \* what each process does next
  count,    \* the local variable count: the number it tries or has found
  log_file, \* the log each process has open
  lines,    \* the number of messages whose handler has returned
  before,   \* history: the logs that existed when a process began to install
  alone     \* history: the processes that nobody has disturbed since then

fileVars == <<has_dir, dir, logs, contents>>
logVars == <<log_file, lines>>
vars == <<has_dir, dir, logs, contents, step, count, log_file, lines, before, alone>>

Installing == {"mkdir", "exists", "search", "rename", "open"}
Logging == {"log", "flush"}
Steps == {"start", "failed", "ended"} \cup Installing \cup Logging

Occupied(name) == name \in DOMAIN dir
Names == DOMAIN dir
NoLines == [p \in Processes |-> 0]

\* What earlier runs have left: any number of renamed logs, then perhaps one
\* that is not yet renamed.
Init ==
  /\ has_dir \in BOOLEAN
  /\ \E n \in OldLogs :
       \/ dir = [k \in 1..n |-> k] /\ logs = n
       \/ dir = [k \in 0..n |-> IF k = Current THEN n + 1 ELSE k] /\ logs = n + 1
  /\ ~has_dir => logs = 0
  /\ contents = [k \in 1..logs |-> NoLines]
  /\ step = [p \in Processes |-> "start"]
  /\ count = [p \in Processes |-> 1]
  /\ log_file = [p \in Processes |-> NoLog]
  /\ lines = [p \in Processes |-> 0]
  /\ before = [p \in Processes |-> 0]
  /\ alone = {}

-----------------------------------------------------------------------------
(***************************************************************************)
(* installDefaultMessageHandler.                                           *)
(***************************************************************************)
Goto(p, next) == step' = [step EXCEPT ![p] = next]

\* One more step of the installation of p.
Install(p, from, next) ==
  /\ step[p] = from
  /\ Goto(p, next)
  /\ alone' = alone \cap {p}
  /\ UNCHANGED <<lines, before>>

\* Whether the directory exists is not asked.
CheckDirectoryFault(p) ==
  /\ step[p] = "start"
  /\ Goto(p, "mkdir")
  /\ before' = [before EXCEPT ![p] = logs]
  /\ alone' = {p}
  /\ UNCHANGED <<fileVars, count, logVars>>

\* Is there the directory log?
CheckDirectory(p) ==
  /\ step[p] = "start"
  /\ Goto(p, IF has_dir THEN "exists" ELSE "mkdir")
  /\ before' = [before EXCEPT ![p] = logs]
  /\ alone' = {p}
  /\ UNCHANGED <<fileVars, count, logVars>>

\* mkdir fails if another process has made the directory by now.
MakeDirectory(p) ==
  /\ Install(p, "mkdir", IF has_dir THEN "failed" ELSE "exists")
  /\ has_dir' = TRUE
  /\ UNCHANGED <<dir, logs, contents, count, log_file>>

\* Has an earlier run left its log?
CheckCurrent(p) ==
  /\ Install(p, "exists", IF Occupied(Current) THEN "search" ELSE "open")
  /\ count' = [count EXCEPT ![p] = 1]
  /\ UNCHANGED <<fileVars, log_file>>

\* The number is the one after the first that is free.
SearchFault(p) ==
  /\ Install(p, "search", IF Occupied(count[p]) THEN "search" ELSE "rename")
  /\ count' = [count EXCEPT ![p] = count[p] + 1]
  /\ UNCHANGED <<fileVars, log_file>>

\* One pass of the loop: the first number that is free.
Search(p) ==
  /\ Install(p, "search", IF Occupied(count[p]) THEN "search" ELSE "rename")
  /\ count' = IF Occupied(count[p]) THEN [count EXCEPT ![p] = count[p] + 1] ELSE count
  /\ UNCHANGED <<fileVars, log_file>>

\* The directory after the current log has got the number n.
Renamed(n) ==
  [k \in (Names \ {Current}) \cup {n} |-> IF k = n THEN dir[Current] ELSE dir[k]]

\* Renaming replaces a log of that number.
RenameFault(p) ==
  \/ /\ Occupied(Current)
     /\ Install(p, "rename", "open")
     /\ dir' = Renamed(count[p])
     /\ UNCHANGED <<has_dir, logs, contents, count, log_file>>
  \/ /\ ~Occupied(Current)
     /\ Install(p, "rename", "failed")
     /\ UNCHANGED <<fileVars, count, log_file>>

\* QFile::rename does not replace a file.
Rename(p) ==
  \/ /\ Occupied(Current) /\ ~Occupied(count[p])
     /\ Install(p, "rename", "open")
     /\ dir' = Renamed(count[p])
     /\ UNCHANGED <<has_dir, logs, contents, count, log_file>>
  \/ /\ ~Occupied(Current) \/ Occupied(count[p])
     /\ Install(p, "rename", "failed")
     /\ UNCHANGED <<fileVars, count, log_file>>

\* The failure to rename is not heeded.
RefusedFault(p) ==
  /\ step[p] \in {"mkdir", "rename", "open"}
  /\ Goto(p, IF step[p] = "rename" THEN "open" ELSE "failed")
  /\ alone' = alone \ {p}
  /\ UNCHANGED <<fileVars, count, logVars, before>>

\* The system refuses: no permission, or another program has the file open.
Refused(p) ==
  /\ step[p] \in {"mkdir", "rename", "open"}
  /\ Goto(p, "failed")
  /\ alone' = alone \ {p}
  /\ UNCHANGED <<fileVars, count, logVars, before>>

\* What is in the file is lost.
OpenFault(p) ==
  /\ Install(p, "open", "log")
  /\ UNCHANGED <<has_dir, count>>
  /\ IF Occupied(Current)
     THEN /\ contents' = [contents EXCEPT ![dir[Current]] = NoLines]
          /\ log_file' = [log_file EXCEPT ![p] = dir[Current]]
          /\ UNCHANGED <<dir, logs>>
     ELSE /\ logs' = logs + 1
          /\ dir' = [k \in Names \cup {Current} |-> IF k = Current THEN logs' ELSE dir[k]]
          /\ contents' = [l \in 1..logs' |-> IF l = logs' THEN NoLines ELSE contents[l]]
          /\ log_file' = [log_file EXCEPT ![p] = logs']

\* Open to append, which creates the file if there is none.
Open(p) ==
  /\ Install(p, "open", "log")
  /\ UNCHANGED <<has_dir, count>>
  /\ IF Occupied(Current)
     THEN /\ log_file' = [log_file EXCEPT ![p] = dir[Current]]
          /\ UNCHANGED <<dir, logs, contents>>
     ELSE /\ logs' = logs + 1
          /\ dir' = [k \in Names \cup {Current} |-> IF k = Current THEN logs' ELSE dir[k]]
          /\ contents' = [l \in 1..logs' |-> IF l = logs' THEN NoLines ELSE contents[l]]
          /\ log_file' = [log_file EXCEPT ![p] = logs']

-----------------------------------------------------------------------------
(***************************************************************************)
(* messageHandler, and the end of a process.                               *)
(***************************************************************************)

\* A line is written to the buffer of the file ...
Write(p) ==
  /\ step[p] = "log" /\ lines[p] < MaxLines
  /\ Goto(p, "flush")
  /\ UNCHANGED <<fileVars, count, logVars, before, alone>>

\* ... and flushed to whatever name the file has by now.
Flush(p) ==
  /\ step[p] = "flush"
  /\ Goto(p, "log")
  /\ contents' = [contents EXCEPT ![log_file[p]][p] = @ + 1]
  /\ lines' = [lines EXCEPT ![p] = @ + 1]
  /\ UNCHANGED <<has_dir, dir, logs, count, log_file, before, alone>>

End(p) ==
  /\ step[p] # "ended"
  /\ Goto(p, "ended")
  /\ UNCHANGED <<fileVars, count, logVars, before, alone>>

Next ==
  \E p \in Processes :
    \/ CheckDirectory(p) \/ MakeDirectory(p) \/ CheckCurrent(p) \/ Search(p)
    \/ Rename(p) \/ Open(p) \/ Refused(p)
    \/ Write(p) \/ Flush(p) \/ End(p)

Spec == Init /\ [][Next]_vars

-----------------------------------------------------------------------------
TypeOK ==
  /\ has_dir \in BOOLEAN
  /\ logs \in Nat
  /\ Names \subseteq Nat /\ dir \in [Names -> 1..logs]
  /\ contents \in [1..logs -> [Processes -> Nat]]
  /\ step \in [Processes -> Steps]
  /\ count \in [Processes -> Nat \ {0}]
  /\ log_file \in [Processes -> 0..logs]
  /\ lines \in [Processes -> Nat]
  /\ before \in [Processes -> 0..logs]
  /\ alone \subseteq Processes

\* Whatever processes rotate at once and wherever they end, each log that
\* was ever created is still in the directory, under one name only.
NoLogIsLost ==
  \A l \in 1..logs : \E name \in Names : dir[name] = l /\ \A k \in Names : dir[k] = l => k = name

\* The numbers are in use without gaps and in the order of age, and the log
\* without a number is the newest.
NumbersTellAge ==
  /\ \A n \in Names : \A k \in 1..n : Occupied(k)
  /\ \A k, n \in Names : k # Current /\ (k < n \/ n = Current) => dir[k] < dir[n]

\* A line whose handler has returned is in the log its process has open,
\* even if others have renamed that log or write to it too.
NoLineIsLost ==
  \A p \in Processes : log_file[p] # NoLog => contents[log_file[p]][p] = lines[p]

\* "Rename the previous file": nobody logs to what was there before.
LogsAreFresh ==
  \A p \in Processes : step[p] \in Logging => log_file[p] > before[p]

\* An installation that nobody disturbs does not fail.
OnlyDisturbedFail ==
  \A p \in alone : step[p] # "failed"
=============================================================================
