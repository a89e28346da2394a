-------------------------- MODULE ScreenshotCopier --------------------------
(***************************************************************************)
(* The application screenshot_copier.  Its option monitored_path is a list *)
(* of directories, which it watches with a QFileSystemWatcher.  When one   *)
(* of them changes, the newest image in it that is not older than the last *)
(* one copied goes to the clipboard, and its name and time are reported as *)
(* the parameters filename and timestamp.                                  *)
(*                                                                         *)
(* The application runs in one event loop; users and other programs change *)
(* files, directories and the clipboard at any time.  How the option's     *)
(* value gets here and how the parameters leave is ClientSync's subject.   *)
(***************************************************************************)
EXTENDS Integers, FiniteSets, Sequences

CONSTANTS
  Dirs, Files,  \* paths of directories and of files
  DirOf,        \* DirOf[f]: the directory of f
  Lists,        \* what the remote side may send: lists of directories
  NotAList,     \* and any other JSON value
  Undefined,    \* no value yet; on the broker, nothing retained
  NoFile,       \* the empty file name
  Other,        \* anything in the clipboard that was not put there from here
  MaxTime,      \* bound on the times of modification
  MaxSteps      \* bound on the steps of the environment

ASSUME CopierAssumption ==
  /\ DirOf \in [Files -> Dirs]
  /\ Lists \subseteq Seq(Dirs)
  /\ NotAList \notin Lists \cup {<<>>}
  /\ Undefined \notin Lists \cup {NotAList, <<>>}
  /\ NoFile \notin Files
  /\ MaxTime \in Nat \ {0} /\ MaxSteps \in Nat
  /\ Undefined \notin 0..MaxTime
  /\ Other \notin Files \X (1..MaxTime)

VARIABLES
  dirs,       \* the directories that exist
  kind,       \* of each file: absent, image, or unreadable as an image
  mtime,      \* of each file: lastModified()
  watched,    \* monitor->directories()
  dead,       \* watched directories whose removal has not been handled yet
  changed,    \* directories whose directoryChanged has not been handled yet
  option,     \* monitored_path
  saved,      \* its value retained by the broker
  awaiting,   \* the broker's retained value has not been handled yet
  filename, timestamp,  \* the parameters
  clipboard,  \* Other, or <<file, time>> of the image copied from here
  steps,      \* environment steps so far
  gone,       \* history: directories removed since the option was set
  arrived     \* history: images that appeared, complete, in a directory
              \* under watch since the option was set, and are still the same

diskVars == <<dirs, kind, mtime>>
monitorVars == <<watched, dead, changed>>
optionVars == <<option, saved, awaiting>>
reportVars == <<filename, timestamp, clipboard>>
historyVars == <<gone, arrived>>
vars == <<diskVars, monitorVars, optionVars, reportVars, historyVars, steps>>

Times == 1..MaxTime

TypeOK ==
  /\ dirs \subseteq Dirs
  /\ kind \in [Files -> {"absent", "image", "unreadable"}]
  /\ mtime \in [Files -> Times]
  /\ watched \subseteq Dirs /\ dead \subseteq watched /\ changed \subseteq watched
  /\ option \in Lists \cup {Undefined, <<>>}
  /\ saved \in Lists \cup {Undefined, <<>>}
  /\ awaiting \in BOOLEAN
  /\ filename \in Files \cup {NoFile}
  /\ timestamp \in 0..MaxTime
  /\ clipboard \in (Files \X Times) \cup {Other}
  /\ steps \in 0..MaxSteps
  /\ gone \subseteq Dirs /\ arrived \subseteq Files

EnvironmentStep == steps < MaxSteps /\ steps' = steps + 1

\* The directories named in the option.
Listed == {d \in Dirs : option # Undefined /\ \E i \in DOMAIN option : option[i] = d}

(***************************************************************************)
(* A definition named ...Fault is a plausible mistake in the one after it. *)
(***************************************************************************)

\* main sets the timestamp before anything can change.
FirstTimestamp == 0

\* main has run up to exec().
Init ==
  /\ dirs \in SUBSET Dirs
  /\ kind \in [Files -> {"absent", "image"}]
  /\ \A f \in Files : kind[f] # "absent" => DirOf[f] \in dirs
  /\ mtime = [f \in Files |-> 1]
  /\ saved \in Lists \cup {Undefined}
  /\ clipboard = Other
  /\ watched = {} /\ dead = {} /\ changed = {}
  /\ option = Undefined /\ awaiting = TRUE
  /\ filename = NoFile /\ timestamp = FirstTimestamp
  /\ gone = {} /\ arrived = {}
  /\ steps = 0

-----------------------------------------------------------------------------
(***************************************************************************)
(* Users and other programs (external).  A file may have any time: it may  *)
(* have been moved or unpacked, or come from a machine with another clock. *)
(***************************************************************************)

\* The watcher sees that the entries of a directory change, not what is
\* written to them.
Notify(d) == changed' = IF d \in watched \ dead THEN changed \cup {d} ELSE changed

CreateFile(f, k, t) ==
  /\ EnvironmentStep
  /\ DirOf[f] \in dirs /\ kind[f] = "absent"
  /\ kind' = [kind EXCEPT ![f] = k]
  /\ mtime' = [mtime EXCEPT ![f] = t]
  /\ Notify(DirOf[f])
  /\ arrived' = IF k = "image" /\ DirOf[f] \in watched \ dead
                THEN arrived \cup {f} ELSE arrived
  /\ UNCHANGED <<dirs, watched, dead, gone, optionVars, reportVars>>

\* A program goes on writing to a file, or overwrites it.
WriteFile(f, k, t) ==
  /\ EnvironmentStep
  /\ kind[f] # "absent"
  /\ kind' = [kind EXCEPT ![f] = k]
  /\ mtime' = [mtime EXCEPT ![f] = t]
  /\ arrived' = arrived \ {f}
  /\ UNCHANGED <<dirs, gone, monitorVars, optionVars, reportVars>>

DeleteFile(f) ==
  /\ EnvironmentStep
  /\ kind[f] # "absent"
  /\ kind' = [kind EXCEPT ![f] = "absent"]
  /\ Notify(DirOf[f])
  /\ arrived' = arrived \ {f}
  /\ UNCHANGED <<dirs, mtime, watched, dead, gone, optionVars, reportVars>>

\* The removal of an empty directory ends its watch; the watcher learns of it
\* with the notification.
RemoveDir(d) ==
  /\ EnvironmentStep
  /\ d \in dirs
  /\ \A f \in Files : DirOf[f] = d => kind[f] = "absent"
  /\ dirs' = dirs \ {d}
  /\ Notify(d)
  /\ dead' = dead \cup ({d} \cap watched)
  /\ gone' = gone \cup {d}
  /\ UNCHANGED <<kind, mtime, watched, arrived, optionVars, reportVars>>

MakeDir(d) ==
  /\ EnvironmentStep
  /\ d \notin dirs
  /\ dirs' = dirs \cup {d}
  /\ UNCHANGED <<kind, mtime, monitorVars, optionVars, reportVars, historyVars>>

UserCopies ==
  /\ EnvironmentStep
  /\ clipboard # Other
  /\ clipboard' = Other
  /\ UNCHANGED <<filename, timestamp, diskVars, monitorVars, optionVars, historyVars>>

\* The process ends and another one runs main.  What it put into the clipboard
\* may or may not outlive it.
Restart ==
  /\ EnvironmentStep
  /\ watched' = {} /\ dead' = {} /\ changed' = {}
  /\ option' = Undefined /\ awaiting' = TRUE
  /\ filename' = NoFile /\ timestamp' = FirstTimestamp
  /\ gone' = {} /\ arrived' = {}
  /\ clipboard' \in {clipboard, Other}
  /\ UNCHANGED <<saved, diskVars>>

-----------------------------------------------------------------------------
(***************************************************************************)
(* The option.                                                             *)
(***************************************************************************)

\* The validator of monitored_path: a list of Path(Exist, Dir, Dir).
Validates(l) == l # NotAList /\ \A i \in DOMAIN l : l[i] \in dirs

\* removePaths is forgotten: the new directories are added to the old ones.
UpdateMonitoredPathFault(l) ==
  /\ watched' = watched \cup {d \in dirs : \E i \in DOMAIN l : l[i] = d}
  /\ dead' = dead
  /\ changed' = changed

\* updateMonitoredPath.  A notification of the former watch may or may not
\* survive when its directory is removed from the watcher and added again.
\* The branch for what is no list cannot be reached: the validator refuses it.
UpdateMonitoredPath(l) ==
  /\ watched' = {d \in dirs : \E i \in DOMAIN l : l[i] = d}
  /\ dead' = {}
  /\ changed' \in SUBSET (changed \cap watched')

\* NamedValue::setValue of monitored_path, with the upload and
\* updateMonitoredPath as its slots.
SetOption(l) ==
  IF l # option
  THEN /\ option' = l /\ saved' = l
       /\ UpdateMonitoredPath(l)
       /\ gone' = {} /\ arrived' = {}
  ELSE UNCHANGED <<option, saved, monitorVars, historyVars>>

\* handleMessage for monitored_path/set.
RemoteSet(l) ==
  /\ EnvironmentStep
  /\ IF Validates(l) THEN SetOption(l)
     ELSE UNCHANGED <<option, saved, monitorVars, historyVars>>
  /\ UNCHANGED <<awaiting, diskVars, reportVars>>

\* handleMessage for the saved value.  It comes once per connection, and the
\* application makes one.
HandleSaved ==
  /\ awaiting
  /\ awaiting' = FALSE
  /\ IF option = Undefined /\ saved # Undefined /\ Validates(saved) THEN SetOption(saved)
     ELSE UNCHANGED <<option, saved, monitorVars, historyVars>>
  /\ UNCHANGED <<steps, diskVars, reportVars>>

-----------------------------------------------------------------------------
(***************************************************************************)
(* A directory has changed.                                                *)
(***************************************************************************)

Images(d) == {f \in Files : DirOf[f] = d /\ kind[f] = "image"}

\* The loop ends at the first file that is not an image.
CandidatesFault(d) ==
  {f \in Images(d) : /\ mtime[f] >= timestamp
                     /\ \A g \in Files : DirOf[g] = d /\ kind[g] = "unreadable" =>
                          mtime[g] < mtime[f]}

\* The loop does not end at older files.
OlderCandidatesFault(d) == Images(d)

\* What the loop of tryCopyImage can reach: it takes the files from the newest
\* to the oldest, ends at the first that is older than the timestamp, and
\* skips those that are not images.
Candidates(d) == {f \in Images(d) : mtime[f] >= timestamp}

\* tryCopyImage: the first file reached that is an image.
TryCopyImage(d) ==
  \/ /\ Candidates(d) = {}
     /\ UNCHANGED reportVars
  \/ \E f \in Candidates(d) :
       /\ \A g \in Candidates(d) : mtime[g] <= mtime[f]
       /\ clipboard' = <<f, mtime[f]>>
       /\ filename' = f
       /\ timestamp' = mtime[f]

\* QFileSystemWatcher emits directoryChanged, and forgets a removed directory.
HandleChange(d) ==
  /\ d \in changed
  /\ changed' = changed \ {d}
  /\ watched' = watched \ (dead \cap {d})
  /\ dead' = dead \ {d}
  /\ TryCopyImage(d)
  /\ UNCHANGED <<steps, diskVars, optionVars, historyVars>>

-----------------------------------------------------------------------------
Environment ==
  \/ \E f \in Files, k \in {"image", "unreadable"}, t \in Times :
       CreateFile(f, k, t) \/ WriteFile(f, k, t)
  \/ \E f \in Files : DeleteFile(f)
  \/ \E d \in Dirs : RemoveDir(d) \/ MakeDir(d)
  \/ UserCopies
  \/ Restart
  \/ \E l \in Lists \cup {NotAList} : RemoteSet(l)

Next ==
  \/ Environment
  \/ HandleSaved
  \/ \E d \in Dirs : HandleChange(d)

Spec == Init /\ [][Next]_vars

\* The event loop handles what is pending.
FairSpec ==
  /\ Spec
  /\ WF_vars(HandleSaved)
  /\ \A d \in Dirs : WF_vars(HandleChange(d))

-----------------------------------------------------------------------------
(***************************************************************************)
(* Properties.                                                             *)
(***************************************************************************)

\* The directories under watch are those the option names, whichever way it
\* was set and whatever it was before, except those that have been removed
\* since then.  (Such a directory is not watched again when it is made again,
\* and setting the same list once more does not help: setValue ignores it.)
WatchFollowsOption == watched \ dead = Listed \ gone

\* No image is overlooked that appeared, complete, in a directory under watch:
\* it is not newer than the last one copied, or a notification is pending for
\* its directory.  (An image that is still being written when the notification
\* is handled is skipped, and nothing announces its completion.)
CompleteImagesAreSeen ==
  \A f \in arrived : mtime[f] <= timestamp \/ DirOf[f] \in changed

\* Files may vanish, change and get any time, directories may change in any
\* order, and the clipboard may be taken by the user or outlive the process: an
\* image in the clipboard gives way to an older one only if a process copies its
\* first (it starts at time 0, and does not know what is in the clipboard).
OnlyTheFirstCopyIsOlder ==
  [][\A f, g \in Files, t, u \in Times :
       clipboard = <<g, u>> /\ clipboard' = <<f, t>> /\ t < u => filename = NoFile]_vars

\* A new image gets into the clipboard, or one that is at least as new, unless
\* it disappears, is overwritten, or the watch or the process ends meanwhile.
ImagesAreCopied ==
  \A f \in Files, t \in Times :
    f \in arrived /\ mtime[f] = t /\ t > timestamp
      ~> f \notin arrived \/ mtime[f] # t \/ timestamp >= t
=============================================================================
