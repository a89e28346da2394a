-------------------------- MODULE ScreenshotProofs --------------------------
(***************************************************************************)
(* Theorems about ScreenshotCopier, for any directories, files, lists and  *)
(* times.                                                                  *)
(***************************************************************************)
EXTENDS ScreenshotCopier, TLAPS

\* What arrived complete and is still the same is an image.
ArrivedAreImages == \A f \in arrived : kind[f] = "image"

\* What this process has copied is what it reports, unless the user has copied
\* something else since.
ClipboardReported == filename # NoFile => clipboard \in {Other, <<filename, timestamp>>}

CopierInv ==
  /\ TypeOK
  /\ ClipboardReported
  /\ ArrivedAreImages
  /\ WatchFollowsOption
  /\ CompleteImagesAreSeen

LEMMA InitCopier == Init => CopierInv
  <1> SUFFICES ASSUME Init PROVE CopierInv
    OBVIOUS
  <1> USE CopierAssumption DEF CopierAssumption
  <1>1. TypeOK
    BY SMTT(30) DEF Init, TypeOK, FirstTimestamp, Times
  <1>2. ArrivedAreImages /\ CompleteImagesAreSeen
    BY DEF Init, ArrivedAreImages, CompleteImagesAreSeen
  <1>3. WatchFollowsOption
    BY DEF Init, WatchFollowsOption, Listed
  <1>4. ClipboardReported
    BY DEF Init, ClipboardReported
  <1> QED
    BY <1>1, <1>2, <1>3, <1>4 DEF CopierInv

\* Who does not copy leaves the clipboard reported.
LEMMA ReportStays ==
  ASSUME CopierInv, UNCHANGED reportVars
  PROVE  ClipboardReported'
  BY DEF CopierInv, ClipboardReported, reportVars

-----------------------------------------------------------------------------
\* What setting the option does, in terms of a list that exists.
LEMMA SetOptionStep ==
  ASSUME CopierInv, NEW l \in Lists \cup {NotAList, <<>>}, Validates(l), SetOption(l)
  PROVE  /\ option' \in Lists \cup {Undefined, <<>>}
         /\ saved' \in Lists \cup {Undefined, <<>>}
         /\ watched' \subseteq Dirs /\ dead' \subseteq watched' /\ changed' \subseteq watched'
         /\ gone' \subseteq Dirs
         /\ watched' \ dead' = Listed' \ gone'
         /\ arrived' = {} \/ (arrived' = arrived /\ changed' = changed)
  <1> USE CopierAssumption DEF CopierAssumption
  <1>1. l # NotAList /\ l # Undefined /\ l \in Lists \cup {<<>>}
    BY DEF Validates
  <1>2. CASE l = option
    <2>1. UNCHANGED <<option, saved, monitorVars, historyVars>>
      BY <1>1, <1>2 DEF SetOption
    <2> QED
      BY <2>1 DEF CopierInv, TypeOK, WatchFollowsOption, Listed, monitorVars, historyVars
  <1>3. CASE l # option
    <2>1. /\ option' = l /\ saved' = l
          /\ UpdateMonitoredPath(l)
          /\ gone' = {} /\ arrived' = {}
      BY <1>1, <1>3, Zenon DEF SetOption
    <2>2. \A i \in DOMAIN l : l[i] \in dirs
      BY DEF Validates
    <2>4. Listed' = {d \in Dirs : \E i \in DOMAIN l : l[i] = d}
      BY <1>1, <2>1 DEF Listed
    <2>5. watched' = Listed'
      BY <2>1, <2>2, <2>4 DEF UpdateMonitoredPath, CopierInv, TypeOK
    <2> QED
      BY <1>1, <2>1, <2>4, <2>5 DEF UpdateMonitoredPath
  <1> QED
    BY <1>2, <1>3

\* A notification is only added.
LEMMA NotifyStep ==
  ASSUME CopierInv, NEW d \in Dirs, Notify(d)
  PROVE  /\ changed \subseteq changed' /\ changed' \subseteq watched
         /\ d \in watched \ dead => d \in changed'
  BY DEF Notify, CopierInv, TypeOK

\* What the environment does to files and directories keeps the invariant.
LEMMA DiskStep ==
  ASSUME CopierInv,
         \/ \E f \in Files, k \in {"image", "unreadable"}, t \in Times :
              CreateFile(f, k, t) \/ WriteFile(f, k, t)
         \/ \E f \in Files : DeleteFile(f)
         \/ \E d \in Dirs : RemoveDir(d) \/ MakeDir(d)
  PROVE  CopierInv'
  <1> USE CopierAssumption DEF CopierAssumption, EnvironmentStep, monitorVars, optionVars,
        reportVars, historyVars
  <1>1. ASSUME NEW f \in Files, NEW k \in {"image", "unreadable"}, NEW t \in Times,
               CreateFile(f, k, t)
        PROVE  CopierInv'
    <2>1. DirOf[f] \in Dirs /\ kind[f] = "absent" /\ f \notin arrived
      BY <1>1 DEF CreateFile, CopierInv, ArrivedAreImages
    <2>2. /\ changed \subseteq changed' /\ changed' \subseteq watched
          /\ DirOf[f] \in watched \ dead => DirOf[f] \in changed'
      BY <1>1, <2>1, NotifyStep DEF CreateFile
    <2>3. TypeOK'
      BY <1>1, <2>2 DEF CreateFile, CopierInv, TypeOK
    <2>4. ArrivedAreImages'
      BY <1>1 DEF CreateFile, CopierInv, ArrivedAreImages, TypeOK
    <2>5. WatchFollowsOption'
      BY <1>1 DEF CreateFile, CopierInv, WatchFollowsOption, Listed
    <2>6. CompleteImagesAreSeen'
      BY <1>1, <2>1, <2>2 DEF CreateFile, CopierInv, CompleteImagesAreSeen, TypeOK
    <2> QED
      BY <1>1, <2>3, <2>4, <2>5, <2>6, ReportStays DEF CreateFile, CopierInv
  <1>2. ASSUME NEW f \in Files, NEW k \in {"image", "unreadable"}, NEW t \in Times,
               WriteFile(f, k, t)
        PROVE  CopierInv'
    <2>1. TypeOK' /\ ArrivedAreImages' /\ CompleteImagesAreSeen'
      BY <1>2 DEF WriteFile, CopierInv, TypeOK, ArrivedAreImages, CompleteImagesAreSeen
    <2>2. WatchFollowsOption'
      BY <1>2 DEF WriteFile, CopierInv, WatchFollowsOption, Listed
    <2> QED
      BY <1>2, <2>1, <2>2, ReportStays DEF WriteFile, CopierInv
  <1>3. ASSUME NEW f \in Files, DeleteFile(f)
        PROVE  CopierInv'
    <2>1. changed \subseteq changed' /\ changed' \subseteq watched
      BY <1>3, NotifyStep DEF DeleteFile
    <2>2. TypeOK' /\ ArrivedAreImages' /\ CompleteImagesAreSeen'
      BY <1>3, <2>1
         DEF DeleteFile, CopierInv, TypeOK, ArrivedAreImages, CompleteImagesAreSeen
    <2>3. WatchFollowsOption'
      BY <1>3 DEF DeleteFile, CopierInv, WatchFollowsOption, Listed
    <2> QED
      BY <1>3, <2>2, <2>3, ReportStays DEF DeleteFile, CopierInv
  <1>4. ASSUME NEW d \in Dirs, RemoveDir(d)
        PROVE  CopierInv'
    <2>1. changed \subseteq changed' /\ changed' \subseteq watched
      BY <1>4, NotifyStep DEF RemoveDir
    <2>2. TypeOK' /\ ArrivedAreImages' /\ CompleteImagesAreSeen'
      BY <1>4, <2>1
         DEF RemoveDir, CopierInv, TypeOK, ArrivedAreImages, CompleteImagesAreSeen
    <2>3. WatchFollowsOption'
      BY <1>4 DEF RemoveDir, CopierInv, WatchFollowsOption, Listed
    <2> QED
      BY <1>4, <2>2, <2>3, ReportStays DEF RemoveDir, CopierInv
  <1>5. ASSUME NEW d \in Dirs, MakeDir(d)
        PROVE  CopierInv'
    BY <1>5, ReportStays
       DEF MakeDir, CopierInv, TypeOK, ArrivedAreImages, CompleteImagesAreSeen,
           WatchFollowsOption, Listed
  <1> QED
    BY <1>1, <1>2, <1>3, <1>4, <1>5

-----------------------------------------------------------------------------
\* Setting the option, by the remote side or from the saved value.
LEMMA OptionStep ==
  ASSUME CopierInv,
         HandleSaved \/ \E l \in Lists \cup {NotAList} : RemoteSet(l)
  PROVE  CopierInv'
  <1> USE CopierAssumption DEF CopierAssumption
  <1>1. /\ UNCHANGED <<diskVars, reportVars>>
        /\ steps' \in 0..MaxSteps /\ awaiting' \in BOOLEAN
    <2>1. CASE HandleSaved
      BY <2>1 DEF HandleSaved, CopierInv, TypeOK
    <2>2. CASE \E l \in Lists \cup {NotAList} : RemoteSet(l)
      BY <2>2 DEF RemoteSet, EnvironmentStep, CopierInv, TypeOK
    <2> QED
      BY <2>1, <2>2
  <1>2. CASE \E l \in Lists \cup {NotAList, <<>>} : Validates(l) /\ SetOption(l)
    <2>1. PICK l \in Lists \cup {NotAList, <<>>} : Validates(l) /\ SetOption(l)
      BY <1>2
    <2>2. /\ option' \in Lists \cup {Undefined, <<>>}
          /\ saved' \in Lists \cup {Undefined, <<>>}
          /\ watched' \subseteq Dirs /\ dead' \subseteq watched' /\ changed' \subseteq watched'
          /\ gone' \subseteq Dirs
          /\ watched' \ dead' = Listed' \ gone'
          /\ arrived' = {} \/ (arrived' = arrived /\ changed' = changed)
      BY <2>1, SetOptionStep, Zenon
    <2>3. TypeOK'
      BY <1>1, <2>2 DEF CopierInv, TypeOK, diskVars, reportVars
    <2>4. ArrivedAreImages' /\ CompleteImagesAreSeen'
      BY <1>1, <2>2
         DEF CopierInv, ArrivedAreImages, CompleteImagesAreSeen, diskVars, reportVars
    <2> QED
      BY <1>1, <2>2, <2>3, <2>4, ReportStays DEF CopierInv, WatchFollowsOption
  <1>3. CASE UNCHANGED <<option, saved, monitorVars, historyVars>>
    <2>1. TypeOK' /\ ArrivedAreImages' /\ CompleteImagesAreSeen'
      BY <1>1, <1>3
         DEF CopierInv, TypeOK, ArrivedAreImages, CompleteImagesAreSeen, diskVars,
             reportVars, monitorVars, historyVars
    <2>2. WatchFollowsOption'
      BY <1>3 DEF CopierInv, WatchFollowsOption, Listed, monitorVars, historyVars
    <2> QED
      BY <1>1, <2>1, <2>2, ReportStays DEF CopierInv
  <1> QED
    BY <1>2, <1>3 DEF HandleSaved, RemoteSet, CopierInv, TypeOK

-----------------------------------------------------------------------------
\* The image copied is the newest of the directory, and not older than the one
\* before.
LEMMA TryCopyImageStep ==
  ASSUME CopierInv, NEW d \in Dirs, TryCopyImage(d)
  PROVE  /\ clipboard' \in (Files \X Times) \cup {Other}
         /\ filename' \in Files \cup {NoFile}
         /\ timestamp' \in 0..MaxTime /\ timestamp <= timestamp'
         /\ \A f \in Images(d) : mtime[f] <= timestamp'
         /\ ClipboardReported'
  <1> USE CopierAssumption DEF CopierAssumption
  <1>1. \A f \in Images(d) : mtime[f] \in Times /\ f \in Files
    BY DEF Images, CopierInv, TypeOK
  <1>2. CASE Candidates(d) = {} /\ UNCHANGED reportVars
    BY <1>1, <1>2, ReportStays DEF Candidates, reportVars, CopierInv, TypeOK, Times
  <1>3. ASSUME NEW f \in Candidates(d),
               \A g \in Candidates(d) : mtime[g] <= mtime[f],
               clipboard' = <<f, mtime[f]>>, filename' = f, timestamp' = mtime[f]
        PROVE  /\ clipboard' \in (Files \X Times) \cup {Other}
               /\ filename' \in Files \cup {NoFile}
               /\ timestamp' \in 0..MaxTime /\ timestamp <= timestamp'
               /\ \A g \in Images(d) : mtime[g] <= timestamp'
               /\ ClipboardReported'
    <2>1. f \in Images(d) /\ timestamp <= mtime[f]
      BY <1>3 DEF Candidates
    <2>2. ClipboardReported'
      BY <1>3 DEF ClipboardReported
    <2> QED
      BY <1>1, <1>3, <2>1, <2>2 DEF Candidates, CopierInv, TypeOK, Times
  <1> QED
    BY <1>2, <1>3 DEF TryCopyImage

\* Handling a notification keeps the invariant.
LEMMA HandleChangeStep ==
  ASSUME CopierInv, NEW d \in Dirs, HandleChange(d)
  PROVE  CopierInv'
  <1> USE CopierAssumption DEF CopierAssumption
  <1>1. /\ clipboard' \in (Files \X Times) \cup {Other}
        /\ filename' \in Files \cup {NoFile}
        /\ timestamp' \in 0..MaxTime /\ timestamp <= timestamp'
        /\ \A f \in Images(d) : mtime[f] <= timestamp'
        /\ ClipboardReported'
    BY TryCopyImageStep DEF HandleChange
  <1>2. TypeOK'
    BY <1>1 DEF HandleChange, CopierInv, TypeOK, diskVars, optionVars, historyVars
  <1>3. ArrivedAreImages'
    BY DEF HandleChange, CopierInv, ArrivedAreImages, diskVars, historyVars
  <1>4. WatchFollowsOption'
    BY DEF HandleChange, CopierInv, WatchFollowsOption, Listed, optionVars, historyVars
  <1>5. CompleteImagesAreSeen'
    <2> SUFFICES ASSUME NEW f \in arrived
                 PROVE  mtime[f] <= timestamp' \/ DirOf[f] \in changed'
      BY DEF HandleChange, CompleteImagesAreSeen, diskVars, historyVars
    <2>1. f \in Files /\ mtime[f] \in Times /\ timestamp \in 0..MaxTime /\ kind[f] = "image"
      BY DEF CopierInv, TypeOK, ArrivedAreImages
    <2>2. CASE mtime[f] <= timestamp
      BY <1>1, <2>1, <2>2 DEF Times
    <2>3. CASE DirOf[f] \in changed /\ DirOf[f] # d
      BY <2>3 DEF HandleChange
    <2>4. CASE DirOf[f] = d
      BY <1>1, <2>1, <2>4 DEF Images
    <2> QED
      BY <2>2, <2>3, <2>4 DEF CopierInv, CompleteImagesAreSeen
  <1> QED
    BY <1>1, <1>2, <1>3, <1>4, <1>5 DEF CopierInv

-----------------------------------------------------------------------------
\* Every step keeps the invariant.
LEMMA NextCopier == CopierInv /\ [Next]_vars => CopierInv'
  <1> SUFFICES ASSUME CopierInv, [Next]_vars
               PROVE  CopierInv'
    OBVIOUS
  <1>1. CASE UserCopies
    <2>1. TypeOK' /\ ArrivedAreImages' /\ CompleteImagesAreSeen'
      BY <1>1, CopierAssumption
         DEF CopierAssumption, UserCopies, EnvironmentStep, CopierInv, TypeOK, ArrivedAreImages,
             CompleteImagesAreSeen, diskVars, monitorVars, optionVars, historyVars
    <2>2. WatchFollowsOption'
      BY <1>1
         DEF UserCopies, CopierInv, WatchFollowsOption, Listed, monitorVars, optionVars,
             historyVars
    <2>3. ClipboardReported'
      BY <1>1 DEF UserCopies, ClipboardReported
    <2> QED
      BY <2>1, <2>2, <2>3 DEF CopierInv
  <1>2. CASE Restart
    <2>1. TypeOK' /\ ArrivedAreImages' /\ CompleteImagesAreSeen'
      BY <1>2, CopierAssumption
         DEF CopierAssumption, Restart, EnvironmentStep, FirstTimestamp, CopierInv, TypeOK,
             ArrivedAreImages, CompleteImagesAreSeen, diskVars
    <2>2. WatchFollowsOption'
      BY <1>2 DEF Restart, WatchFollowsOption, Listed
    <2>3. ClipboardReported'
      BY <1>2 DEF Restart, ClipboardReported
    <2> QED
      BY <2>1, <2>2, <2>3 DEF CopierInv
  <1>3. CASE UNCHANGED vars
    BY <1>3, ReportStays
       DEF vars, CopierInv, TypeOK, ArrivedAreImages, WatchFollowsOption, Listed,
           CompleteImagesAreSeen, diskVars, monitorVars, optionVars, reportVars, historyVars
  <1> QED
    BY <1>1, <1>2, <1>3, DiskStep, OptionStep, HandleChangeStep DEF Next, Environment

\* The invariant holds in every behaviour.
LEMMA CopierInvariant == Spec => []CopierInv
  BY InitCopier, NextCopier, PTL DEF Spec

\* The state is well typed.
THEOREM CopierTyped == Spec => []TypeOK
  <1>1. CopierInv => TypeOK
    BY DEF CopierInv
  <1> QED
    BY <1>1, CopierInvariant, PTL

\* updateMonitoredPath leaves under watch exactly what the option names, but
\* for directories that have been removed since.
THEOREM WatchMatchesOption == Spec => []WatchFollowsOption
  <1>1. CopierInv => WatchFollowsOption
    BY DEF CopierInv
  <1> QED
    BY <1>1, CopierInvariant, PTL

\* tryCopyImage overlooks no image that appeared complete under watch.
THEOREM ImagesSeen == Spec => []CompleteImagesAreSeen
  <1>1. CopierInv => CompleteImagesAreSeen
    BY DEF CopierInv
  <1> QED
    BY <1>1, CopierInvariant, PTL

\* tryCopyImage replaces an image by an older one only if it is the first that
\* this process copies.
THEOREM OlderOnlyFirst == Spec => OnlyTheFirstCopyIsOlder
  <1> DEFINE Step == \A f, g \in Files, t, u \in Times :
                       clipboard = <<g, u>> /\ clipboard' = <<f, t>> /\ t < u => filename = NoFile
  <1>1. CopierInv /\ [Next]_vars => [Step]_vars
    <2> SUFFICES ASSUME CopierInv, Next,
                        NEW f \in Files, NEW g \in Files, NEW t \in Times, NEW u \in Times,
                        clipboard = <<g, u>>, clipboard' = <<f, t>>, t < u, filename # NoFile
                 PROVE  FALSE
      OBVIOUS
    <2>1. Other # <<f, t>> /\ Other # <<g, u>>
      BY CopierAssumption DEF CopierAssumption, Times
    <2>2. clipboard' # clipboard
      BY DEF Times
    <2>3. \E d \in Dirs : HandleChange(d)
      BY <2>1, <2>2
         DEF Next, Environment, CreateFile, WriteFile, DeleteFile, RemoveDir, MakeDir,
             UserCopies, Restart, RemoteSet, HandleSaved, reportVars
    <2>4. PICK d \in Dirs : TryCopyImage(d)
      BY <2>3 DEF HandleChange
    <2>5. PICK h \in Candidates(d) : clipboard' = <<h, mtime[h]>>
      BY <2>2, <2>4 DEF TryCopyImage, reportVars
    <2>6. timestamp <= t
      BY <2>5 DEF Candidates
    <2>7. timestamp = u
      BY <2>1 DEF CopierInv, ClipboardReported
    <2> QED
      BY <2>6, <2>7 DEF Times
  <1> QED
    BY <1>1, CopierInvariant, PTL DEF Spec, OnlyTheFirstCopyIsOlder
=============================================================================
