---------------------------- MODULE FetchProofs ----------------------------
(***************************************************************************)
(* What holds of the fetcher for any number of tasks, urls and revisions:  *)
(* it only uses lockfile and unlockfile, changes a file only under a lock, *)
(* the checksums of a done stamp are those of the file beside it, whatever *)
(* is killed, cleaned or expected differently, and what is fetched and     *)
(* unpacked is what is wanted.                                             *)
(***************************************************************************)
EXTENDS Fetch, FileLockProofs

\* Between the return of lockfile() and the call of unlockfile() in download() and clean().
Working == {"verify", "restamp", "unstamp", "mirror", "download", "cloned", "unlink", "fetched", "error", "stamp",
            "dump", "finish", "swallow", "raise", "cleaned"}

\* What a task knows at its place.
TaskInv(t) ==
    /\ pc[t] \in Working => at[<<t, Url(t)>>] = "in"
    /\ on[t] \in {Url(t), Tar(t)}
    /\ on[t] # Url(t) => phase[t] \in {"premirror", "mirrors"}
    /\ pc[t] \in {"cloned", "unlink"} => on[t] = Url(t) /\ Url(t) \notin Summed /\ file[Url(t)] # None
    /\ pc[t] \in {"restamp", "unstamp"} => on[t] = Url(t) /\ Url(t) \in Summed
    /\ pc[t] = "restamp" => file[Url(t)] = {Want(t)} /\ file[Url(t)] # None
    /\ (pc[t] = "dump" /\ Url(t) \in Summed) => file[Url(t)] = {Want(t)}
    /\ (pc[t] = "download" /\ on[t] = Url(t) /\ Url(t) \in Summed) => stamp[Url(t)] = None

\* Only a file that some recipe names has checksums in its stamp; a tarball has none.
StampsKnown == \A u \in Urls : stamp[u] \in Revs => \E t \in Tasks : Url(t) = u /\ u \in Summed

Typed == FetchTypeOK /\ pc = [t \in Tasks |-> pc[t]]

Calling == how = [h \in Handles |-> Retry]

FetchInv ==
    /\ LockInv /\ Typed /\ Calling
    /\ \A t \in Tasks : TaskInv(t)
    /\ StampsKnown
    /\ StampTellsTruth

-----------------------------------------------------------------------------
LEMMA JobFacts ==
    ASSUME job \in Assignments, NEW t \in Tasks
    PROVE  /\ Url(t) \in Urls /\ Tar(t) \in Urls /\ Want(t) \in Revs
           /\ Url(t) \in Summed => Tar(t) = Url(t)
           /\ Tar(t) # Url(t) => Tar(t) \in Summed
           /\ \A s \in Tasks : Tar(t) # Url(t) => Url(s) # Tar(t)
           /\ \A u \in Urls : <<t, u>> \in Handles
           /\ Want(t) # "empty" /\ Want(t) # None
<1>1. job \in [url : [Tasks -> Urls], want : [Tasks -> Revs], cleaner : SUBSET Tasks]
  BY FetchAssumption DEF FetchAssumption
<1> QED  BY <1>1, FetchAssumption DEF FetchAssumption, Url, Tar, Want, Handles

LEMMA RetryIsCall == Retry \in Calls
BY DEF Retry, Calls

\* Two tasks at work have different urls, since each has the lock of its own.
LEMMA WorkersDiffer ==
    ASSUME LockInv, Calling, job \in Assignments, NEW s \in Tasks, NEW t \in Tasks, s # t,
           at[<<s, Url(s)>>] = "in", at[<<t, Url(t)>>] = "in"
    PROVE  Url(s) # Url(t)
<1> SUFFICES ASSUME Url(s) = Url(t) PROVE FALSE
  OBVIOUS
<1> DEFINE g == <<s, Url(s)>>
           h == <<t, Url(t)>>
<1>1. g \in Handles /\ h \in Handles /\ g # h /\ g[2] = h[2]
  BY JobFacts
<1>2. Held(g) = "EX" /\ Held(h) = "EX"
  BY <1>1 DEF Calling, Held, Mode, Retry
<1>3. LockExclusion
  BY InvExcludes
<1> HIDE DEF g, h
<1> QED  BY <1>1, <1>2, <1>3 DEF LockExclusion

-----------------------------------------------------------------------------
(* A step of a task is one of the locks, and changes nothing of the other  *)
(* tasks.                                                                  *)

\* A step of a task, and one that ends its process.
Works(t) == TaskStep(t) \/ DiskError(t) \/ CleanError(t)
Dies(t)  == Crash(t) \/ UnpackFails(t)

Local(t) ==
    /\ job' = job /\ how' = how
    /\ \A s \in Tasks : s # t =>
          /\ pc'[s] = pc[s] /\ phase'[s] = phase[s] /\ on'[s] = on[s]
          /\ at'[<<s, Url(s)>>] = at[<<s, Url(s)>>]

LEMMA StepCalls ==
    ASSUME job \in Assignments, NEW t \in Tasks, Works(t)
    PROVE  UNCHANGED lockVars \/ \E u \in Urls : Lockfile(<<t, u>>, Retry) \/ PromoteLock(<<t, u>>)
<1>0. Url(t) \in Urls /\ Tar(t) \in Urls
  BY JobFacts
<1>1. CASE StartFetch(t) \/ EnterMirror(t) \/ StartUnpack(t) \/ Unpack(t) \/ CleanStamp(t) \/ Finish(t) \/ Swallow(t) \/ Raise(t)
  BY <1>0, <1>1 DEF StartFetch, EnterMirror, StartUnpack, Unpack, CleanStamp, Finish, Swallow, Raise
<1>2. CASE Fetched(t) \/ Error(t)
  BY <1>0, <1>2 DEF Fetched, Error, LeaveMirror
<1>f. CASE DiskError(t) \/ CleanError(t)
  BY <1>0, <1>f DEF DiskError, CleanError, Unwind, LeaveMirror
<1>3. CASE StampTouch(t) \/ StampDump(t) \/ StampMismatch(t)
  BY <1>0, <1>3 DEF StampTouch, StampDump, StampMismatch, Stamped
<1>4. CASE FirstVerify(t) \/ VerifyMissing(t) \/ VerifyUnchecked(t) \/ VerifyMatch(t) \/ Restamp(t)
           \/ VerifyMismatch(t) \/ Unstamp(t)
  BY <1>4 DEF FirstVerify, VerifyMissing, VerifyUnchecked, VerifyMatch, Restamp, VerifyMismatch, Unstamp
<1>5. CASE DownloadFile(t) \/ DownloadClone(t) \/ DownloadRevs(t) \/ DownloadUnlink(t) \/ DownloadNothing(t) \/ DownloadFails(t)
           \/ StampCreate(t) \/ CleanFile(t)
  BY <1>5 DEF DownloadFile, DownloadClone, DownloadRevs, DownloadUnlink, DownloadNothing, DownloadFails, StampCreate, CleanFile
<1> QED  BY <1>1, <1>2, <1>3, <1>4, <1>5, <1>f DEF Works, TaskStep

LEMMA StepLocks ==
    ASSUME job \in Assignments, [Next]_vars
    PROVE  [LockNext]_lockVars
<1>1. ASSUME NEW t \in Tasks, Works(t) PROVE [LockNext]_lockVars
  BY <1>1, StepCalls, JobFacts, RetryIsCall DEF LockNext
<1>2. ASSUME NEW t \in Tasks, LockProgress(t) PROVE [LockNext]_lockVars
  BY <1>2, FetchAssumption DEF LockProgress, LockNext, FetchAssumption, Handles
<1>3. ASSUME NEW t \in Tasks, Dies(t) PROVE [LockNext]_lockVars
  BY <1>3, FetchAssumption DEF Dies, Crash, UnpackFails, LockNext, FetchAssumption
<1>4. CASE UNCHANGED vars
  BY <1>4 DEF vars
<1> QED  BY <1>1, <1>2, <1>3, <1>4 DEF Next, Fault, Works, Dies

LEMMA StepLocal ==
    ASSUME FetchInv, NEW t \in Tasks, Works(t) \/ Dies(t)
    PROVE  Local(t)
<1>0. LockTypeOK /\ job \in Assignments
  BY DEF FetchInv, LockInv, Typed, FetchTypeOK
<1>1. job' = job
  <2>1. CASE StartFetch(t) \/ EnterMirror(t) \/ StartUnpack(t) \/ Unpack(t) \/ CleanStamp(t) \/ Finish(t) \/ Swallow(t) \/ Raise(t) \/ Dies(t)
    BY <2>1 DEF StartFetch, EnterMirror, StartUnpack, Unpack, CleanStamp, Finish, Swallow, Raise, Dies, Crash, UnpackFails
  <2>2. CASE Fetched(t) \/ Error(t) \/ StampTouch(t) \/ StampDump(t) \/ StampMismatch(t)
    BY <2>2 DEF Fetched, Error, StampTouch, StampDump, StampMismatch
  <2>f. CASE DiskError(t) \/ CleanError(t)
    BY <2>f DEF DiskError, CleanError
  <2>3. CASE FirstVerify(t) \/ VerifyMissing(t) \/ VerifyUnchecked(t) \/ VerifyMatch(t) \/ Restamp(t)
             \/ VerifyMismatch(t) \/ Unstamp(t)
    BY <2>3 DEF FirstVerify, VerifyMissing, VerifyUnchecked, VerifyMatch, Restamp, VerifyMismatch, Unstamp
  <2>4. CASE DownloadFile(t) \/ DownloadClone(t) \/ DownloadRevs(t) \/ DownloadUnlink(t) \/ DownloadNothing(t) \/ DownloadFails(t)
             \/ StampCreate(t) \/ CleanFile(t)
    BY <2>4 DEF DownloadFile, DownloadClone, DownloadRevs, DownloadUnlink, DownloadNothing, DownloadFails, StampCreate, CleanFile
  <2> QED  BY <2>1, <2>2, <2>3, <2>4, <2>f DEF Works, TaskStep
<1>2. how' = how /\ \A s \in Tasks : s # t => at'[<<s, Url(s)>>] = at[<<s, Url(s)>>]
  <2>1. CASE Dies(t)
    BY <1>0, <2>1, DeadHandles, JobFacts, FetchAssumption DEF Dies, Crash, UnpackFails, FetchAssumption
  <2>2. CASE UNCHANGED lockVars
    BY <2>2 DEF lockVars
  <2>3. ASSUME NEW u \in Urls, Lockfile(<<t, u>>, Retry) \/ PromoteLock(<<t, u>>)
        PROVE  how' = how /\ \A s \in Tasks : s # t => at'[<<s, Url(s)>>] = at[<<s, Url(s)>>]
    <3>1. \A g \in Handles : g # <<t, u>> => at'[g] = at[g]
      BY <1>0, <2>3, OneHandle, JobFacts, RetryIsCall
    <3>2. how' = how
      BY <1>0, <2>3 DEF Lockfile, PromoteLock, FetchInv, Calling
    <3> QED  BY <1>0, <3>1, <3>2, JobFacts
  <2> QED  BY <1>0, <2>1, <2>2, <2>3, StepCalls
<1>3. \A s \in Tasks : s # t => pc'[s] = pc[s] /\ phase'[s] = phase[s] /\ on'[s] = on[s]
  <2> USE <1>0 DEF FetchInv, Typed, FetchTypeOK, Goto, GotoIn
  <2>1. CASE StartFetch(t) \/ EnterMirror(t) \/ StartUnpack(t) \/ Unpack(t) \/ CleanStamp(t) \/ Finish(t) \/ Swallow(t) \/ Raise(t) \/ Dies(t)
    BY <2>1 DEF StartFetch, EnterMirror, StartUnpack, Unpack, CleanStamp, Finish, Swallow, Raise, Dies, Crash, UnpackFails
  <2>2. CASE Fetched(t) \/ Error(t)
    BY <2>2 DEF Fetched, Error, LeaveMirror
  <2>f. CASE DiskError(t) \/ CleanError(t)
    BY <2>f DEF DiskError, CleanError, Unwind, LeaveMirror
  <2>3. CASE StampTouch(t) \/ StampDump(t) \/ StampMismatch(t)
    BY <2>3 DEF StampTouch, StampDump, StampMismatch, Stamped
  <2>4. CASE VerifyMissing(t) \/ VerifyUnchecked(t) \/ VerifyMatch(t) \/ Restamp(t) \/ Unstamp(t)
    <3>1. ASSUME NEW r, Verified(t, r)
          PROVE  \A s \in Tasks : s # t => pc'[s] = pc[s] /\ phase'[s] = phase[s] /\ on'[s] = on[s]
      BY <3>1 DEF Verified
    <3>2. (\E r : Verified(t, r)) \/ VerifyMatch(t)
      BY <2>4 DEF VerifyMissing, VerifyUnchecked, Restamp, Unstamp
    <3> QED  BY <3>1, <3>2 DEF VerifyMatch
  <2>5. CASE FirstVerify(t) \/ VerifyMismatch(t) \/ StampCreate(t) \/ CleanFile(t)
    BY <2>5 DEF FirstVerify, VerifyMismatch, StampCreate, CleanFile
  <2>6. CASE DownloadFile(t) \/ DownloadClone(t) \/ DownloadRevs(t) \/ DownloadUnlink(t) \/ DownloadNothing(t) \/ DownloadFails(t)
    BY <2>6 DEF DownloadFile, DownloadClone, DownloadRevs, DownloadUnlink, DownloadNothing, DownloadFails, taskVars
  <2> QED  BY <2>1, <2>2, <2>3, <2>4, <2>5, <2>6, <2>f DEF Works, TaskStep
<1> QED  BY <1>1, <1>2, <1>3 DEF Local

-----------------------------------------------------------------------------
(* The files and stamps a task changes are those of its url, whose lock it *)
(* has, and of the tarball of its url.                                     *)

Changed(u) == file'[u] # file[u] \/ stamp'[u] # stamp[u]

LEMMA ChangesUnderLock ==
    ASSUME FetchInv, NEW t \in Tasks, Works(t) \/ Dies(t), NEW u \in Urls, Changed(u)
    PROVE  u \in {Url(t), Tar(t)} /\ at[<<t, Url(t)>>] = "in"
<1>0. /\ TaskInv(t) /\ Url(t) \in Urls /\ Tar(t) \in Urls
      /\ on[t] \in {Url(t), Tar(t)}
      /\ file = [v \in Urls |-> file[v]] /\ stamp = [v \in Urls |-> stamp[v]]
      /\ pc[t] \in Working => at[<<t, Url(t)>>] = "in"
  BY JobFacts DEF FetchInv, Typed, FetchTypeOK, TaskInv
<1> USE DEF Changed
<1>1. CASE StartFetch(t) \/ EnterMirror(t) \/ StartUnpack(t) \/ Unpack(t) \/ Finish(t) \/ Swallow(t) \/ Raise(t) \/ FirstVerify(t)
           \/ VerifyUnchecked(t) \/ DownloadNothing(t) \/ StampTouch(t) \/ DiskError(t) \/ Crash(t)
  BY <1>1 DEF StartFetch, EnterMirror, StartUnpack, Unpack, Finish, Swallow, Raise, FirstVerify, VerifyUnchecked, DownloadNothing,
              StampTouch, DiskError, Crash, diskVars
<1>2. CASE DownloadFile(t) \/ DownloadClone(t) \/ DownloadRevs(t) \/ DownloadUnlink(t) \/ DownloadFails(t)
  BY <1>0, <1>2 DEF DownloadFile, DownloadClone, DownloadRevs, DownloadUnlink, DownloadFails, HasTar, Working
<1>3. CASE VerifyMissing(t) \/ VerifyMatch(t) \/ Restamp(t) \/ VerifyMismatch(t) \/ Unstamp(t)
  BY <1>0, <1>3 DEF VerifyMissing, VerifyMatch, Restamp, VerifyMismatch, MovedAway, Unstamp, Working
<1>4. CASE Fetched(t) \/ Error(t) \/ CleanError(t)
  BY <1>0, <1>4 DEF Fetched, Error, CleanError, Cleaned, Working, diskVars
<1>5. CASE StampCreate(t) \/ StampDump(t) \/ StampMismatch(t)
  BY <1>0, <1>5 DEF StampCreate, StampDump, StampMismatch, MovedAway, Working
<1>6. CASE CleanFile(t) \/ CleanStamp(t) \/ UnpackFails(t)
  BY <1>0, <1>6 DEF CleanFile, CleanStamp, UnpackFails, Cleaned, Working
<1> QED  BY <1>1, <1>2, <1>3, <1>4, <1>5, <1>6 DEF Works, Dies, TaskStep

\* So the file and the stamp of a task at work stay as they are.
LEMMA OthersUnchanged ==
    ASSUME FetchInv, NEW s \in Tasks, NEW t \in Tasks, s # t, Works(t) \/ Dies(t), pc[s] \in Working
    PROVE  file'[Url(s)] = file[Url(s)] /\ stamp'[Url(s)] = stamp[Url(s)]
<1>0. LockInv /\ Calling /\ job \in Assignments /\ TaskInv(s)
  BY DEF FetchInv, Typed, FetchTypeOK
<1> SUFFICES ASSUME Changed(Url(s)) PROVE FALSE
  BY DEF Changed
<1>1. Url(s) \in {Url(t), Tar(t)} /\ at[<<t, Url(t)>>] = "in"
  BY <1>0, ChangesUnderLock, JobFacts
<1>2. Url(s) # Url(t)
  BY <1>0, <1>1, WorkersDiffer DEF TaskInv
<1> QED  BY <1>0, <1>1, <1>2, JobFacts

LEMMA OtherTaskInv ==
    ASSUME FetchInv, NEW s \in Tasks, NEW t \in Tasks, s # t, Works(t) \/ Dies(t)
    PROVE  TaskInv(s)'
<1>0. TaskInv(s) /\ Local(t) /\ (pc[s] \in Working => file'[Url(s)] = file[Url(s)] /\ stamp'[Url(s)] = stamp[Url(s)])
  BY OthersUnchanged, StepLocal DEF FetchInv
<1>1. Url(s)' = Url(s) /\ Tar(s)' = Tar(s) /\ Want(s)' = Want(s)
  BY <1>0 DEF Local, Url, Tar, Want
<1> QED  BY <1>0, <1>1 DEF TaskInv, Local, Working

LEMMA OwnLock ==
    ASSUME FetchInv, NEW t \in Tasks, Works(t)
    PROVE  pc'[t] \in Working => at'[<<t, Url(t)>>] = "in"
<1>0. /\ TaskInv(t) /\ LockTypeOK /\ job \in Assignments
      /\ pc = [s \in Tasks |-> pc[s]]
  BY DEF FetchInv, Typed, FetchTypeOK
<1>1. \A u \in Urls : u # Url(t) /\ (Lockfile(<<t, u>>, Retry) \/ PromoteLock(<<t, u>>))
                       => at'[<<t, Url(t)>>] = at[<<t, Url(t)>>]
  BY <1>0, OneHandle, JobFacts, RetryIsCall
<1>2. UNCHANGED lockVars => at' = at
  BY DEF lockVars
<1>3. Tar(t) \in Urls /\ (pc[t] \in Working => at[<<t, Url(t)>>] = "in")
  BY <1>0, JobFacts DEF TaskInv
<1> USE DEF Working, Goto, GotoIn
<1>4. CASE StartFetch(t) \/ StartUnpack(t) \/ Unpack(t) \/ CleanStamp(t)
  BY <1>0, <1>4 DEF StartFetch, StartUnpack, Unpack, CleanStamp
<1>5. CASE EnterMirror(t)
  BY <1>1, <1>2, <1>3, <1>5 DEF EnterMirror, HasTar
<1>6. CASE Fetched(t) \/ Error(t)
  BY <1>1, <1>2, <1>3, <1>6 DEF Fetched, Error, LeaveMirror, HasTar
<1>f. CASE DiskError(t) \/ CleanError(t)
  BY <1>1, <1>2, <1>3, <1>f DEF DiskError, CleanError, Unwind, LeaveMirror, HasTar
<1>7. CASE StampTouch(t) \/ StampDump(t) \/ StampMismatch(t) \/ Finish(t) \/ Swallow(t) \/ Raise(t)
  BY <1>0, <1>2, <1>3, <1>7 DEF StampTouch, StampDump, StampMismatch, Stamped, Finish, Swallow, Raise
<1>8. CASE FirstVerify(t) \/ VerifyMissing(t) \/ VerifyUnchecked(t) \/ VerifyMatch(t) \/ Restamp(t)
           \/ VerifyMismatch(t) \/ Unstamp(t)
  BY <1>2, <1>3, <1>8 DEF FirstVerify, VerifyMissing, VerifyUnchecked, VerifyMatch, Restamp, VerifyMismatch, Unstamp
<1>9. CASE DownloadFile(t) \/ DownloadClone(t) \/ DownloadRevs(t) \/ DownloadUnlink(t) \/ DownloadNothing(t) \/ DownloadFails(t)
           \/ StampCreate(t) \/ CleanFile(t)
  BY <1>2, <1>3, <1>9 DEF DownloadFile, DownloadClone, DownloadRevs, DownloadUnlink, DownloadNothing, DownloadFails, StampCreate, CleanFile
<1> QED  BY <1>4, <1>5, <1>6, <1>7, <1>8, <1>9, <1>f DEF Works, TaskStep

LEMMA OwnPlace ==
    ASSUME FetchInv, NEW t \in Tasks, Works(t)
    PROVE  /\ on'[t] \in {Url(t), Tar(t)}
           /\ on'[t] # Url(t) => phase'[t] \in {"premirror", "mirrors"}
<1> DEFINE Placed == /\ on'[t] \in {Url(t), Tar(t)}
                     /\ on'[t] # Url(t) => phase'[t] \in {"premirror", "mirrors"}
<1>0. /\ TaskInv(t)
      /\ phase = [s \in Tasks |-> phase[s]] /\ on = [s \in Tasks |-> on[s]]
  BY DEF FetchInv, Typed, FetchTypeOK
<1> USE DEF TaskInv, Goto, GotoIn
<1>1. CASE StartFetch(t) \/ EnterMirror(t) \/ StartUnpack(t) \/ Unpack(t) \/ CleanStamp(t) \/ Finish(t) \/ Swallow(t) \/ Raise(t)
  BY <1>0, <1>1 DEF StartFetch, EnterMirror, StartUnpack, Unpack, CleanStamp, Finish, Swallow, Raise
<1>2. CASE Fetched(t) \/ Error(t)
  BY <1>0, <1>2 DEF Fetched, Error, LeaveMirror
<1>f. CASE DiskError(t) \/ CleanError(t)
  BY <1>0, <1>f DEF DiskError, CleanError, Unwind, LeaveMirror
<1>3. CASE StampTouch(t) \/ StampDump(t) \/ StampMismatch(t)
  BY <1>0, <1>3 DEF StampTouch, StampDump, StampMismatch, Stamped
<1>4. CASE VerifyMissing(t) \/ VerifyUnchecked(t) \/ VerifyMatch(t) \/ Restamp(t) \/ Unstamp(t)
  <2>1. ASSUME NEW r, Verified(t, r) PROVE Placed
    BY <1>0, <2>1 DEF Verified
  <2>2. (\E r : Verified(t, r)) \/ VerifyMatch(t)
    BY <1>4 DEF VerifyMissing, VerifyUnchecked, Restamp, Unstamp
  <2> QED  BY <1>0, <2>1, <2>2 DEF VerifyMatch
<1>5. CASE FirstVerify(t) \/ VerifyMismatch(t) \/ StampCreate(t) \/ CleanFile(t)
  BY <1>0, <1>5 DEF FirstVerify, VerifyMismatch, StampCreate, CleanFile
<1>6. CASE DownloadFile(t) \/ DownloadClone(t) \/ DownloadRevs(t) \/ DownloadUnlink(t) \/ DownloadNothing(t) \/ DownloadFails(t)
  BY <1>0, <1>6 DEF DownloadFile, DownloadClone, DownloadRevs, DownloadUnlink, DownloadNothing, DownloadFails, taskVars
<1> QED  BY <1>1, <1>2, <1>3, <1>4, <1>5, <1>6, <1>f DEF Works, TaskStep

\* What a task knows of its file and its stamp after a step.
Knows(t) ==
    /\ pc'[t] \in {"cloned", "unlink"} => on'[t] = Url(t) /\ Url(t) \notin Summed /\ file'[Url(t)] # None
    /\ pc'[t] \in {"restamp", "unstamp"} => on'[t] = Url(t) /\ Url(t) \in Summed
    /\ pc'[t] = "restamp" => file'[Url(t)] = {Want(t)} /\ file'[Url(t)] # None
    /\ (pc'[t] = "dump" /\ Url(t) \in Summed) => file'[Url(t)] = {Want(t)}
    /\ (pc'[t] = "download" /\ on'[t] = Url(t) /\ Url(t) \in Summed) => stamp'[Url(t)] = None

LEMMA OwnKnowledge ==
    ASSUME FetchInv, NEW t \in Tasks, Works(t)
    PROVE  Knows(t)
<1>0. /\ TaskInv(t) /\ Url(t) \in Urls /\ Tar(t) \in Urls
      /\ Url(t) \in Summed => Tar(t) = Url(t)
      /\ Tar(t) # Url(t) => Tar(t) \in Summed
      /\ pc = [s \in Tasks |-> pc[s]] /\ on = [s \in Tasks |-> on[s]]
      /\ file = [v \in Urls |-> file[v]] /\ stamp = [v \in Urls |-> stamp[v]]
  BY JobFacts DEF FetchInv, Typed, FetchTypeOK
<1> USE DEF Knows, Goto, GotoIn
<1>1. CASE StartFetch(t) \/ EnterMirror(t) \/ StartUnpack(t) \/ Unpack(t) \/ CleanStamp(t) \/ Finish(t) \/ Swallow(t) \/ Raise(t)
  BY <1>0, <1>1 DEF StartFetch, EnterMirror, StartUnpack, Unpack, CleanStamp, Finish, Swallow, Raise
<1>2. CASE Fetched(t) \/ Error(t)
  BY <1>0, <1>2 DEF Fetched, Error, LeaveMirror
<1>f. CASE DiskError(t) \/ CleanError(t)
  BY <1>0, <1>f DEF DiskError, CleanError, Unwind, LeaveMirror
<1>3. CASE StampTouch(t) \/ StampDump(t) \/ StampMismatch(t)
  BY <1>0, <1>3 DEF StampTouch, StampDump, StampMismatch, Stamped
\* Verified leads to a download only when there is no file, and then there is no stamp.
<1>4. ASSUME NEW r \in BOOLEAN, Verified(t, r), file' = file,
             r /\ on[t] = Url(t) /\ Url(t) \in Summed => file[Url(t)] # None,
             ~r /\ on[t] = Url(t) /\ Url(t) \in Summed => stamp'[Url(t)] = None
      PROVE  Knows(t)
  BY <1>0, <1>4 DEF TaskInv, Verified, NeedUpdate
<1>5. CASE VerifyMissing(t)
  BY <1>0, <1>4, <1>5 DEF VerifyMissing
<1>6. CASE VerifyUnchecked(t)
  BY <1>0, <1>4, <1>6 DEF VerifyUnchecked, Checked, diskVars
<1>7. CASE VerifyMatch(t)
  <2>1. CASE Precomputed(on[t])
    BY <1>0, <1>4, <1>7, <2>1 DEF VerifyMatch
  <2>2. CASE ~Precomputed(on[t])
    BY <1>0, <1>7, <2>2 DEF VerifyMatch, Checksum, Checked, TaskInv
  <2> QED  BY <2>1, <2>2
<1>8. CASE Restamp(t)
  BY <1>0, <1>4, <1>8 DEF Restamp, TaskInv
<1>9. CASE Unstamp(t)
  BY <1>0, <1>4, <1>9 DEF Unstamp, TaskInv
<1>10. CASE FirstVerify(t) \/ VerifyMismatch(t) \/ StampCreate(t) \/ CleanFile(t)
  BY <1>0, <1>10 DEF FirstVerify, VerifyMismatch, StampCreate, CleanFile, Checked, Matches, TaskInv
<1>11. CASE DownloadFile(t) \/ DownloadUnlink(t) \/ DownloadNothing(t) \/ DownloadFails(t)
  BY <1>0, <1>11 DEF DownloadFile, DownloadUnlink, DownloadNothing, DownloadFails, TaskInv
<1>12. CASE DownloadClone(t) \/ DownloadRevs(t)
  <2>1. on[t] = Url(t) /\ Url(t) \notin Summed
    BY <1>0, <1>12 DEF DownloadClone, DownloadRevs, TaskInv
  <2>2. file'[Url(t)] # None
    <3>1. CASE DownloadClone(t)
      <4>1. PICK revs \in IF HasTar(t) /\ file[Tar(t)] # None THEN {file[Tar(t)]} ELSE SUBSET Revs :
                   file' = [file EXCEPT ![on[t]] = revs]
        BY <3>1 DEF DownloadClone
      <4>2. \A x \in SUBSET Revs : x # None
        BY FetchAssumption DEF FetchAssumption
      <4>3. revs # None
        BY <4>1, <4>2
      <4> QED  BY <1>0, <2>1, <4>1, <4>3
    <3>2. CASE DownloadRevs(t)
      <4>1. PICK new \in SUBSET Revs : file' = [file EXCEPT ![on[t]] = @ \cup new]
        BY <3>2 DEF DownloadRevs
      <4>2. file[Url(t)] \in SUBSET Revs
        BY <1>0, <2>1, <3>2 DEF DownloadRevs, FetchInv, Typed, FetchTypeOK
      <4>3. file[Url(t)] \cup new \in SUBSET Revs
        BY <4>2
      <4>4. file'[Url(t)] = file[Url(t)] \cup new
        BY <1>0, <2>1, <4>1
      <4> QED  BY <4>3, <4>4, FetchAssumption DEF FetchAssumption
    <3> QED  BY <1>12, <3>1, <3>2
  <2>3. pc'[t] \in {"cloned", "unlink"} /\ on' = on
    BY <1>0, <1>12 DEF DownloadClone, DownloadRevs
  <2> QED  BY <2>1, <2>2, <2>3
<1> QED  BY <1>1, <1>2, <1>3, <1>5, <1>6, <1>7, <1>8, <1>9, <1>10, <1>11, <1>12, <1>f DEF Works, TaskStep

LEMMA OwnTaskInv ==
    ASSUME FetchInv, NEW t \in Tasks, Works(t)
    PROVE  TaskInv(t)'
<1>1. Local(t) /\ Knows(t)
  BY StepLocal, OwnKnowledge
<1>2. Url(t)' = Url(t) /\ Tar(t)' = Tar(t) /\ Want(t)' = Want(t)
  BY <1>1 DEF Local, Url, Tar, Want
<1> QED  BY <1>1, <1>2, OwnPlace, OwnLock DEF TaskInv, Knows

-----------------------------------------------------------------------------
(* Files and stamps.                                                       *)

LEMMA SwallowStep ==
    ASSUME NEW t \in Tasks, Works(t), ~Swallow(t)
    PROVE  swallowed' = swallowed
<1>1. CASE StartFetch(t) \/ EnterMirror(t) \/ StartUnpack(t) \/ Unpack(t) \/ CleanStamp(t) \/ Finish(t) \/ Raise(t)
  BY <1>1 DEF StartFetch, EnterMirror, StartUnpack, Unpack, CleanStamp, Finish, Raise
<1>2. CASE Fetched(t) \/ Error(t) \/ DiskError(t) \/ CleanError(t)
  BY <1>2 DEF Fetched, Error, DiskError, CleanError, Unwind, LeaveMirror
<1>3. CASE StampTouch(t) \/ StampDump(t) \/ StampMismatch(t) \/ FirstVerify(t) \/ VerifyMismatch(t) \/ StampCreate(t)
           \/ CleanFile(t)
  BY <1>3 DEF StampTouch, StampDump, StampMismatch, FirstVerify, VerifyMismatch, StampCreate, CleanFile
<1>4. CASE VerifyMissing(t) \/ VerifyUnchecked(t) \/ VerifyMatch(t) \/ Restamp(t) \/ Unstamp(t)
  BY <1>4 DEF VerifyMissing, VerifyUnchecked, VerifyMatch, Restamp, Unstamp, Verified
<1>5. CASE DownloadFile(t) \/ DownloadClone(t) \/ DownloadRevs(t) \/ DownloadUnlink(t) \/ DownloadNothing(t)
           \/ DownloadFails(t)
  BY <1>5 DEF DownloadFile, DownloadClone, DownloadRevs, DownloadUnlink, DownloadNothing, DownloadFails
<1> QED  BY <1>1, <1>2, <1>3, <1>4, <1>5 DEF Works, TaskStep

LEMMA StepTyped ==
    ASSUME FetchInv, LockInv', NEW t \in Tasks, Works(t)
    PROVE  Typed'
<1>0. /\ FetchTypeOK /\ pc = [s \in Tasks |-> pc[s]]
      /\ Url(t) \in Urls /\ Tar(t) \in Urls /\ Want(t) \in Revs
      /\ on[t] \in Urls /\ LockTypeOK' /\ job' = job
  BY JobFacts, StepLocal DEF FetchInv, Typed, FetchTypeOK, LockInv, Local
<1>1. faults' \in 0 .. MaxFaults /\ pc' = [s \in Tasks |-> pc'[s]]
  <2> USE <1>0 DEF Goto, GotoIn, FetchTypeOK
  <2>1. CASE StartFetch(t) \/ EnterMirror(t) \/ StartUnpack(t) \/ Unpack(t) \/ CleanStamp(t) \/ Finish(t) \/ Swallow(t) \/ Raise(t)
    BY <2>1 DEF StartFetch, EnterMirror, StartUnpack, Unpack, CleanStamp, Finish, Swallow, Raise
  <2>2. CASE Fetched(t) \/ Error(t)
    BY <2>2 DEF Fetched, Error, LeaveMirror
  <2>f. CASE DiskError(t) \/ CleanError(t)
    BY <2>f, FetchAssumption DEF DiskError, CleanError, Unwind, LeaveMirror, NewFault, FetchAssumption
  <2>3. CASE StampTouch(t) \/ StampDump(t) \/ StampMismatch(t)
    BY <2>3 DEF StampTouch, StampDump, StampMismatch, Stamped
  <2>4. ASSUME NEW r, Verified(t, r) PROVE pc' = [s \in Tasks |-> pc'[s]]
    BY <2>4 DEF Verified
  <2>5. CASE VerifyMissing(t) \/ VerifyUnchecked(t) \/ VerifyMatch(t) \/ Restamp(t) \/ Unstamp(t)
    BY <2>4, <2>5 DEF VerifyMissing, VerifyUnchecked, VerifyMatch, Restamp, Unstamp
  <2>6. CASE FirstVerify(t) \/ VerifyMismatch(t) \/ StampCreate(t) \/ CleanFile(t)
    BY <2>6 DEF FirstVerify, VerifyMismatch, StampCreate, CleanFile
  <2>7. CASE DownloadFile(t) \/ DownloadClone(t) \/ DownloadRevs(t) \/ DownloadUnlink(t) \/ DownloadNothing(t) \/ DownloadFails(t)
    BY <2>7 DEF DownloadFile, DownloadClone, DownloadRevs, DownloadUnlink, DownloadNothing, DownloadFails, taskVars
  <2> QED  BY <2>1, <2>2, <2>3, <2>5, <2>6, <2>7, <2>f DEF Works, TaskStep
<1> DEFINE Phases == {"first", "second", "premirror", "upstream", "mirrors", "final"}
           Moved == \/ phase' = phase /\ on' = on
                    \/ \E ph \in Phases, u \in Urls : /\ phase' = [phase EXCEPT ![t] = ph]
                                                     /\ on' = [on EXCEPT ![t] = u]
                    \/ phase' = phase /\ \E u \in Urls : on' = [on EXCEPT ![t] = u]
           Judged == \/ result' = result /\ done' = done /\ verified' = verified
                     \/ result' = result /\ verified' = verified /\ \E b \in BOOLEAN : done' = [done EXCEPT ![t] = b]
                     \/ result' = result /\ done' = done /\ \E b \in BOOLEAN : verified' = [verified EXCEPT ![t] = b]
                     \/ /\ done' = done /\ verified' = verified
                        /\ \E r \in {"ok", "failed"} : result' = [result EXCEPT ![t] = r]
<1>2. Moved /\ Judged
  <2> USE <1>0 DEF GotoIn
  <2>1. CASE StartFetch(t) \/ EnterMirror(t) \/ StartUnpack(t) \/ Unpack(t) \/ CleanStamp(t) \/ Finish(t) \/ Swallow(t) \/ Raise(t)
    BY <2>1 DEF StartFetch, EnterMirror, StartUnpack, Unpack, CleanStamp, Finish, Swallow, Raise
  <2>2. CASE Fetched(t) \/ Error(t)
    <3>1. ASSUME NEW ok \in BOOLEAN, LeaveMirror(t, ok) PROVE Moved /\ Judged
      BY <3>1 DEF LeaveMirror
    <3> QED  BY <2>2, <3>1 DEF Fetched, Error
  <2>f. CASE DiskError(t) \/ CleanError(t)
    <3>1. ASSUME LeaveMirror(t, FALSE) PROVE Moved /\ Judged
      BY <3>1 DEF LeaveMirror
    <3>2. ASSUME NEW l, Unwind(t, l) PROVE Moved /\ Judged
      BY <3>2 DEF Unwind
    <3>3. LeaveMirror(t, FALSE) \/ Unwind(t, "swallow") \/ Unwind(t, "raise")
      BY <2>f DEF DiskError, CleanError
    <3> QED  BY <3>1, <3>2, <3>3
  <2>3. CASE StampTouch(t) \/ StampDump(t)
    BY <2>3 DEF StampTouch, StampDump, Stamped
  <2>4. CASE StampMismatch(t)
    BY <2>4 DEF StampMismatch
  <2>5. ASSUME NEW r \in BOOLEAN, Verified(t, r) PROVE Moved /\ Judged
    BY <2>5 DEF Verified
  <2>6. CASE VerifyMissing(t) \/ VerifyUnchecked(t) \/ VerifyMatch(t) \/ Restamp(t) \/ Unstamp(t)
    BY <2>5, <2>6 DEF VerifyMissing, VerifyUnchecked, VerifyMatch, Restamp, Unstamp
  <2>7. CASE FirstVerify(t) \/ VerifyMismatch(t) \/ StampCreate(t) \/ CleanFile(t)
    BY <2>7 DEF FirstVerify, VerifyMismatch, StampCreate, CleanFile
  <2>8. CASE DownloadFile(t) \/ DownloadClone(t) \/ DownloadRevs(t) \/ DownloadUnlink(t) \/ DownloadNothing(t) \/ DownloadFails(t)
    BY <2>8 DEF DownloadFile, DownloadClone, DownloadRevs, DownloadUnlink, DownloadNothing, DownloadFails, taskVars
  <2> QED  BY <2>1, <2>2, <2>3, <2>4, <2>6, <2>7, <2>8, <2>f DEF Works, TaskStep
<1>3. /\ phase' \in [Tasks -> Phases] /\ on' \in [Tasks -> Urls]
      /\ done' \in [Tasks -> BOOLEAN] /\ verified' \in [Tasks -> BOOLEAN]
      /\ result' \in [Tasks -> {"none", "ok", "failed"}] /\ swallowed' \in [Tasks -> BOOLEAN]
  <2>1. phase' \in [Tasks -> Phases] /\ on' \in [Tasks -> Urls]
    <3> HIDE DEF Judged
    <3>1. phase \in [Tasks -> Phases] /\ on \in [Tasks -> Urls]
      BY <1>0 DEF FetchTypeOK
    <3> HIDE DEF Phases
    <3> QED  BY <1>2, <3>1
  <2>2. done' \in [Tasks -> BOOLEAN] /\ verified' \in [Tasks -> BOOLEAN]
    BY <1>0, <1>2 DEF FetchTypeOK
  <2>3. result' \in [Tasks -> {"none", "ok", "failed"}]
    <3> DEFINE Results == {"none", "ok", "failed"}
    <3>1. result \in [Tasks -> Results] /\ "ok" \in Results /\ "failed" \in Results
      BY <1>0 DEF FetchTypeOK
    <3>2. result' = result \/ \E r \in {"ok", "failed"} : result' = [result EXCEPT ![t] = r]
      BY <1>2
    <3> HIDE DEF Results
    <3>3. result' \in [Tasks -> Results]
      BY <3>1, <3>2
    <3> QED  BY <3>3 DEF Results
  <2>4. swallowed' \in [Tasks -> BOOLEAN]
    BY <1>0, SwallowStep DEF FetchTypeOK, Swallow
  <2> QED  BY <2>1, <2>2, <2>3, <2>4
<1>4. /\ file' \in [Urls -> {None} \cup SUBSET Revs]
      /\ stamp' \in [Urls -> {None, "empty"} \cup Revs]
      /\ newer' \in [Urls -> BOOLEAN]
  <2> USE <1>0 DEF FetchTypeOK
  <2>1. CASE StartFetch(t) \/ EnterMirror(t) \/ StartUnpack(t) \/ Unpack(t) \/ Finish(t) \/ Swallow(t) \/ Raise(t) \/ FirstVerify(t)
             \/ VerifyUnchecked(t) \/ DownloadNothing(t) \/ StampTouch(t) \/ DiskError(t)
    BY <2>1 DEF StartFetch, EnterMirror, StartUnpack, Unpack, Finish, Swallow, Raise, FirstVerify, VerifyUnchecked, DownloadNothing,
                StampTouch, DiskError, diskVars
  <2>2. CASE DownloadFile(t)
    BY <2>2 DEF DownloadFile
  <2>3. CASE DownloadRevs(t)
    <3>1. PICK new \in SUBSET Revs : file' = [file EXCEPT ![on[t]] = @ \cup new]
      BY <2>3 DEF DownloadRevs
    <3>2. file[on[t]] \in SUBSET Revs
      BY <2>3 DEF DownloadRevs
    <3>3. file[on[t]] \cup new \in SUBSET Revs
      BY <3>2
    <3>4. file' \in [Urls -> {None} \cup SUBSET Revs]
      BY <3>1, <3>3
    <3> QED  BY <2>3, <3>4 DEF DownloadRevs
  <2>4. CASE DownloadClone(t)
    <3>1. PICK revs \in SUBSET Revs : file' = [file EXCEPT ![on[t]] = revs]
      BY <2>4 DEF DownloadClone
    <3> QED  BY <2>4, <3>1 DEF DownloadClone
  <2>9. CASE DownloadUnlink(t) \/ DownloadFails(t)
    BY <2>9 DEF DownloadUnlink, DownloadFails
  <2>5. CASE VerifyMissing(t) \/ VerifyMatch(t) \/ Restamp(t) \/ VerifyMismatch(t) \/ Unstamp(t)
    BY <2>5 DEF VerifyMissing, VerifyMatch, Restamp, VerifyMismatch, MovedAway, Unstamp
  <2>6. CASE Fetched(t) \/ Error(t) \/ CleanError(t)
    BY <2>6 DEF Fetched, Error, CleanError, Cleaned, diskVars
  <2>7. CASE StampCreate(t) \/ StampDump(t) \/ StampMismatch(t)
    BY <2>7 DEF StampCreate, StampDump, StampMismatch, MovedAway
  <2>8. CASE CleanFile(t) \/ CleanStamp(t)
    BY <2>8 DEF CleanFile, CleanStamp, Cleaned
  <2> QED  BY <2>1, <2>2, <2>3, <2>4, <2>5, <2>6, <2>7, <2>8, <2>9 DEF Works, TaskStep
<1> QED  BY <1>0, <1>1, <1>2, <1>3, <1>4 DEF Typed, FetchTypeOK

\* Most steps leave or remove a file, and leave, remove or empty a stamp.
Steady(u) == file'[u] \in {file[u], None} /\ stamp'[u] \in {stamp[u], None, "empty"}

LEMMA SteadyStep ==
    ASSUME FetchInv, NEW t \in Tasks, Works(t), ~DownloadFile(t), ~Restamp(t), ~StampDump(t),
           NEW u \in Summed
    PROVE  Steady(u)
<1>0. /\ on[t] \in Urls /\ Url(t) \in Urls /\ u \in Urls
      /\ file = [v \in Urls |-> file[v]] /\ stamp = [v \in Urls |-> stamp[v]]
  BY JobFacts, FetchAssumption DEF FetchInv, Typed, FetchTypeOK, FetchAssumption
<1> USE DEF Steady
<1>1. CASE StartFetch(t) \/ EnterMirror(t) \/ StartUnpack(t) \/ Unpack(t) \/ Finish(t) \/ Swallow(t) \/ Raise(t) \/ FirstVerify(t)
           \/ VerifyUnchecked(t) \/ DownloadNothing(t) \/ StampTouch(t) \/ DiskError(t)
  BY <1>1 DEF StartFetch, EnterMirror, StartUnpack, Unpack, Finish, Swallow, Raise, FirstVerify, VerifyUnchecked, DownloadNothing,
              StampTouch, DiskError, diskVars
<1>2. CASE DownloadClone(t) \/ DownloadRevs(t) \/ DownloadUnlink(t) \/ DownloadFails(t)
  BY <1>0, <1>2 DEF DownloadClone, DownloadRevs, DownloadUnlink, DownloadFails
<1>3. CASE VerifyMissing(t) \/ VerifyMatch(t) \/ VerifyMismatch(t) \/ Unstamp(t)
  BY <1>0, <1>3 DEF VerifyMissing, VerifyMatch, VerifyMismatch, MovedAway, Unstamp
<1>4. CASE Fetched(t) \/ Error(t) \/ CleanError(t) \/ StampCreate(t) \/ StampMismatch(t)
  BY <1>0, <1>4 DEF Fetched, Error, CleanError, Cleaned, diskVars, StampCreate, StampMismatch, MovedAway
<1>5. CASE CleanFile(t) \/ CleanStamp(t)
  BY <1>0, <1>5 DEF CleanFile, CleanStamp, Cleaned
<1> QED  BY <1>1, <1>2, <1>3, <1>4, <1>5 DEF Works, TaskStep

LEMMA StepStamps ==
    ASSUME FetchInv, NEW t \in Tasks, Works(t)
    PROVE  StampsKnown' /\ StampTellsTruth'
<1>0. /\ on[t] \in Urls /\ Url(t) \in Urls /\ Want(t) \in Revs /\ TaskInv(t) /\ StampsKnown /\ StampTellsTruth
      /\ file = [v \in Urls |-> file[v]] /\ stamp = [v \in Urls |-> stamp[v]]
      /\ "empty" \notin Revs /\ None \notin Revs
      /\ \A s \in Tasks : Tar(t) # Url(t) => Url(s) # Tar(t)
  BY JobFacts, FetchAssumption DEF FetchInv, Typed, FetchTypeOK, FetchAssumption
<1>1. \A s \in Tasks : Url(s)' = Url(s)
  BY StepLocal DEF Local, Url
<1>2. CASE DownloadFile(t)
  <2>1. on[t] \in Summed /\ stamp' = stamp /\ \A u \in Urls : u # on[t] => file'[u] = file[u]
    BY <1>0, <1>2 DEF DownloadFile
  <2>2. stamp[on[t]] \notin Revs
    BY <1>0, <1>2, <2>1 DEF DownloadFile, TaskInv, StampsKnown
  <2> QED  BY <1>0, <1>1, <2>1, <2>2 DEF StampsKnown, StampTellsTruth
<1>3. CASE Restamp(t) \/ StampDump(t)
  <2>1. /\ file' = file /\ \A u \in Urls : u # Url(t) => stamp'[u] = stamp[u]
        /\ stamp'[Url(t)] \in Revs => /\ Url(t) \in Summed /\ stamp'[Url(t)] = Want(t)
                                     /\ file[Url(t)] = {Want(t)}
    BY <1>0, <1>3 DEF Restamp, StampDump, TaskInv
  <2> QED  BY <1>0, <1>1, <2>1 DEF StampsKnown, StampTellsTruth
<1>4. CASE ~DownloadFile(t) /\ ~Restamp(t) /\ ~StampDump(t)
  <2>1. \A u \in Summed : Steady(u)
    BY <1>4, SteadyStep
  <2>2. \A u \in Urls \ Summed : stamp'[u] \in {stamp[u], None, "empty"}
    <3> USE <1>0
    <3>1. CASE StartFetch(t) \/ EnterMirror(t) \/ StartUnpack(t) \/ Unpack(t) \/ Finish(t) \/ Swallow(t) \/ Raise(t) \/ FirstVerify(t)
               \/ VerifyUnchecked(t) \/ DownloadNothing(t) \/ DownloadFails(t) \/ StampTouch(t)
               \/ DownloadClone(t) \/ DownloadRevs(t) \/ DownloadUnlink(t) \/ DiskError(t)
      BY <3>1 DEF StartFetch, EnterMirror, StartUnpack, Unpack, Finish, Swallow, Raise, FirstVerify, VerifyUnchecked,
                  DownloadNothing, DownloadFails, StampTouch, DiskError, diskVars, DownloadClone, DownloadUnlink, DownloadRevs
    <3>2. CASE VerifyMissing(t) \/ VerifyMatch(t) \/ VerifyMismatch(t) \/ Unstamp(t)
      BY <3>2 DEF VerifyMissing, VerifyMatch, VerifyMismatch, Unstamp
    <3>3. CASE Fetched(t) \/ Error(t) \/ CleanError(t) \/ StampCreate(t) \/ StampMismatch(t) \/ CleanFile(t) \/ CleanStamp(t)
      BY <3>3 DEF Fetched, Error, CleanError, Cleaned, diskVars, StampCreate, StampMismatch, CleanFile, CleanStamp
    <3> QED  BY <1>4, <3>1, <3>2, <3>3 DEF Works, TaskStep
  <2>3. StampsKnown'
    BY <1>0, <1>1, <2>1, <2>2 DEF StampsKnown, Steady
  <2>4. StampTellsTruth'
    BY <1>0, <2>1 DEF StampTellsTruth, Steady
  <2> QED  BY <2>3, <2>4
<1> QED  BY <1>2, <1>3, <1>4

-----------------------------------------------------------------------------
\* A process that ends may leave a clone half removed; what else is on the disk stays.
LEMMA DeathStep ==
    ASSUME FetchInv, NEW t \in Tasks, Dies(t)
    PROVE  /\ stamp' = stamp /\ newer' = newer /\ got' = got
           /\ file' \in [Urls -> {None} \cup SUBSET Revs] /\ \A u \in Urls : file'[u] \in {file[u], None}
           /\ pc' = [s \in Tasks |-> pc'[s]] /\ pc'[t] \in {"start", "unpack", "end"}
           /\ pc'[t] = "unpack" => /\ pc[t] = "read" /\ phase' = phase /\ on' = on /\ done' = done
                                   /\ swallowed' = swallowed
           /\ pc'[t] = "end" => phase' = phase /\ on' = on /\ done' = done /\ swallowed' = swallowed
<1>0. pc = [s \in Tasks |-> pc[s]] /\ file \in [Urls -> {None} \cup SUBSET Revs]
  BY DEF FetchInv, Typed, FetchTypeOK
<1>1. CASE Crash(t)
  BY <1>0, <1>1 DEF Crash, Goto, GotoIn, diskVars
<1>2. CASE UnpackFails(t)
  BY <1>0, <1>2 DEF UnpackFails, Goto
<1> QED  BY <1>1, <1>2 DEF Dies

-----------------------------------------------------------------------------
LEMMA FetchInit == Init => FetchInv
<1> SUFFICES ASSUME Init PROVE FetchInv
  OBVIOUS
<1> USE DEF Init
<1>1. LockInv
  BY InitLockInv
<1>2. \A t \in Tasks : Url(t) \in Urls
  BY JobFacts
<1>3. Typed
  BY <1>1, <1>2, FetchAssumption DEF Typed, FetchTypeOK, LockInv, FetchAssumption, Url
<1>4. Calling
  BY DEF Calling
<1>5. ASSUME NEW t \in Tasks PROVE TaskInv(t)
  BY DEF TaskInv, Working, Url
<1>6. StampsKnown /\ StampTellsTruth
  BY FetchAssumption DEF StampsKnown, StampTellsTruth, FetchAssumption
<1> QED  BY <1>1, <1>3, <1>4, <1>5, <1>6 DEF FetchInv

LEMMA FetchNext == FetchInv /\ [Next]_vars => FetchInv'
<1> SUFFICES ASSUME FetchInv, [Next]_vars PROVE FetchInv'
  OBVIOUS
<1>1. LockInv' /\ job \in Assignments
  BY StepLocks, NextLockInv DEF FetchInv, Typed, FetchTypeOK
<1>2. ASSUME NEW t \in Tasks, Works(t) PROVE FetchInv'
  <2>1. \A s \in Tasks : TaskInv(s)'
    BY <1>2, OwnTaskInv, OtherTaskInv
  <2>2. Calling'
    BY <1>2, StepLocal DEF FetchInv, Calling, Local
  <2> QED  BY <1>1, <1>2, <2>1, <2>2, StepTyped, StepStamps DEF FetchInv
<1>3. ASSUME UNCHANGED <<job, diskVars, taskVars, faults>>, how' = how, \A g \in Handles : Keeps(g)
      PROVE  FetchInv'
  <2>1. ASSUME NEW s \in Tasks PROVE TaskInv(s)'
    <3>1. Keeps(<<s, Url(s)>>) /\ TaskInv(s)
      BY <1>1, <1>3, JobFacts DEF FetchInv
    <3> QED  BY <1>3, <3>1 DEF TaskInv, diskVars, taskVars, Url, Tar, Want, Keeps
  <2>2. Typed'
    BY <1>1, <1>3 DEF FetchInv, Typed, FetchTypeOK, LockInv, diskVars, taskVars
  <2> QED  BY <1>1, <1>3, <2>1, <2>2 DEF FetchInv, Calling, StampsKnown, StampTellsTruth, diskVars, taskVars, Url
<1>4. ASSUME NEW t \in Tasks, LockProgress(t) PROVE FetchInv'
  <2>1. PICK u \in Urls : LockStep(<<t, u>>) \/ UnlockStep(<<t, u>>)
    BY <1>4 DEF LockProgress
  <2>2. how' = how /\ \A g \in Handles : Keeps(g)
    BY <1>1, <2>1, StepKeeps, JobFacts DEF FetchInv, LockInv
  <2> QED  BY <1>3, <1>4, <2>2 DEF LockProgress
<1>5. ASSUME NEW t \in Tasks, Dies(t) PROVE FetchInv'
  <2>1. Local(t) /\ \A s \in Tasks : Url(s)' = Url(s) /\ Tar(s)' = Tar(s) /\ Want(s)' = Want(s)
    BY <1>5, StepLocal DEF Local, Url, Tar, Want
  <2>2. ASSUME NEW s \in Tasks PROVE TaskInv(s)'
    <3>1. CASE s = t
      <4>1. on'[t] \in {Url(t), Tar(t)} /\ (on'[t] # Url(t) => phase'[t] \in {"premirror", "mirrors"})
        BY <1>5 DEF Dies, Crash, UnpackFails, GotoIn, TaskInv, FetchInv, Typed, FetchTypeOK
      <4>2. pc'[t] \in {"start", "unpack", "end"}
        BY <1>5, DeathStep
      <4> QED  BY <2>1, <3>1, <4>1, <4>2 DEF TaskInv, Working
    <3>2. CASE s # t
      BY <1>5, <3>2, OtherTaskInv
    <3> QED  BY <3>1, <3>2
  <2>3. Typed'
    <3>1. faults' \in 0 .. MaxFaults
      BY <1>5, FetchAssumption DEF Dies, Crash, UnpackFails, NewFault, FetchInv, Typed, FetchTypeOK, FetchAssumption
    <3>2. Url(t) \in Urls
      BY <1>1, JobFacts
    <3>3. /\ phase' \in [Tasks -> {"first", "second", "premirror", "upstream", "mirrors", "final"}]
          /\ on' \in [Tasks -> Urls]
          /\ done' \in [Tasks -> BOOLEAN] /\ verified' \in [Tasks -> BOOLEAN]
          /\ result' \in [Tasks -> {"none", "ok", "failed"}]
          /\ swallowed' \in [Tasks -> BOOLEAN]
      <4>1. CASE UnpackFails(t)
        BY <4>1 DEF UnpackFails, FetchInv, Typed, FetchTypeOK
      <4>2. CASE Crash(t)
        <5>1. CASE UNCHANGED <<phase, on, done, verified, result, swallowed>>
          BY <5>1 DEF FetchInv, Typed, FetchTypeOK
        <5>2. CASE ~UNCHANGED <<phase, on, done, verified, result, swallowed>>
          <6>1. /\ phase' = [phase EXCEPT ![t] = "first"] /\ on' = [on EXCEPT ![t] = Url(t)]
                /\ done' = [done EXCEPT ![t] = FALSE] /\ verified' = [verified EXCEPT ![t] = FALSE]
                /\ result' = [result EXCEPT ![t] = "none"] /\ swallowed' = [swallowed EXCEPT ![t] = FALSE]
            BY <4>2, <5>2 DEF Crash, GotoIn
          <6> QED  BY <3>2, <6>1 DEF FetchInv, Typed, FetchTypeOK
        <5> QED  BY <5>1, <5>2
      <4> QED  BY <1>5, <4>1, <4>2 DEF Dies
    <3>4. FetchTypeOK /\ LockTypeOK'
      BY <1>1 DEF FetchInv, Typed, LockInv
    <3> QED  BY <1>1, <1>5, <2>1, <3>1, <3>3, <3>4, DeathStep DEF Typed, FetchTypeOK, Local
  <2>4. StampsKnown' /\ StampTellsTruth' /\ Calling'
    BY <1>5, <2>1, DeathStep DEF Local, FetchInv, StampsKnown, StampTellsTruth, Calling
  <2> QED  BY <1>1, <2>2, <2>3, <2>4 DEF FetchInv
<1>6. CASE UNCHANGED vars
  BY <1>3, <1>6 DEF vars, lockVars, Keeps
<1> QED  BY <1>2, <1>4, <1>5, <1>6 DEF Next, Fault, Works, Dies

-----------------------------------------------------------------------------
THEOREM FetchInvariant == Spec => []FetchInv
<1> QED  BY FetchInit, FetchNext, PTL DEF Spec

\* The types of the fetcher, for any recipes.
THEOREM FetchTypeCorrect == Spec => []FetchTypeOK
<1>1. FetchInv => FetchTypeOK
  BY DEF FetchInv, Typed
<1> QED  BY <1>1, FetchInvariant, PTL

\* The fetcher calls lockfile and unlockfile as they are meant to be called.
THEOREM FetchUsesLocks == Spec => LockSpec
<1>1. Init => LockInit
  BY DEF Init
<1>2. FetchInv /\ [Next]_vars => [LockNext]_lockVars
  BY StepLocks DEF FetchInv, Typed, FetchTypeOK
<1> QED  BY <1>1, <1>2, FetchInvariant, PTL DEF Spec, LockSpec

\* The checksums in a done stamp are those of the file beside it, after every crash and clean-up.
THEOREM StampTruth == Spec => []StampTellsTruth
<1>1. FetchInv => StampTellsTruth
  BY DEF FetchInv
<1> QED  BY <1>1, FetchInvariant, PTL

\* A step that changes a file takes its task to another place.
LEMMA ChangeMoves ==
    ASSUME FetchInv, NEW t \in Tasks, Works(t) \/ Dies(t), file' # file
    PROVE  pc'[t] # pc[t]
<1>0. pc = [s \in Tasks |-> pc[s]]
  BY DEF FetchInv, Typed
<1> USE <1>0 DEF Goto, GotoIn
<1>1. CASE VerifyMismatch(t) \/ StampMismatch(t) \/ CleanFile(t) \/ UnpackFails(t)
  BY <1>1 DEF VerifyMismatch, StampMismatch, CleanFile, UnpackFails
<1>2. CASE DownloadFile(t) \/ DownloadClone(t) \/ DownloadRevs(t) \/ DownloadUnlink(t) \/ DownloadFails(t)
  BY <1>2 DEF DownloadFile, DownloadClone, DownloadRevs, DownloadUnlink, DownloadFails
<1>3. CASE Error(t) \/ CleanError(t)
  BY <1>3 DEF Error, CleanError, Unwind, LeaveMirror
<1>4. ~StartFetch(t) /\ ~FirstVerify(t) /\ ~VerifyMissing(t) /\ ~VerifyUnchecked(t) /\ ~VerifyMatch(t)
      /\ ~Restamp(t) /\ ~Unstamp(t) /\ ~EnterMirror(t) /\ ~DownloadNothing(t) /\ ~Fetched(t) /\ ~StampTouch(t)
      /\ ~StampCreate(t) /\ ~StampDump(t) /\ ~Finish(t) /\ ~Swallow(t) /\ ~Raise(t) /\ ~StartUnpack(t)
      /\ ~Unpack(t) /\ ~CleanStamp(t) /\ ~DiskError(t) /\ ~Crash(t)
  BY DEF StartFetch, FirstVerify, VerifyMissing, VerifyUnchecked, VerifyMatch, Restamp, Unstamp, EnterMirror,
         DownloadNothing, Fetched, StampTouch, StampCreate, StampDump, Finish, Swallow, Raise, StartUnpack, Unpack,
         CleanStamp, DiskError, Crash, diskVars
<1> QED  BY <1>1, <1>2, <1>3, <1>4 DEF Works, Dies, TaskStep

\* The task that changes a file has itself the lock of the url, or of the repository whose mirror it is.
THEOREM FilesUnderLock == Spec => FileUnderLock
<1> DEFINE Locked == \A u \in Urls : file'[u] # file[u]
                        => \E t \in Tasks :
                              /\ pc'[t] # pc[t]
                              /\ \E v \in {u, Url(t)} : (v = u \/ Mirror[v] = u) /\ at[<<t, v>>] = "in"
<1>1. FetchInv /\ [Next]_vars => [Locked]_vars
  <2> SUFFICES ASSUME FetchInv, Next, NEW u \in Urls, file'[u] # file[u]
               PROVE  \E t \in Tasks :
                         /\ pc'[t] # pc[t]
                         /\ \E v \in {u, Url(t)} : (v = u \/ Mirror[v] = u) /\ at[<<t, v>>] = "in"
    OBVIOUS
  <2>1. PICK t \in Tasks : Works(t) \/ Dies(t)
    BY DEF Next, Fault, Works, Dies, LockProgress, diskVars
  <2>2. u \in {Url(t), Tar(t)} /\ at[<<t, Url(t)>>] = "in"
    BY <2>1, ChangesUnderLock DEF Changed
  <2>3. Url(t) = u \/ Mirror[Url(t)] = u
    BY <2>2 DEF Tar
  <2>4. \E v \in {u, Url(t)} : (v = u \/ Mirror[v] = u) /\ at[<<t, v>>] = "in"
    <3> WITNESS Url(t) \in {u, Url(t)}
    <3> QED  BY <2>2, <2>3
  <2>5. pc'[t] # pc[t]
    BY <2>1, ChangeMoves
  <2> QED  BY <2>4, <2>5
<1> QED  BY <1>1, FetchInvariant, PTL DEF Spec, FileUnderLock

-----------------------------------------------------------------------------
(* Why a fetch that succeeds has fetched what is wanted.                   *)

Fetching == Working \ {"cleaned"}

Wanted(t) == file[Url(t)] # None /\ Want(t) \in file[Url(t)]

\* With checksums it is the stamp that tells: once verified it is absent or right.  Of a
\* repository it is the flag done.
WantInv(t) ==
    /\ (Url(t) \in Summed /\ (\/ pc[t] \in {"mirror", "download", "fetched", "error", "stamp"}
                              \/ pc[t] = "finish" /\ done[t]))
          => stamp[Url(t)] \in {None, Want(t)}
    /\ (pc[t] \in {"stamp", "dump"} /\ phase[t] = "final") => file[Url(t)] # None /\ done[t]
    /\ (pc[t] \in Fetching /\ phase[t] = "first") => ~done[t]
    /\ Url(t) \notin Summed =>
          /\ pc[t] \in {"mirror", "download", "cloned", "unlink", "fetched", "error"} => ~done[t]
          /\ (pc[t] = "verify" /\ phase[t] \in {"premirror", "mirrors"}) => ~done[t]
          /\ (pc[t] = "fetched" /\ on[t] = Url(t)) => Wanted(t)
          /\ (pc[t] \in Fetching /\ done[t]) => Wanted(t)

\* The same after a step of the task.
Wants(t) ==
    /\ (Url(t) \in Summed /\ (\/ pc'[t] \in {"mirror", "download", "fetched", "error", "stamp"}
                              \/ pc'[t] = "finish" /\ done'[t]))
          => stamp'[Url(t)] \in {None, Want(t)}
    /\ (pc'[t] \in {"stamp", "dump"} /\ phase'[t] = "final") => file'[Url(t)] # None /\ done'[t]
    /\ (pc'[t] \in Fetching /\ phase'[t] = "first") => ~done'[t]
    /\ Url(t) \notin Summed =>
          /\ pc'[t] \in {"mirror", "download", "cloned", "unlink", "fetched", "error"} => ~done'[t]
          /\ (pc'[t] = "verify" /\ phase'[t] \in {"premirror", "mirrors"}) => ~done'[t]
          /\ (pc'[t] = "fetched" /\ on'[t] = Url(t)) => file'[Url(t)] # None /\ Want(t) \in file'[Url(t)]
          /\ (pc'[t] \in Fetching /\ done'[t]) => file'[Url(t)] # None /\ Want(t) \in file'[Url(t)]

LEMMA OwnWants ==
    ASSUME FetchInv, NEW t \in Tasks, WantInv(t), Works(t)
    PROVE  Wants(t)
<1>0. /\ TaskInv(t) /\ Url(t) \in Urls /\ Tar(t) \in Urls /\ Want(t) \in Revs
      /\ Url(t) \in Summed => Tar(t) = Url(t)
      /\ pc = [s \in Tasks |-> pc[s]] /\ on = [s \in Tasks |-> on[s]]
      /\ phase = [s \in Tasks |-> phase[s]] /\ done = [s \in Tasks |-> done[s]]
      /\ file = [v \in Urls |-> file[v]] /\ stamp = [v \in Urls |-> stamp[v]]
      /\ done[t] \in BOOLEAN
  BY JobFacts DEF FetchInv, Typed, FetchTypeOK
<1> USE DEF Wants, Fetching, Working, Goto, GotoIn
<1>1. CASE StartFetch(t) \/ StartUnpack(t) \/ Unpack(t) \/ CleanStamp(t) \/ CleanFile(t)
  BY <1>0, <1>1 DEF StartFetch, StartUnpack, Unpack, CleanStamp, CleanFile
<1>2. CASE EnterMirror(t)
  BY <1>0, <1>2 DEF EnterMirror, WantInv, Wanted, diskVars
<1>3. CASE FirstVerify(t)
  BY <1>0, <1>3 DEF FirstVerify
<1>4. CASE Finish(t) \/ Swallow(t) \/ Raise(t)
  BY <1>0, <1>4 DEF Finish, Swallow, Raise, WantInv, Wanted, diskVars
<1>5. CASE Fetched(t)
  <2>0. /\ pc[t] = "fetched"
        /\ Url(t) \in Summed => stamp[Url(t)] \in {None, Want(t)}
        /\ (Url(t) \notin Summed /\ on[t] = Url(t)) => file[Url(t)] # None /\ Want(t) \in file[Url(t)]
        /\ Url(t) \notin Summed => ~done[t]
    <3>1. pc[t] = "fetched"
      BY <1>5 DEF Fetched
    <3>2. /\ Url(t) \in Summed => stamp[Url(t)] \in {None, Want(t)}
          /\ Url(t) \notin Summed => ~done[t]
      BY <3>1 DEF WantInv
    <3>3. (Url(t) \notin Summed /\ on[t] = Url(t)) => file[Url(t)] # None /\ Want(t) \in file[Url(t)]
      <4>1. (Url(t) \notin Summed /\ on[t] = Url(t)) => Wanted(t)
        BY <3>1 DEF WantInv
      <4> QED  BY <4>1 DEF Wanted
    <3> QED  BY <3>1, <3>2, <3>3
  <2>1. CASE phase[t] = "upstream"
    <3>1. /\ pc' = [pc EXCEPT ![t] = "stamp"] /\ done' = [done EXCEPT ![t] = TRUE]
          /\ phase' = phase /\ on' = on /\ file' = file /\ stamp' = stamp
      BY <1>5, <2>1 DEF Fetched, diskVars
    <3>2. on[t] = Url(t)
      BY <1>0, <2>0, <2>1 DEF TaskInv
    <3> QED  BY <1>0, <2>0, <2>1, <3>1, <3>2
  <2>2. CASE phase[t] \in {"premirror", "mirrors"} /\ on[t] = Url(t)
    <3>1. LeaveMirror(t, TRUE) /\ file' = file /\ stamp' = stamp
      BY <1>5, <2>2 DEF Fetched, diskVars
    <3> QED  BY <1>0, <2>0, <2>2, <3>1 DEF LeaveMirror
  <2>3. CASE phase[t] \in {"premirror", "mirrors"} /\ on[t] # Url(t)
    <3>1. /\ pc' = [pc EXCEPT ![t] = "verify"] /\ done' = done /\ phase' = phase /\ file' = file
      BY <1>5, <2>3 DEF Fetched
    <3>2. Url(t) \notin Summed
      BY <1>0, <2>0, <2>3 DEF TaskInv
    <3> QED  BY <1>0, <2>0, <2>3, <3>1, <3>2
  <2> QED  BY <1>5, <2>1, <2>2, <2>3 DEF Fetched
<1>6. CASE Error(t)
  BY <1>0, <1>6 DEF Error, Cleaned, LeaveMirror, WantInv, Wanted
<1>7. CASE StampCreate(t)
  BY <1>0, <1>7 DEF StampCreate, WantInv, Wanted
<1>21. CASE StampTouch(t)
  <2>1. Stamped(t) /\ done' = done /\ file' = file /\ stamp' = stamp /\ pc[t] = "stamp"
    BY <1>21 DEF StampTouch
  <2> QED  BY <1>0, <2>1 DEF Stamped, WantInv, Wanted
<1>8. CASE StampDump(t)
  BY <1>0, <1>8 DEF StampDump, Stamped, WantInv, Wanted
<1>9. CASE StampMismatch(t)
  BY <1>0, <1>9 DEF StampMismatch, MovedAway, WantInv, Wanted
<1>10. ASSUME NEW r \in BOOLEAN, Verified(t, r), file' = file, pc[t] \in {"verify", "restamp", "unstamp"},
              Url(t) \in Summed => stamp'[Url(t)] \in {None, Want(t)}
       PROVE  Wants(t)
  <2>1. CASE phase[t] = "first"
    BY <1>0, <1>10, <2>1 DEF WantInv, Wanted, TaskInv, Verified, NeedUpdate
  <2>2. CASE phase[t] = "second"
    BY <1>0, <1>10, <2>2 DEF WantInv, Wanted, TaskInv, Verified, NeedUpdate
  <2>3. CASE phase[t] \in {"premirror", "mirrors"}
    BY <1>0, <1>10, <2>3 DEF WantInv, Wanted, TaskInv, Verified, NeedUpdate
  <2> QED  BY <1>10, <2>1, <2>2, <2>3 DEF Verified
<1>11. CASE VerifyMissing(t)
  BY <1>0, <1>10, <1>11 DEF VerifyMissing, TaskInv
<1>12. CASE VerifyUnchecked(t)
  BY <1>0, <1>10, <1>12 DEF VerifyUnchecked, Checked, TaskInv, diskVars
<1>13. CASE VerifyMatch(t)
  <2>1. CASE Precomputed(on[t])
    BY <1>0, <1>10, <1>13, <2>1 DEF VerifyMatch, Checksum, Checked, TaskInv
  <2>2. CASE ~Precomputed(on[t])
    BY <1>0, <1>13, <2>2 DEF VerifyMatch, Checked, WantInv, Wanted, TaskInv
  <2> QED  BY <2>1, <2>2
<1>14. CASE Restamp(t) \/ Unstamp(t)
  BY <1>0, <1>10, <1>14 DEF Restamp, Unstamp, TaskInv
<1>15. CASE VerifyMismatch(t)
  BY <1>0, <1>15 DEF VerifyMismatch, MovedAway, Checked, WantInv, Wanted, TaskInv
<1>16. CASE DownloadFile(t) \/ DownloadClone(t) \/ DownloadRevs(t) \/ DownloadFails(t)
  BY <1>0, <1>16 DEF DownloadFile, DownloadClone, DownloadRevs, DownloadFails, WantInv, Wanted, TaskInv
<1>17. CASE DownloadUnlink(t)
  <2>1. on[t] = Url(t) /\ Url(t) \notin Summed /\ file[Url(t)] # None
    BY <1>0, <1>17 DEF DownloadUnlink, TaskInv
  <2>2. file'[Url(t)] = file[Url(t)]
    BY <1>0, <1>17 DEF DownloadUnlink, HasTar
  <2>3. pc'[t] = IF Want(t) \in file[Url(t)] THEN "fetched" ELSE "error"
    BY <1>0, <1>17, <2>1 DEF DownloadUnlink
  <2>4. ~done'[t]
    BY <1>17, <2>1 DEF DownloadUnlink, WantInv
  <2>5. on'[t] = Url(t) /\ phase' = phase /\ stamp' = stamp
    BY <1>17, <2>1 DEF DownloadUnlink
  <2> QED  BY <2>1, <2>2, <2>3, <2>4, <2>5
<1>18. CASE DownloadNothing(t)
  <2>1. /\ on[t] \notin Summed /\ Want(t) \in file[on[t]] /\ file[on[t]] # None
        /\ pc[t] \in {"download", "cloned"}
        /\ pc' = [pc EXCEPT ![t] = "fetched"] /\ done' = done /\ phase' = phase /\ on' = on
        /\ file' = file /\ stamp' = stamp
    BY <1>18 DEF DownloadNothing, diskVars
  <2>2. Url(t) \notin Summed => ~done[t]
    BY <2>1 DEF WantInv
  <2>3. on[t] = Url(t) /\ Url(t) \notin Summed
    <3>1. Tar(t) # Url(t) => Tar(t) \in Summed
      BY JobFacts DEF FetchInv, Typed, FetchTypeOK
    <3> QED  BY <1>0, <2>1, <3>1 DEF TaskInv
  <2>4. phase[t] = "first" => ~done[t]
    BY <2>1 DEF WantInv
  <2> QED  BY <1>0, <2>1, <2>2, <2>3, <2>4
<1>19. CASE DiskError(t)
  BY <1>0, <1>19 DEF DiskError, Unwind, InMirror, LeaveMirror, WantInv, Wanted, diskVars
<1>20. CASE CleanError(t)
  BY <1>0, <1>20 DEF CleanError, Unwind, InMirror, WantInv, Wanted
<1> QED  BY <1>1, <1>2, <1>3, <1>4, <1>5, <1>6, <1>7, <1>8, <1>9, <1>11, <1>12, <1>13, <1>14, <1>15, <1>16, <1>17,
            <1>18, <1>19, <1>20, <1>21 DEF Works, TaskStep

LEMMA DoneLocal ==
    ASSUME FetchInv, NEW s \in Tasks, NEW t \in Tasks, s # t, Works(t) \/ Dies(t)
    PROVE  done'[s] = done[s]
<1>0. done = [q \in Tasks |-> done[q]]
  BY DEF FetchInv, Typed, FetchTypeOK
<1>1. ASSUME NEW r, Verified(t, r) PROVE done'[s] = done[s]
  BY <1>0, <1>1 DEF Verified
<1>2. CASE StartFetch(t) \/ EnterMirror(t) \/ StartUnpack(t) \/ Unpack(t) \/ CleanStamp(t) \/ Finish(t) \/ Swallow(t) \/ Raise(t) \/ Dies(t)
           \/ FirstVerify(t) \/ VerifyMismatch(t) \/ StampCreate(t) \/ CleanFile(t)
  BY <1>0, <1>2 DEF StartFetch, EnterMirror, StartUnpack, Unpack, CleanStamp, Finish, Swallow, Raise, Dies, Crash, UnpackFails, FirstVerify,
                    VerifyMismatch, StampCreate, CleanFile
<1>3. CASE Fetched(t) \/ Error(t) \/ StampTouch(t) \/ StampDump(t) \/ StampMismatch(t)
  BY <1>0, <1>3 DEF Fetched, Error, LeaveMirror, StampTouch, StampDump, StampMismatch
<1>f. CASE DiskError(t) \/ CleanError(t)
  BY <1>0, <1>f DEF DiskError, CleanError, Unwind, LeaveMirror
<1>4. CASE VerifyMissing(t) \/ VerifyUnchecked(t) \/ VerifyMatch(t) \/ Restamp(t) \/ Unstamp(t)
  BY <1>1, <1>4 DEF VerifyMissing, VerifyUnchecked, VerifyMatch, Restamp, Unstamp
<1>5. CASE DownloadFile(t) \/ DownloadClone(t) \/ DownloadRevs(t) \/ DownloadUnlink(t) \/ DownloadNothing(t) \/ DownloadFails(t)
  BY <1>5 DEF DownloadFile, DownloadClone, DownloadRevs, DownloadUnlink, DownloadNothing, DownloadFails, taskVars
<1> QED  BY <1>2, <1>3, <1>4, <1>5, <1>f DEF Works, TaskStep

WantsInv == \A t \in Tasks : WantInv(t)

LEMMA WantsNext == FetchInv /\ WantsInv /\ [Next]_vars => WantsInv'
<1> SUFFICES ASSUME FetchInv, WantsInv, [Next]_vars, NEW s \in Tasks PROVE WantInv(s)'
  BY DEF WantsInv
<1>0. WantInv(s)
  BY DEF WantsInv
<1>1. ASSUME NEW t \in Tasks, Works(t) PROVE WantInv(s)'
  <2>1. Url(s)' = Url(s) /\ Want(s)' = Want(s) /\ Local(t)
    BY <1>1, StepLocal DEF Local, Url, Want
  <2>2. CASE s = t
    BY <1>0, <1>1, <2>1, <2>2, OwnWants DEF WantInv, Wants, Wanted
  <2>3. CASE s # t
    <3>1. done'[s] = done[s]
      BY <1>1, <2>3, DoneLocal
    <3>2. pc[s] \in Working => file'[Url(s)] = file[Url(s)] /\ stamp'[Url(s)] = stamp[Url(s)]
      BY <1>1, <2>3, OthersUnchanged
    <3> QED  BY <1>0, <2>1, <2>3, <3>1, <3>2 DEF Local, WantInv, Wanted, Fetching, Working
  <2> QED  BY <2>2, <2>3
<1>2. ASSUME UNCHANGED <<job, diskVars, taskVars>> PROVE WantInv(s)'
  BY <1>0, <1>2 DEF WantInv, Wanted, diskVars, taskVars, Url, Want
<1>3. ASSUME NEW t \in Tasks, Dies(t) PROVE WantInv(s)'
  <2>1. Url(s)' = Url(s) /\ Want(s)' = Want(s) /\ Local(t)
    BY <1>3, StepLocal DEF Local, Url, Want
  <2>2. CASE s = t
    <3>1. pc'[s] \in {"start", "unpack", "end"}
      BY <1>3, <2>2, DeathStep
    <3> QED  BY <3>1 DEF WantInv, Fetching, Working
  <2>3. CASE s # t
    <3>1. done'[s] = done[s]
      BY <1>3, <2>3, DoneLocal
    <3>2. pc[s] \in Working => file'[Url(s)] = file[Url(s)] /\ stamp'[Url(s)] = stamp[Url(s)]
      BY <1>3, <2>3, OthersUnchanged
    <3> QED  BY <1>0, <2>1, <2>3, <3>1, <3>2 DEF Local, WantInv, Wanted, Fetching, Working
  <2> QED  BY <2>2, <2>3
<1> QED  BY <1>1, <1>2, <1>3 DEF Next, Fault, Works, Dies, LockProgress, vars

\* download() comes to the end of its try block only when the file is what the recipe asks for.
THEOREM GivesWanted == Spec => FetchGivesWanted
<1> DEFINE Given == \A t \in Tasks : (result[t] = "none" /\ result'[t] = "ok" /\ ~swallowed'[t])
                       => /\ file'[Url(t)] # None
                          /\ Want(t) \in file'[Url(t)]
                          /\ Url(t) \in Summed => stamp'[Url(t)] = Want(t)
<1>1. Init => WantsInv
  BY DEF Init, WantsInv, WantInv, Fetching, Working
<1>2. FetchInv /\ WantsInv /\ [Next]_vars => [Given]_vars
  <2> SUFFICES ASSUME FetchInv, WantsInv, Next, NEW t \in Tasks, result[t] = "none", result'[t] = "ok",
                      ~swallowed'[t]
               PROVE  /\ file'[Url(t)] # None /\ Want(t) \in file'[Url(t)]
                      /\ Url(t) \in Summed => stamp'[Url(t)] = Want(t)
    OBVIOUS
  <2>0. /\ TaskInv(t) /\ WantInv(t) /\ Url(t) \in Urls /\ Want(t) \in Revs /\ StampTellsTruth
        /\ Url(t) \in Summed => Mirror[Url(t)] = Url(t)
        /\ result = [s \in Tasks |-> result[s]] /\ stamp = [v \in Urls |-> stamp[v]]
        /\ swallowed = [s \in Tasks |-> swallowed[s]]
    BY JobFacts DEF FetchInv, WantsInv, Typed, FetchTypeOK, Tar
  <2>1. PICK s \in Tasks : Works(s)
    BY <2>0 DEF Next, Fault, Works, LockProgress, Crash, UnpackFails, taskVars
  <2>2. s = t /\ (StampTouch(t) \/ StampDump(t)) /\ phase[t] = "final"
    <3> USE <2>0, <2>1
    <3>1. CASE StartFetch(s) \/ EnterMirror(s) \/ StartUnpack(s) \/ Unpack(s) \/ CleanStamp(s) \/ Finish(s)
               \/ Swallow(s) \/ Raise(s) \/ FirstVerify(s) \/ VerifyMismatch(s) \/ StampCreate(s) \/ CleanFile(s)
               \/ StampMismatch(s)
      BY <3>1 DEF StartFetch, EnterMirror, StartUnpack, Unpack, CleanStamp, Finish, Swallow, Raise, FirstVerify,
                  VerifyMismatch, StampCreate, CleanFile, StampMismatch
    <3>2. CASE Fetched(s) \/ Error(s) \/ DiskError(s) \/ CleanError(s)
      BY <3>2 DEF Fetched, Error, DiskError, CleanError, Unwind, LeaveMirror
    <3>3. CASE StampTouch(s) \/ StampDump(s)
      BY <3>3 DEF StampTouch, StampDump, Stamped
    <3>4. CASE VerifyMissing(s) \/ VerifyUnchecked(s) \/ VerifyMatch(s) \/ Restamp(s) \/ Unstamp(s)
      BY <3>4 DEF VerifyMissing, VerifyUnchecked, VerifyMatch, Restamp, Unstamp, Verified
    <3>5. CASE DownloadFile(s) \/ DownloadClone(s) \/ DownloadRevs(s) \/ DownloadUnlink(s) \/ DownloadNothing(s)
               \/ DownloadFails(s)
      BY <3>5 DEF DownloadFile, DownloadClone, DownloadRevs, DownloadUnlink, DownloadNothing, DownloadFails
    <3> QED  BY <3>1, <3>2, <3>3, <3>4, <3>5 DEF Works, TaskStep
  <2>3. CASE StampTouch(t)
    BY <2>0, <2>2, <2>3 DEF StampTouch, WantInv, Wanted, Fetching, Working, StampTellsTruth
  <2>4. CASE StampDump(t)
    BY <2>0, <2>2, <2>4 DEF StampDump, TaskInv, WantInv, Wanted, Fetching, Working
  <2> QED  BY <2>2, <2>3, <2>4
<1> QED  BY <1>1, <1>2, WantsNext, FetchInvariant, PTL DEF Spec, FetchGivesWanted

-----------------------------------------------------------------------------
(* Why the unpack after a successful fetch finds what was fetched.         *)

\* At most one task fetches from a url that another one cleans.  With two of them the second
\* may be killed in a download after the clean, and do_unpack does not verify what that left.
CleanerAlone ==
    \A a \in Assignments : \A r \in a.cleaner : \A s, t \in Tasks \ a.cleaner :
       (a.url[r] = a.url[t] /\ a.url[s] = a.url[t]) => s = t

Agreed(t) == \A s \in Tasks : Url(s) = Url(t) => Want(s) = Want(t)
Cleanable(t) == \E r \in job.cleaner : Url(r) = Url(t)

\* What a task does says whether it is a do_cleanall.
RoleInv(t) ==
    /\ pc[t] \in {"clean", "cleaned"} => t \in job.cleaner
    /\ pc[t] \in Fetching \cup {"lock", "unpack", "read"} => t \notin job.cleaner

\* The file is as it is wanted and the stamp confirms it, ...
Settled(t) ==
    /\ Wanted(t) /\ stamp[Url(t)] # None
    /\ Url(t) \in Summed => file[Url(t)] = {Want(t)} /\ stamp[Url(t)] \in {"empty", Want(t)}

\* ... so that another task with the url neither downloads nor renames: it verifies and touches the
\* stamp, or gives up at an I/O error.
Quiet(s) ==
    \/ pc[s] \in {"verify", "restamp"} /\ on[s] = Url(s) /\ phase[s] = "first"
    \/ pc[s] \in {"verify", "restamp"} /\ on[s] = Url(s) /\ phase[s] = "second" /\ done[s]
    \/ pc[s] \in {"finish", "stamp"} /\ phase[s] = "final" /\ done[s]
    \/ pc[s] \in {"swallow", "raise"}

\* Between the tasks do_fetch and do_unpack.
KeptInv(t) ==
    (pc[t] \in {"unpack", "read"} /\ ~swallowed[t] /\ Agreed(t)) =>
       \/ Cleanable(t) /\ (file[Url(t)] = None \/ Wanted(t))
       \/ /\ ~Cleanable(t) /\ Settled(t)
          /\ \A s \in Tasks : (Url(s) = Url(t) /\ pc[s] \in Working) => Quiet(s)

\* do_unpack is the last a task does.
GotLast == \A t \in Tasks : got[t] # None => pc[t] = "end"

UnpackInv ==
    /\ \A t \in Tasks : RoleInv(t) /\ KeptInv(t)
    /\ GotLast
    /\ UnpackGivesWanted

LEMMA RoleStep ==
    ASSUME FetchInv, NEW t \in Tasks, Works(t), RoleInv(t)
    PROVE  RoleInv(t)'
<1>0. pc = [s \in Tasks |-> pc[s]] /\ job' = job
  BY StepLocal DEF FetchInv, Typed, Local
<1> USE DEF RoleInv, Fetching, Working, Goto, GotoIn
<1>1. CASE StartFetch(t) \/ StartUnpack(t) \/ Unpack(t) \/ CleanFile(t) \/ CleanStamp(t)
  BY <1>0, <1>1 DEF StartFetch, StartUnpack, Unpack, CleanFile, CleanStamp
<1>f. CASE DiskError(t) \/ CleanError(t)
  BY <1>0, <1>f DEF DiskError, CleanError, Unwind, LeaveMirror
<1>2. CASE FirstVerify(t) \/ VerifyMismatch(t) \/ EnterMirror(t)
  BY <1>0, <1>2 DEF FirstVerify, VerifyMismatch, EnterMirror
<1>3. CASE VerifyMissing(t) \/ VerifyUnchecked(t) \/ VerifyMatch(t) \/ Restamp(t) \/ Unstamp(t)
  <2>1. pc[t] \in {"verify", "restamp", "unstamp"} /\ pc'[t] \in Fetching
    <3>1. ASSUME NEW q, Verified(t, q), pc[t] \in {"verify", "restamp", "unstamp"} PROVE pc'[t] \in Fetching
      BY <1>0, <3>1 DEF Verified
    <3> QED  BY <1>0, <1>3, <3>1 DEF VerifyMissing, VerifyUnchecked, VerifyMatch, Restamp, Unstamp
  <2> QED  BY <1>0, <2>1
<1>4. CASE DownloadFile(t) \/ DownloadClone(t) \/ DownloadRevs(t) \/ DownloadUnlink(t) \/ DownloadNothing(t) \/ DownloadFails(t)
  BY <1>0, <1>4 DEF DownloadFile, DownloadClone, DownloadRevs, DownloadUnlink, DownloadNothing, DownloadFails, taskVars
<1>5. CASE Fetched(t) \/ Error(t)
  BY <1>0, <1>5 DEF Fetched, Error, LeaveMirror
<1>6. CASE StampTouch(t) \/ StampCreate(t) \/ StampDump(t) \/ StampMismatch(t) \/ Finish(t) \/ Swallow(t) \/ Raise(t)
  BY <1>0, <1>6 DEF StampTouch, StampCreate, StampDump, StampMismatch, Finish, Swallow, Raise, Stamped
<1> QED  BY <1>1, <1>2, <1>3, <1>4, <1>5, <1>6, <1>f DEF Works, TaskStep

\* A settled file stays so under the steps of the tasks that verify it, and they stay quiet.
LEMMA QuietStep ==
    ASSUME FetchInv, NEW r \in Tasks, NEW t \in Tasks, r # t, Url(r) = Url(t), Want(r) = Want(t),
           RoleInv(r), r \notin job.cleaner, Settled(t), pc[r] \in Working => Quiet(r), Works(r)
    PROVE  Settled(t)' /\ (pc'[r] \in Working => Quiet(r)')
<1> DEFINE u == Url(t)
           Kept == /\ file'[u] = file[u] /\ stamp'[u] # None
                   /\ u \in Summed => stamp'[u] \in {"empty", Want(r)}
           Calm == pc'[r] \in Working =>
                \/ pc'[r] \in {"verify", "restamp"} /\ on'[r] = u /\ phase'[r] = "first"
                \/ pc'[r] \in {"verify", "restamp"} /\ on'[r] = u /\ phase'[r] = "second" /\ done'[r]
                \/ pc'[r] \in {"finish", "stamp"} /\ phase'[r] = "final" /\ done'[r]
                \/ pc'[r] \in {"swallow", "raise"}
<1>0. /\ pc = [s \in Tasks |-> pc[s]] /\ on = [s \in Tasks |-> on[s]]
      /\ phase = [s \in Tasks |-> phase[s]] /\ done = [s \in Tasks |-> done[s]]
      /\ stamp = [v \in Urls |-> stamp[v]] /\ u \in Urls
      /\ Want(r) # None /\ Want(r) # "empty" /\ "empty" # None /\ done[r] \in BOOLEAN
  BY JobFacts, FetchAssumption DEF FetchInv, Typed, FetchTypeOK, FetchAssumption
<1>1. /\ file[u] # None /\ Want(r) \in file[u] /\ stamp[u] # None
      /\ u \in Summed => file[u] = {Want(r)} /\ stamp[u] \in {"empty", Want(r)}
      /\ Url(r) = u
  BY DEF Settled, Wanted
<1>2. pc[r] \in Working =>
         \/ pc[r] \in {"verify", "restamp"} /\ on[r] = u /\ phase[r] = "first"
         \/ pc[r] \in {"verify", "restamp"} /\ on[r] = u /\ phase[r] = "second" /\ done[r]
         \/ pc[r] \in {"finish", "stamp"} /\ phase[r] = "final" /\ done[r]
         \/ pc[r] \in {"swallow", "raise"}
  BY DEF Quiet
<1>a. \A s \in Tasks : Url(s)' = Url(s) /\ Want(s)' = Want(s)
  BY StepLocal DEF Local, Url, Want
<1> SUFFICES Kept /\ Calm
  BY <1>1, <1>a DEF Settled, Wanted, Quiet
<1> HIDE DEF u
<1> USE DEF Working, Goto, GotoIn
<1>3. CASE StartFetch(r) \/ FirstVerify(r) \/ StartUnpack(r) \/ Unpack(r)
  <2>1. Kept
    BY <1>0, <1>1, <1>3 DEF StartFetch, FirstVerify, StartUnpack, Unpack, diskVars
  <2>2. Calm
    BY <1>0, <1>1, <1>3 DEF StartFetch, FirstVerify, StartUnpack, Unpack, RoleInv
  <2> QED  BY <2>1, <2>2
<1>4. ASSUME pc[r] \in {"verify", "restamp"}, Verified(r, TRUE) PROVE Calm
  <2>1. ~NeedUpdate(r, u)
    BY <1>1 DEF NeedUpdate
  <2> QED  BY <1>0, <1>1, <1>2, <1>4, <2>1 DEF Verified
<1>5. CASE VerifyMissing(r) \/ VerifyUnchecked(r) \/ VerifyMatch(r) \/ VerifyMismatch(r)
  <2>1. on[r] = u /\ pc[r] = "verify" /\ (phase[r] = "first" \/ (phase[r] = "second" /\ done[r]))
    BY <1>2, <1>5 DEF VerifyMissing, VerifyUnchecked, VerifyMatch, VerifyMismatch
  <2>2. u \in Summed => Checked(r, u) /\ Checksum(u) = {Want(r)}
    BY <1>1, FetchAssumption DEF Checked, Checksum, Precomputed, FetchAssumption
  <2>3. CASE VerifyUnchecked(r)
    BY <1>0, <1>1, <1>4, <2>1, <2>2, <2>3 DEF VerifyUnchecked, diskVars
  <2>4. CASE VerifyMatch(r)
    <3>1. CASE Precomputed(u)
      BY <1>0, <1>1, <1>4, <2>1, <3>1, <2>4 DEF VerifyMatch
    <3>2. CASE ~Precomputed(u)
      BY <1>0, <1>1, <2>1, <3>2, <2>4 DEF VerifyMatch
    <3> QED  BY <3>1, <3>2
  <2>5. ~VerifyMissing(r) /\ ~VerifyMismatch(r)
    BY <1>1, <2>1, <2>2 DEF VerifyMissing, VerifyMismatch, Checked
  <2> QED  BY <1>5, <2>3, <2>4, <2>5
<1>6. CASE Restamp(r)
  BY <1>0, <1>1, <1>2, <1>4, <1>6 DEF Restamp
<1>7. CASE Finish(r)
  BY <1>0, <1>1, <1>2, <1>7 DEF Finish, diskVars
<1>8. CASE StampTouch(r)
  BY <1>0, <1>1, <1>2, <1>8 DEF StampTouch, Stamped
<1>9. CASE Swallow(r) \/ Raise(r)
  BY <1>0, <1>1, <1>9 DEF Swallow, Raise, diskVars
<1>10. CASE DiskError(r)
  <2>1. ~InMirror(r)
    BY <1>2, <1>10 DEF DiskError, InMirror
  <2> QED  BY <1>0, <1>1, <1>10, <2>1 DEF DiskError, Unwind, diskVars
<1>11. ~Unstamp(r) /\ ~EnterMirror(r) /\ ~DownloadFile(r) /\ ~DownloadClone(r) /\ ~DownloadRevs(r)
      /\ ~DownloadUnlink(r) /\ ~DownloadNothing(r) /\ ~DownloadFails(r) /\ ~Fetched(r) /\ ~Error(r)
      /\ ~StampCreate(r) /\ ~StampDump(r) /\ ~StampMismatch(r) /\ ~CleanFile(r) /\ ~CleanStamp(r) /\ ~CleanError(r)
  BY <1>1, <1>2 DEF Unstamp, EnterMirror, DownloadFile, DownloadClone, DownloadRevs, DownloadUnlink, DownloadNothing,
              DownloadFails, Fetched, Error, StampCreate, StampDump, StampMismatch, CleanFile, CleanStamp, CleanError,
              RoleInv
<1> QED  BY <1>3, <1>5, <1>6, <1>7, <1>8, <1>9, <1>10, <1>11 DEF Works, TaskStep


\* A task comes to its unpack with a settled file, or its do_unpack takes the lock.
LEMMA EnterUnpack ==
    ASSUME FetchInv, NEW t \in Tasks, WantInv(t), RoleInv(t), Works(t), pc'[t] \in {"unpack", "read"}
    PROVE  \/ pc[t] = "unpack" /\ UNCHANGED <<diskVars, swallowed>>
           \/ swallowed'[t]
           \/ Settled(t)' /\ at[<<t, Url(t)>>] = "in"
<1>0. /\ pc = [s \in Tasks |-> pc[s]] /\ stamp = [v \in Urls |-> stamp[v]]
      /\ swallowed = [s \in Tasks |-> swallowed[s]]
      /\ TaskInv(t) /\ StampTellsTruth /\ Url(t) \in Urls /\ Want(t) \in Revs
      /\ Want(t) # None /\ "empty" # None
      /\ Url(t) \in Summed => Mirror[Url(t)] = Url(t)
  BY JobFacts, FetchAssumption DEF FetchInv, Typed, FetchTypeOK, FetchAssumption, Tar
<1>1. Url(t)' = Url(t) /\ Want(t)' = Want(t)
  BY StepLocal DEF Local, Url, Want
<1> USE DEF Goto, GotoIn
<1>2. CASE StartUnpack(t)
  BY <1>0, <1>2 DEF StartUnpack, RoleInv
<1>3. CASE StampTouch(t)
  <2>1. /\ phase[t] = "final" /\ pc[t] = "stamp" /\ file' = file /\ stamp' = stamp
        /\ stamp[Url(t)] # None /\ (Wanted(t) \/ Url(t) \in Summed)
    BY <1>0, <1>3 DEF StampTouch, Stamped, WantInv, Fetching, Working
  <2>2. Url(t) \in Summed => stamp[Url(t)] = Want(t) /\ file[Url(t)] # None /\ file[Url(t)] = {Want(t)}
    BY <1>0, <2>1 DEF WantInv, StampTellsTruth
  <2> QED  BY <1>0, <1>1, <2>1, <2>2 DEF Settled, Wanted, TaskInv, Working
<1>4. CASE StampDump(t)
  <2>1. /\ phase[t] = "final" /\ pc[t] = "dump" /\ file' = file
        /\ stamp'[Url(t)] = IF Url(t) \in Summed THEN Want(t) ELSE "empty"
    BY <1>0, <1>4 DEF StampDump, Stamped
  <2>2. file[Url(t)] # None /\ Want(t) \in file[Url(t)] /\ (Url(t) \in Summed => file[Url(t)] = {Want(t)})
    BY <1>0, <2>1 DEF TaskInv, WantInv, Wanted, Fetching, Working
  <2> QED  BY <1>0, <1>1, <2>1, <2>2 DEF Settled, Wanted, TaskInv, Working
<1>5. ASSUME NEW q, Verified(t, q) PROVE pc'[t] \notin {"unpack", "read"}
  BY <1>0, <1>5 DEF Verified
<1>6. ~StartFetch(t) /\ ~FirstVerify(t) /\ ~VerifyMissing(t) /\ ~VerifyUnchecked(t) /\ ~VerifyMatch(t)
      /\ ~Restamp(t) /\ ~VerifyMismatch(t) /\ ~Unstamp(t) /\ ~EnterMirror(t)
  BY <1>0, <1>5 DEF StartFetch, FirstVerify, VerifyMissing, VerifyUnchecked, VerifyMatch, Restamp, VerifyMismatch,
              Unstamp, EnterMirror
<1>7. ~DownloadFile(t) /\ ~DownloadClone(t) /\ ~DownloadRevs(t) /\ ~DownloadUnlink(t) /\ ~DownloadNothing(t)
      /\ ~DownloadFails(t) /\ ~StampCreate(t) /\ ~StampMismatch(t) /\ ~Finish(t) /\ ~Raise(t) /\ ~Unpack(t)
      /\ ~CleanFile(t) /\ ~CleanStamp(t)
  BY <1>0 DEF DownloadFile, DownloadClone, DownloadRevs, DownloadUnlink, DownloadNothing, DownloadFails, StampCreate,
              StampMismatch, Finish, Raise, Unpack, CleanFile, CleanStamp
<1>8. ~Fetched(t) /\ ~Error(t) /\ ~DiskError(t) /\ ~CleanError(t)
  BY <1>0 DEF Fetched, Error, DiskError, CleanError, Unwind, LeaveMirror
<1>9. CASE Swallow(t)
  BY <1>9, <1>0 DEF Swallow
<1> QED  BY <1>2, <1>3, <1>4, <1>6, <1>7, <1>8, <1>9 DEF Works, TaskStep


LEMMA KeptStep ==
    ASSUME CleanerAlone, FetchInv, WantsInv, \A s \in Tasks : RoleInv(s) /\ KeptInv(s),
           NEW r \in Tasks, Works(r), NEW t \in Tasks
    PROVE  KeptInv(t)'
<1>1. Local(r) /\ \A s \in Tasks : s # r => done'[s] = done[s] /\ swallowed'[s] = swallowed[s]
  BY StepLocal, DoneLocal, SwallowStep DEF Swallow, FetchInv, Typed, FetchTypeOK
<1>2. \A s \in Tasks : Url(s)' = Url(s) /\ Want(s)' = Want(s)
  BY <1>1 DEF Local, Url, Want
<1>3. Agreed(t)' = Agreed(t) /\ Cleanable(t)' = Cleanable(t)
  BY <1>1, <1>2 DEF Agreed, Cleanable, Local, Url, Want
<1>4. \A s \in Tasks : s # r => pc'[s] = pc[s] /\ Quiet(s)' = Quiet(s)
  BY <1>1, <1>2 DEF Local, Quiet
<1> SUFFICES ASSUME pc'[t] \in {"unpack", "read"}, ~swallowed'[t], Agreed(t)
             PROVE  \/ Cleanable(t) /\ (file'[Url(t)] = None \/ Wanted(t)')
                    \/ /\ ~Cleanable(t) /\ Settled(t)'
                       /\ \A s \in Tasks : (Url(s) = Url(t) /\ pc'[s] \in Working) => Quiet(s)'
  BY <1>2, <1>3 DEF KeptInv
<1>5. Settled(t)' => Wanted(t)'
  BY DEF Settled
<1>6. pc'[t] \notin Working
  BY DEF Working
<1>7. CASE r = t
  <2>1. CASE pc[t] = "unpack" /\ UNCHANGED <<diskVars, swallowed>>
    <3>1. (file[Url(t)] = None)' = (file[Url(t)] = None) /\ Wanted(t)' = Wanted(t) /\ Settled(t)' = Settled(t)
      BY <1>2, <2>1 DEF Wanted, Settled, diskVars
    <3> QED  BY <1>2, <1>4, <1>6, <1>7, <2>1, <3>1 DEF KeptInv
  <2>2. CASE Settled(t)' /\ at[<<t, Url(t)>>] = "in"
    <3>1. \A s \in Tasks : s # t /\ Url(s) = Url(t) => pc[s] \notin Working
      BY <2>2, WorkersDiffer DEF FetchInv, Typed, FetchTypeOK, TaskInv
    <3> QED  BY <1>4, <1>5, <1>6, <1>7, <2>2, <3>1
  <2> QED  BY <1>7, <2>1, <2>2, EnterUnpack DEF WantsInv
<1>8. CASE r # t /\ Url(r) # Url(t)
  <2>1. ~Changed(Url(t))
    BY <1>8, ChangesUnderLock, JobFacts DEF FetchInv, Typed, FetchTypeOK
  <2>2. (file[Url(t)] = None)' = (file[Url(t)] = None) /\ Wanted(t)' = Wanted(t) /\ Settled(t)' = Settled(t)
    BY <1>2, <2>1 DEF Wanted, Settled, Changed
  <2> QED  BY <1>1, <1>2, <1>4, <1>8, <2>2 DEF KeptInv
<1>9. CASE r # t /\ Url(r) = Url(t) /\ ~Cleanable(t)
  <2>1. r \notin job.cleaner /\ Want(r) = Want(t) /\ Settled(t) /\ (pc[r] \in Working => Quiet(r))
    BY <1>1, <1>4, <1>9 DEF Cleanable, Agreed, KeptInv
  <2>2. Settled(t)' /\ (pc'[r] \in Working => Quiet(r)')
    BY <1>9, <2>1, QuietStep
  <2> QED  BY <1>1, <1>4, <1>9, <2>2 DEF KeptInv
<1>10. CASE r # t /\ Url(r) = Url(t) /\ Cleanable(t)
  <2>1. t \notin job.cleaner /\ (file[Url(t)] = None \/ Wanted(t))
    BY <1>1, <1>4, <1>10 DEF RoleInv, KeptInv
  <2>2. r \in job.cleaner
    BY <1>10, <2>1 DEF CleanerAlone, Cleanable, Url, FetchInv, Typed, FetchTypeOK
  <2>3. RoleInv(r)
    OBVIOUS
  <2>4. file'[Url(t)] \in {file[Url(t)], None}
    <3>1. StartUnpack(r) \/ CleanFile(r) \/ CleanStamp(r)
      BY <2>2, <2>3 DEF Works, TaskStep, RoleInv, Fetching, Working, StartFetch, FirstVerify, VerifyMissing,
             VerifyUnchecked, VerifyMatch, Restamp, VerifyMismatch, Unstamp, EnterMirror, DownloadFile, DownloadClone,
             DownloadRevs, DownloadUnlink, DownloadNothing, DownloadFails, Fetched, Error, StampTouch, StampCreate,
             StampDump, StampMismatch, Finish, Swallow, Raise, Unpack, DiskError, CleanError
    <3>2. Url(t) \in Urls
      BY JobFacts DEF FetchInv, Typed, FetchTypeOK
    <3> QED  BY <3>1, <3>2 DEF StartUnpack, CleanFile, CleanStamp, Cleaned, diskVars
  <2> QED  BY <1>2, <1>10, <2>1, <2>4 DEF Wanted
<1> QED  BY <1>7, <1>8, <1>9, <1>10

LEMMA GotSame ==
    ASSUME NEW r \in Tasks, Works(r), ~Unpack(r)
    PROVE  got' = got
<1>1. CASE StartFetch(r) \/ EnterMirror(r) \/ StartUnpack(r) \/ CleanStamp(r) \/ Finish(r) \/ Swallow(r) \/ Raise(r)
           \/ FirstVerify(r) \/ VerifyMismatch(r) \/ StampCreate(r) \/ CleanFile(r)
  BY <1>1 DEF StartFetch, EnterMirror, StartUnpack, CleanStamp, Finish, Swallow, Raise, FirstVerify, VerifyMismatch,
              StampCreate, CleanFile
<1>2. CASE Fetched(r) \/ Error(r) \/ StampTouch(r) \/ StampDump(r) \/ StampMismatch(r) \/ DiskError(r) \/ CleanError(r)
  BY <1>2 DEF Fetched, Error, LeaveMirror, StampTouch, StampDump, StampMismatch, Stamped, DiskError, CleanError, Unwind
<1>3. CASE VerifyMissing(r) \/ VerifyUnchecked(r) \/ VerifyMatch(r) \/ Restamp(r) \/ Unstamp(r)
  BY <1>3 DEF VerifyMissing, VerifyUnchecked, VerifyMatch, Restamp, Unstamp, Verified
<1>4. CASE DownloadFile(r) \/ DownloadClone(r) \/ DownloadRevs(r) \/ DownloadUnlink(r) \/ DownloadNothing(r)
           \/ DownloadFails(r)
  BY <1>4 DEF DownloadFile, DownloadClone, DownloadRevs, DownloadUnlink, DownloadNothing, DownloadFails
<1> QED  BY <1>1, <1>2, <1>3, <1>4 DEF Works, TaskStep

\* Nothing follows the end of a task.
LEMMA EndIsLast == ASSUME NEW r \in Tasks, Works(r) \/ Dies(r) PROVE pc[r] # "end"
<1>1. CASE TaskStep(r)
  BY <1>1 DEF TaskStep, StartFetch, FirstVerify, VerifyMissing, VerifyUnchecked, VerifyMatch, Restamp, VerifyMismatch,
     Unstamp, EnterMirror, DownloadFile, DownloadClone, DownloadRevs, DownloadUnlink, DownloadNothing, DownloadFails,
     Fetched, Error, StampTouch, StampCreate, StampDump, StampMismatch, Finish, Swallow, Raise, StartUnpack, Unpack,
     CleanFile, CleanStamp
<1>2. CASE DiskError(r) \/ CleanError(r) \/ Dies(r)
  BY <1>2 DEF DiskError, CleanError, Dies, Crash, UnpackFails
<1> QED  BY <1>1, <1>2 DEF Works

LEMMA GotStep ==
    ASSUME FetchInv, UnpackInv, NEW r \in Tasks, Works(r)
    PROVE  UnpackGivesWanted' /\ GotLast'
<1>0. /\ pc = [s \in Tasks |-> pc[s]] /\ swallowed = [s \in Tasks |-> swallowed[s]]
      /\ \A s \in Tasks : Url(s)' = Url(s) /\ Want(s)' = Want(s)
      /\ \A s \in Tasks : s # r => pc'[s] = pc[s]
  BY StepLocal DEF Local, Url, Want, FetchInv, Typed, FetchTypeOK
<1>1. ASSUME NEW t \in Tasks, got'[t] # None, got'[t] = got[t]
      PROVE  pc'[t] = "end" /\ swallowed'[t] = swallowed[t]
  <2>1. t # r
    BY <1>1, EndIsLast DEF UnpackInv, GotLast
  <2> QED  BY <1>0, <1>1, <2>1, SwallowStep DEF UnpackInv, GotLast, Swallow
<1>2. ASSUME NEW t \in Tasks, got'[t] # got[t]
      PROVE  r = t /\ got'[t] = file[Url(t)] /\ pc[t] = "read" /\ pc'[t] = "end" /\ swallowed' = swallowed
  <2>1. Unpack(r)
    BY <1>2, GotSame
  <2> QED  BY <1>0, <1>2, <2>1 DEF Unpack, Goto
<1>3. ASSUME NEW t \in Tasks, got'[t] # None, ~swallowed'[t], Agreed(t) PROVE Want(t) \in got'[t]
  <2>1. CASE got'[t] = got[t]
    BY <1>1, <1>3, <2>1 DEF UnpackInv, UnpackGivesWanted, Agreed
  <2>2. CASE got'[t] # got[t]
    <3>1. KeptInv(t)
      BY DEF UnpackInv
    <3> QED  BY <1>2, <1>3, <2>2, <3>1 DEF KeptInv, Wanted, Settled
  <2> QED  BY <2>1, <2>2
<1>4. UnpackGivesWanted'
  BY <1>0, <1>3 DEF UnpackGivesWanted, Agreed
<1>5. GotLast'
  BY <1>1, <1>2 DEF GotLast
<1> QED  BY <1>4, <1>5

\* What the end of a process changes: only a do_cleanall removes files.
LEMMA UnpackDeath ==
    ASSUME FetchInv, UnpackInv, NEW r \in Tasks, Dies(r)
    PROVE  UnpackInv'
<1>0. /\ pc = [s \in Tasks |-> pc[s]] /\ job' = job
      /\ \A s \in Tasks : Url(s)' = Url(s) /\ Want(s)' = Want(s)
  BY StepLocal DEF Local, Url, Want, FetchInv, Typed, FetchTypeOK
<1>a. \A s \in Tasks : Url(s) \in Urls
  BY JobFacts DEF FetchInv, Typed, FetchTypeOK
<1>b. \A s \in Tasks : s # r => pc'[s] = pc[s] /\ phase'[s] = phase[s] /\ on'[s] = on[s] /\ done'[s] = done[s]
  BY StepLocal, DoneLocal DEF Local
<1>c. /\ pc'[r] \in {"start", "unpack", "end"} /\ pc[r] # "end"
      /\ pc'[r] = "unpack" => pc[r] = "read" /\ swallowed' = swallowed
      /\ stamp' = stamp /\ got' = got
  BY DeathStep, EndIsLast
<1>1. \A s \in Tasks : s # r => swallowed'[s] = swallowed[s]
  BY DEF Dies, Crash, UnpackFails, FetchInv, Typed, FetchTypeOK
<1>2. ASSUME NEW t \in Tasks PROVE RoleInv(t)'
  <2>1. CASE t = r
    BY <1>0, <1>c, <2>1 DEF UnpackInv, RoleInv, Fetching, Working
  <2>2. CASE t # r
    BY <1>0, <1>b, <2>2 DEF UnpackInv, RoleInv
  <2> QED  BY <2>1, <2>2
<1>3. ASSUME NEW t \in Tasks
      PROVE  \/ file'[Url(t)] = file[Url(t)]
             \/ Cleanable(t) /\ file'[Url(t)] = None
  <2> SUFFICES ASSUME file'[Url(t)] # file[Url(t)] PROVE Cleanable(t) /\ file'[Url(t)] = None
    OBVIOUS
  <2>1. UnpackFails(r) /\ pc[r] = "clean"
    BY DEF Dies, Crash, UnpackFails, diskVars
  <2>2. Url(t) \in {Url(r), Tar(r)}
    BY <1>a, ChangesUnderLock DEF Changed
  <2>3. Url(t) = Url(r)
    BY <2>2, JobFacts DEF FetchInv, Typed, FetchTypeOK
  <2>4. r \in job.cleaner
    BY <2>1 DEF UnpackInv, RoleInv
  <2>5. file'[Url(t)] \in {file[Url(t)], None}
    BY <1>a, DeathStep
  <2> QED  BY <2>3, <2>4, <2>5 DEF Cleanable
<1>4. ASSUME NEW t \in Tasks PROVE KeptInv(t)'
  <2>1. Agreed(t)' = Agreed(t) /\ Cleanable(t)' = Cleanable(t)
    <3>1. Agreed(t)' = Agreed(t)
      BY <1>0 DEF Agreed
    <3>2. Cleanable(t)' = Cleanable(t)
      BY <1>0 DEF Cleanable, Url
    <3> QED  BY <3>1, <3>2
  <2> SUFFICES ASSUME pc'[t] \in {"unpack", "read"}, ~swallowed'[t], Agreed(t)
               PROVE  \/ Cleanable(t) /\ (file'[Url(t)] = None \/ Wanted(t)')
                      \/ /\ ~Cleanable(t) /\ Settled(t)'
                         /\ \A s \in Tasks : (Url(s) = Url(t) /\ pc'[s] \in Working) => Quiet(s)'
    BY <1>0, <2>1 DEF KeptInv
  <2>2. pc[t] \in {"unpack", "read"} /\ ~swallowed[t] /\ KeptInv(t)
    BY <1>0, <1>1, <1>b, <1>c DEF UnpackInv
  <2>3. \A s \in Tasks : pc'[s] \in Working => s # r /\ pc[s] \in Working /\ Quiet(s)' = Quiet(s)
    BY <1>0, <1>b, <1>c DEF Working, Quiet
  <2>4. CASE Cleanable(t)
    BY <1>0, <1>c, <1>3, <2>2, <2>4 DEF KeptInv, Wanted
  <2>5. CASE ~Cleanable(t)
    <3>1. Settled(t)'
      BY <1>0, <1>c, <1>3, <2>2, <2>5 DEF KeptInv, Settled, Wanted
    <3> QED  BY <2>2, <2>3, <2>5, <3>1 DEF KeptInv
  <2> QED  BY <2>4, <2>5
<1>5. GotLast'
  BY <1>0, <1>b, <1>c DEF UnpackInv, GotLast
<1>6. UnpackGivesWanted'
  BY <1>0, <1>1, <1>b, <1>c DEF UnpackInv, GotLast, UnpackGivesWanted
<1> QED  BY <1>2, <1>4, <1>5, <1>6 DEF UnpackInv

LEMMA UnpackNext == CleanerAlone /\ FetchInv /\ WantsInv /\ UnpackInv /\ [Next]_vars => UnpackInv'
<1> SUFFICES ASSUME CleanerAlone, FetchInv, WantsInv, UnpackInv, [Next]_vars PROVE UnpackInv'
  OBVIOUS
<1>1. ASSUME NEW r \in Tasks, Works(r) PROVE UnpackInv'
  <2>1. ASSUME NEW t \in Tasks PROVE RoleInv(t)'
    <3>1. CASE t = r
      BY <1>1, <3>1, RoleStep DEF UnpackInv
    <3>2. CASE t # r
      BY <1>1, <3>2, StepLocal DEF UnpackInv, Local, RoleInv
    <3> QED  BY <3>1, <3>2
  <2> QED  BY <1>1, <2>1, KeptStep, GotStep DEF UnpackInv
<1>2. ASSUME UNCHANGED <<job, diskVars, taskVars>> PROVE UnpackInv'
  <2>1. \A s \in Tasks : Url(s)' = Url(s) /\ Want(s)' = Want(s)
    BY <1>2 DEF Url, Want
  <2>2. /\ \A s \in Tasks : Agreed(s)' = Agreed(s) /\ Cleanable(s)' = Cleanable(s)
        /\ \A s \in Tasks : Wanted(s)' = Wanted(s) /\ Settled(s)' = Settled(s)
        /\ \A s \in Tasks : Quiet(s)' = Quiet(s)
        /\ \A s \in Tasks : RoleInv(s)' = RoleInv(s)
    <3>1. \A s \in Tasks : Agreed(s)' = Agreed(s) /\ Cleanable(s)' = Cleanable(s)
      <4>1. \A s \in Tasks : Agreed(s)' = Agreed(s)
        BY <1>2, <2>1 DEF Agreed
      <4>2. \A s \in Tasks : Cleanable(s)' = Cleanable(s)
        BY <1>2 DEF Cleanable, Url
      <4> QED  BY <4>1, <4>2
    <3>2. \A s \in Tasks : Wanted(s)' = Wanted(s) /\ Settled(s)' = Settled(s)
      BY <1>2, <2>1 DEF Wanted, Settled, diskVars
    <3>3. \A s \in Tasks : Quiet(s)' = Quiet(s)
      BY <1>2, <2>1 DEF Quiet, taskVars
    <3>4. \A s \in Tasks : RoleInv(s)' = RoleInv(s)
      BY <1>2 DEF RoleInv, taskVars
    <3> QED  BY <3>1, <3>2, <3>3, <3>4
  <2>3. \A t \in Tasks : KeptInv(t)'
    BY <1>2, <2>1, <2>2 DEF UnpackInv, KeptInv, diskVars, taskVars
  <2>4. GotLast' /\ UnpackGivesWanted'
    BY <1>2, <2>1 DEF UnpackInv, GotLast, UnpackGivesWanted, taskVars
  <2> QED  BY <2>2, <2>3, <2>4 DEF UnpackInv
<1> QED  BY <1>1, <1>2, UnpackDeath DEF Next, Fault, Works, Dies, LockProgress, vars

\* What is unpacked after a fetch that has verified its file is what the recipe asks for, or nothing, when the
\* recipes of the url agree: for any number of tasks, as long as no two of them fetch what another one cleans.
THEOREM UnpackWanted == ASSUME CleanerAlone PROVE Spec => []UnpackGivesWanted
<1>1. Init => WantsInv /\ UnpackInv
  BY DEF Init, WantsInv, WantInv, Fetching, Working, UnpackInv, RoleInv, KeptInv, GotLast, UnpackGivesWanted
<1>2. FetchInv /\ WantsInv /\ UnpackInv /\ [Next]_vars => UnpackInv'
  BY CleanerAlone, UnpackNext
<1>3. UnpackInv => UnpackGivesWanted
  BY DEF UnpackInv
<1> QED  BY <1>1, <1>2, <1>3, WantsNext, FetchInvariant, PTL DEF Spec
=============================================================================
