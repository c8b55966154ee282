------------------------------- MODULE Fetch -------------------------------
(***************************************************************************)
(* bb.fetch2: do_fetch, do_unpack and do_cleanall of several recipes on    *)
(* one download directory.  A url has a file, a done stamp with the        *)
(* checksums of the file, and a lock (FileLock, one name per url).         *)
(*                                                                         *)
(* Two kinds of url: those with checksums (bb.fetch2.wget, which renames   *)
(* the finished download into place) and repositories (bb.fetch2.git,      *)
(* which updates its clone in place).  A mirror of the first kind has the  *)
(* same file, stamp and lock; the mirror of a repository is a tarball with *)
(* its own, whose lock is taken inside the other.                          *)
(*                                                                         *)
(* A file holds a set of revisions; a download with checksums is the       *)
(* singleton of its checksum, a clone what has arrived of the repository.  *)
(*                                                                         *)
(* An operator named Action_Change is a faulty variant of Action, used to  *)
(* test that the properties can tell it from the code; no action uses it.  *)
(***************************************************************************)
EXTENDS FileLock

CONSTANTS Tasks, Urls, Revs,
          Summed,        \* the urls whose method supports checksums
          Mirror,        \* Mirror[u] = u: the same name on the mirror; else a tarball
          Assignments,   \* the urls and wanted revisions the tasks may start with
          DiskMayFail,   \* whether a call on the download directory may fail (OSError)
          MaxFaults      \* how many exceptions of that kind and killed tasks there are (a bound)

ASSUME FetchAssumption ==
    /\ Procs = Tasks /\ Files = Urls
    /\ Summed \subseteq Urls /\ Mirror \in [Urls -> Urls]
    /\ Assignments \subseteq [url : [Tasks -> Urls], want : [Tasks -> Revs], cleaner : SUBSET Tasks]
    /\ None # "empty" /\ Revs \cap {None, "empty"} = {} /\ \A revs \in SUBSET Revs : revs # None
    /\ \A u \in Urls : Mirror[u] # u => u \notin Summed /\ Mirror[u] \in Summed   \* only a repository has a tarball,
    /\ \A a \in Assignments : \A s, t \in Tasks :                               \* which no recipe names as its url
          Mirror[a.url[s]] # a.url[s] => a.url[t] # Mirror[a.url[s]]
    /\ MaxFaults \in Nat /\ DiskMayFail \in BOOLEAN

VARIABLES job,           \* one of Assignments, never changed
          file, stamp, newer,       \* per url; newer: the stamp is younger than the file
          pc, phase, on, done, verified,   \* of Fetch.download
          result,        \* of do_fetch: "none", "ok" or "failed"
          swallowed,     \* whether download() ended in its handler of an I/O error, without a word
          got,           \* what do_unpack found, None at first
          faults

diskVars == <<file, stamp, newer>>
taskVars == <<pc, phase, on, done, verified, result, swallowed, got>>
vars == <<lockVars, job, diskVars, taskVars, faults>>

Url(t)  == job.url[t]
Want(t) == job.want[t]
Tar(t)  == Mirror[Url(t)]
HasTar(t) == Tar(t) # Url(t)
Retry == [shared |-> FALSE, retry |-> TRUE, block |-> FALSE]

Goto(t, l) == pc' = [pc EXCEPT ![t] = l]
GotoIn(t, l, ph, u) ==
    /\ pc' = [pc EXCEPT ![t] = l]
    /\ phase' = [phase EXCEPT ![t] = ph]
    /\ on' = [on EXCEPT ![t] = u]

\* The method's need_update.
NeedUpdate(t, u) == file[u] = None \/ (u \notin Summed /\ file[u] # None /\ Want(t) \notin file[u])

\* Checksums are compared only if neither the url nor the one it is a mirror of is a repository.
Checked(t, u) == u \in Summed /\ Url(t) \in Summed

Matches(t, u) == file[u] = {Want(t)}

Init ==
    /\ how = [h \in Handles |-> Retry]
    /\ LockInit
    /\ job \in Assignments
    /\ file = [u \in Urls |-> None]
    /\ stamp = [u \in Urls |-> None]
    /\ newer = [u \in Urls |-> FALSE]
    /\ pc = [t \in Tasks |-> "start"]
    /\ phase = [t \in Tasks |-> "first"]
    /\ on = [t \in Tasks |-> job.url[t]]
    /\ done = [t \in Tasks |-> FALSE]
    /\ verified = [t \in Tasks |-> FALSE]
    /\ result = [t \in Tasks |-> "none"]
    /\ swallowed = [t \in Tasks |-> FALSE]
    /\ got = [t \in Tasks |-> None]
    /\ faults = 0

LockProgress(t) ==
    /\ \E u \in Urls : LockStep(<<t, u>>) \/ UnlockStep(<<t, u>>)
    /\ UNCHANGED <<job, diskVars, taskVars, faults>>

-----------------------------------------------------------------------------
(* Fetch.download: the lock, and what follows each outcome.                *)

StartFetch(t) ==
    /\ pc[t] = "start" /\ t \notin job.cleaner
    /\ Lockfile(<<t, Url(t)>>, Retry)
    /\ Goto(t, "lock")
    /\ UNCHANGED <<job, diskVars, phase, on, done, verified, result, swallowed, got, faults>>

FirstVerify_Unlocked(t) ==
    /\ pc[t] = "lock"
    /\ GotoIn(t, "verify", "first", Url(t))
    /\ done' = [done EXCEPT ![t] = FALSE]
    /\ UNCHANGED <<lockVars, job, diskVars, verified, result, swallowed, got, faults>>

FirstVerify(t) ==
    /\ pc[t] = "lock" /\ at[<<t, Url(t)>>] = "in"
    /\ GotoIn(t, "verify", "first", Url(t))
    /\ done' = [done EXCEPT ![t] = FALSE]
    /\ UNCHANGED <<lockVars, job, diskVars, verified, result, swallowed, got, faults>>

\* What download does with the result of m.verify_donestamp.
Verified(t, r) ==
    /\ \/ /\ phase[t] = "first"
          /\ \/ /\ r /\ ~NeedUpdate(t, Url(t))
                /\ done' = [done EXCEPT ![t] = TRUE]
                /\ GotoIn(t, "verify", "second", Url(t))
             \/ /\ ~r \/ NeedUpdate(t, Url(t))
                /\ IF Url(t) \notin Summed /\ file[Url(t)] # None   \* git: try_premirror
                   THEN GotoIn(t, "verify", "second", Url(t))
                   ELSE GotoIn(t, "mirror", "premirror", Tar(t))
                /\ UNCHANGED done
          /\ UNCHANGED verified
       \/ /\ phase[t] = "second"
          /\ verified' = [verified EXCEPT ![t] = r]
          /\ IF ~done[t] /\ (~r \/ NeedUpdate(t, Url(t)))
             THEN GotoIn(t, "download", "upstream", Url(t))
             ELSE GotoIn(t, "finish", "final", Url(t))
          /\ UNCHANGED done
       \/ /\ phase[t] \in {"premirror", "mirrors"}       \* in try_mirror_url
          /\ IF ~r \/ NeedUpdate(t, on[t])
             THEN Goto(t, "download") ELSE Goto(t, "fetched")
          /\ UNCHANGED <<phase, on, done, verified>>
    /\ UNCHANGED <<result, swallowed, got>>

\* try_mirrors is over; the lock of a tarball is given back on the way.
LeaveMirror(t, ok) ==
    /\ done' = [done EXCEPT ![t] = ok]
    /\ \/ /\ phase[t] = "premirror"
          /\ IF ok THEN GotoIn(t, "stamp", "premirror", Url(t))
                   ELSE GotoIn(t, "verify", "second", Url(t))
       \/ /\ phase[t] = "mirrors"
          /\ GotoIn(t, "finish", "final", Url(t))
    /\ IF HasTar(t) THEN PromoteLock(<<t, Tar(t)>>) ELSE UNCHANGED lockVars
    /\ UNCHANGED <<verified, result, swallowed, got>>

\* A tarball's unlockfile() has returned before download goes on.
Ready(t) == HasTar(t) => \/ at[<<t, Tar(t)>>] = "out"
                         \/ phase[t] \in {"premirror", "mirrors"} /\ at[<<t, Tar(t)>>] = "in"

-----------------------------------------------------------------------------
(* verify_donestamp of the url on[t].                                      *)

VerifyMissing_KeepStamp(t) ==
    /\ pc[t] = "verify" /\ Ready(t)
    /\ file[on[t]] = None
    /\ Verified(t, FALSE)
    /\ UNCHANGED <<lockVars, job, diskVars, faults>>

\* No file: a stamp without it must be wrong.
VerifyMissing(t) ==
    /\ pc[t] = "verify" /\ Ready(t)
    /\ file[on[t]] = None
    /\ stamp' = [stamp EXCEPT ![on[t]] = None]
    /\ Verified(t, FALSE)
    /\ UNCHANGED <<lockVars, job, file, newer, faults>>

VerifyUnchecked(t) ==
    /\ pc[t] = "verify" /\ Ready(t)
    /\ file[on[t]] # None /\ ~Checked(t, on[t])
    /\ Verified(t, stamp[on[t]] # None)
    /\ UNCHANGED <<lockVars, job, diskVars, faults>>

\* The checksums come from a stamp younger than the file, else from the file.
Precomputed(u) == stamp[u] \in Revs /\ newer[u]
Checksum(u) == IF Precomputed(u) THEN {stamp[u]} ELSE file[u]

\* They match; checksums that were not in the stamp are written into it.
VerifyMatch(t) ==
    LET u == on[t] IN
    /\ pc[t] = "verify" /\ Ready(t)
    /\ file[u] # None /\ Checked(t, u)
    /\ Checksum(u) = {Want(t)}
    /\ \/ /\ Precomputed(u)
          /\ Verified(t, TRUE)
          /\ UNCHANGED <<stamp, newer>>
       \/ /\ ~Precomputed(u)
          /\ stamp' = [stamp EXCEPT ![u] = "empty"]
          /\ newer' = [newer EXCEPT ![u] = TRUE]
          /\ Goto(t, "restamp")
          /\ UNCHANGED <<phase, on, done, verified, result, swallowed, got>>
    /\ UNCHANGED <<lockVars, job, file, faults>>

Restamp(t) ==
    /\ pc[t] = "restamp"
    /\ stamp' = [stamp EXCEPT ![on[t]] = Want(t)]
    /\ Verified(t, TRUE)
    /\ UNCHANGED <<lockVars, job, file, newer, faults>>

\* rename_bad_checksum; a rename that fails is only warned about.
MovedAway(u) == \/ file' = [file EXCEPT ![u] = None]
                \/ DiskMayFail /\ UNCHANGED file

\* They do not: rename_bad_checksum, then the stamp is removed.
VerifyMismatch(t) ==
    LET u == on[t] IN
    /\ pc[t] = "verify" /\ Ready(t)
    /\ file[u] # None /\ Checked(t, u)
    /\ Checksum(u) # {Want(t)}
    /\ MovedAway(u)
    /\ Goto(t, "unstamp")
    /\ UNCHANGED <<lockVars, job, stamp, newer, phase, on, done, verified, result, swallowed, got, faults>>

Unstamp(t) ==
    /\ pc[t] = "unstamp"
    /\ stamp' = [stamp EXCEPT ![on[t]] = None]
    /\ Verified(t, FALSE)
    /\ UNCHANGED <<lockVars, job, file, newer, faults>>

-----------------------------------------------------------------------------
(* try_mirror_url and the method's download.                               *)

EnterMirror_LockAgain(t) ==
    /\ pc[t] = "mirror"
    /\ Goto(t, "verify")
    /\ Lockfile(<<t, Tar(t)>>, Retry)
    /\ UNCHANGED <<job, diskVars, phase, on, done, verified, result, swallowed, got, faults>>

\* The mirror's lock is taken unless it is the one already held.
EnterMirror(t) ==
    /\ pc[t] = "mirror"
    /\ Goto(t, "verify")
    /\ IF HasTar(t) THEN Lockfile(<<t, Tar(t)>>, Retry) ELSE UNCHANGED lockVars
    /\ UNCHANGED <<job, diskVars, phase, on, done, verified, result, swallowed, got, faults>>

\* Wget.download renames the finished file into place, whatever the server sent.
DownloadFile(t) ==
    /\ pc[t] = "download" /\ on[t] \in Summed
    /\ \E r \in Revs : file' = [file EXCEPT ![on[t]] = {r}]
    /\ newer' = [newer EXCEPT ![on[t]] = FALSE]
    /\ Goto(t, "fetched")
    /\ UNCHANGED <<lockVars, job, stamp, phase, on, done, verified, result, swallowed, got, faults>>

\* Git.download: without a clone, one from the tarball if there is one, else from the server.
DownloadClone(t) ==
    /\ pc[t] = "download" /\ on[t] \notin Summed
    /\ file[on[t]] = None
    /\ \E revs \in IF HasTar(t) /\ file[Tar(t)] # None THEN {file[Tar(t)]} ELSE SUBSET Revs :
          file' = [file EXCEPT ![on[t]] = revs]
    /\ Goto(t, "cloned")
    /\ UNCHANGED <<lockVars, job, stamp, newer, phase, on, done, verified, result, swallowed, got, faults>>

\* git fetch: whatever the server has now.
DownloadRevs(t) ==
    /\ pc[t] \in {"download", "cloned"} /\ on[t] \notin Summed
    /\ file[on[t]] # None /\ Want(t) \notin file[on[t]]
    /\ \E new \in SUBSET Revs : file' = [file EXCEPT ![on[t]] = @ \cup new]
    /\ Goto(t, "unlink")
    /\ UNCHANGED <<lockVars, job, stamp, newer, phase, on, done, verified, result, swallowed, got, faults>>

\* The tarball is out of date now.  A FetchError if the revision is not there even from upstream.
DownloadUnlink(t) ==
    /\ pc[t] = "unlink"
    /\ file' = IF HasTar(t) THEN [file EXCEPT ![Tar(t)] = None] ELSE file
    /\ Goto(t, IF Want(t) \in file[on[t]] THEN "fetched" ELSE "error")
    /\ UNCHANGED <<lockVars, job, stamp, newer, phase, on, done, verified, result, swallowed, got, faults>>

\* The clone has the revision already.
DownloadNothing(t) ==
    /\ pc[t] \in {"download", "cloned"} /\ on[t] \notin Summed
    /\ file[on[t]] # None /\ Want(t) \in file[on[t]]
    /\ Goto(t, "fetched")
    /\ UNCHANGED <<lockVars, job, diskVars, phase, on, done, verified, result, swallowed, got, faults>>

\* A BBFetchException: nothing came, an empty file (removed again), or a tarball did not unpack.
DownloadFails(t) ==
    LET u == on[t] IN
    /\ pc[t] \in {"download", "cloned"}
    /\ \/ UNCHANGED file
       \/ /\ u \in Summed
          /\ file' = [file EXCEPT ![u] = None]
       \/ /\ u \notin Summed /\ file[u] = None /\ file[Tar(t)] # None
          /\ file' = [file EXCEPT ![u] = {}]
    /\ Goto(t, "error")
    /\ UNCHANGED <<lockVars, job, stamp, newer, phase, on, done, verified, result, swallowed, got, faults>>

\* Upstream: update_donestamp.  A mirror of the same name: its path is returned.
Fetched(t) ==
    /\ pc[t] = "fetched"
    /\ \/ /\ phase[t] = "upstream"
          /\ done' = [done EXCEPT ![t] = TRUE]
          /\ Goto(t, "stamp")
          /\ UNCHANGED <<lockVars, diskVars, phase, on, verified, result, swallowed, got>>
       \/ /\ phase[t] \in {"premirror", "mirrors"} /\ on[t] = Url(t)
          /\ LeaveMirror(t, TRUE)
          /\ UNCHANGED diskVars
       \/ /\ phase[t] \in {"premirror", "mirrors"} /\ on[t] # Url(t)   \* the tarball
          /\ stamp' = [stamp EXCEPT ![on[t]] = "empty"]
          /\ newer' = [newer EXCEPT ![on[t]] = TRUE]
          /\ on' = [on EXCEPT ![t] = Url(t)]
          /\ Goto(t, "verify")
          /\ UNCHANGED <<lockVars, file, phase, done, verified, result, swallowed, got>>
    /\ UNCHANGED <<job, faults>>

\* The method's clean: a file; a clone with its tarball and the tarball's stamp.
Cleaned(t, us) ==
    /\ file' = [u \in Urls |-> IF u \in us THEN None ELSE file[u]]
    /\ stamp' = [u \in Urls |-> IF u \in us /\ u # Url(t) THEN None ELSE stamp[u]]

\* A download failed, or its checksum.  On a mirror: clean it and return False.  Upstream: remove
\* an incomplete fetch, then try the mirrors.
Error(t) ==
    /\ pc[t] = "error"
    /\ \/ /\ phase[t] = "upstream"
          /\ Cleaned(t, IF verified[t] THEN {} ELSE {Url(t), Tar(t)})
          /\ GotoIn(t, "mirror", "mirrors", Tar(t))
          /\ UNCHANGED <<lockVars, done, verified, result, swallowed, got>>
       \/ /\ phase[t] \in {"premirror", "mirrors"}
          /\ file' = [file EXCEPT ![Tar(t)] = None]
          /\ LeaveMirror(t, FALSE)
          /\ UNCHANGED stamp
    /\ UNCHANGED <<job, newer, faults>>

-----------------------------------------------------------------------------
(* update_stamp, and the end of download.                                  *)

Stamped(t) ==
    \/ /\ phase[t] = "premirror"
       /\ GotoIn(t, "verify", "second", Url(t))
       /\ UNCHANGED <<lockVars, result>>
    \/ /\ phase[t] = "upstream"
       /\ GotoIn(t, "finish", "final", Url(t))
       /\ UNCHANGED <<lockVars, result>>
    \/ /\ phase[t] = "final"
       /\ result' = [result EXCEPT ![t] = "ok"]
       /\ PromoteLock(<<t, Url(t)>>)
       /\ Goto(t, "unpack")
       /\ UNCHANGED <<phase, on>>

StampTouch(t) ==
    /\ pc[t] = "stamp" /\ Ready(t)
    /\ stamp[Url(t)] # None
    /\ \/ newer' = [newer EXCEPT ![Url(t)] = TRUE]
       \/ DiskMayFail /\ UNCHANGED newer       \* os.utime: "errors aren't fatal here"
    /\ Stamped(t)
    /\ UNCHANGED <<job, file, stamp, done, verified, swallowed, got, faults>>

StampCreate(t) ==
    /\ pc[t] = "stamp" /\ Ready(t)
    /\ stamp[Url(t)] = None
    /\ Url(t) \in Summed => Matches(t, Url(t))
    /\ stamp' = [stamp EXCEPT ![Url(t)] = "empty"]
    /\ newer' = [newer EXCEPT ![Url(t)] = TRUE]
    /\ Goto(t, "dump")
    /\ UNCHANGED <<lockVars, job, file, phase, on, done, verified, result, swallowed, got, faults>>

StampDump_Url(t) ==
    /\ pc[t] = "dump"
    /\ stamp' = [stamp EXCEPT ![Url(t)] = Url(t)]
    /\ Stamped(t)
    /\ UNCHANGED <<job, file, newer, done, verified, swallowed, got, faults>>

StampDump(t) ==
    /\ pc[t] = "dump"
    /\ stamp' = [stamp EXCEPT ![Url(t)] = IF Url(t) \in Summed THEN Want(t) ELSE "empty"]
    /\ Stamped(t)
    /\ UNCHANGED <<job, file, newer, done, verified, swallowed, got, faults>>

\* ChecksumError: the file is renamed, and there is no stamp to remove.
StampMismatch(t) ==
    /\ pc[t] = "stamp" /\ Ready(t)
    /\ stamp[Url(t)] = None
    /\ Url(t) \in Summed /\ ~Matches(t, Url(t))
    /\ MovedAway(Url(t))
    /\ \/ /\ phase[t] = "premirror"
          /\ done' = [done EXCEPT ![t] = FALSE]
          /\ GotoIn(t, "verify", "second", Url(t))
          /\ UNCHANGED <<lockVars, result>>
       \/ /\ phase[t] = "upstream"
          /\ Goto(t, "error")
          /\ UNCHANGED <<lockVars, phase, on, done, result>>
       \/ /\ phase[t] = "final"
          /\ result' = [result EXCEPT ![t] = "failed"]
          /\ PromoteLock(<<t, Url(t)>>)
          /\ Goto(t, "end")
          /\ UNCHANGED <<phase, on, done>>
    /\ UNCHANGED <<job, stamp, newer, verified, swallowed, got, faults>>

Finish_Unverified(t) ==
    /\ pc[t] = "finish" /\ Ready(t)
    /\ result' = [result EXCEPT ![t] = IF done[t] THEN "ok" ELSE "failed"]
    /\ PromoteLock(<<t, Url(t)>>)
    /\ Goto(t, IF done[t] THEN "unpack" ELSE "end")
    /\ UNCHANGED <<job, diskVars, phase, on, done, verified, swallowed, got, faults>>

Finish(t) ==
    /\ pc[t] = "finish" /\ Ready(t)
    /\ \/ /\ done[t] /\ file[Url(t)] # None
          /\ Goto(t, "stamp")
          /\ UNCHANGED <<lockVars, result>>
       \/ /\ ~done[t] \/ file[Url(t)] = None
          /\ result' = [result EXCEPT ![t] = "failed"]
          /\ PromoteLock(<<t, Url(t)>>)
          /\ Goto(t, "end")
    /\ UNCHANGED <<job, diskVars, phase, on, done, verified, swallowed, got, faults>>

-----------------------------------------------------------------------------
(* Calls on the disk that fail: an OSError (an IOError) or, from the rm of *)
(* the git fetcher's clean, a CalledProcessError.  The places between the  *)
(* steps of a task say what has been done by then.                         *)

NewFault == faults < MaxFaults /\ faults' = faults + 1

InMirror(t) == phase[t] \in {"premirror", "mirrors"} /\ pc[t] \notin {"stamp", "dump"}

\* The exception leaves try_mirror_url, which unlocks, for the handler l of download.
Unwind(t, l) ==
    /\ GotoIn(t, l, "final", Url(t))
    /\ IF InMirror(t) /\ HasTar(t) THEN PromoteLock(<<t, Tar(t)>>) ELSE UNCHANGED lockVars
    /\ UNCHANGED <<done, verified, result, swallowed, got>>

\* download() takes every errno but ESTALE for no error; try_mirror_url ESTALE for "no such mirror".
DiskError(t) ==
    /\ DiskMayFail /\ NewFault /\ Ready(t)
    /\ pc[t] \in {"verify", "restamp", "unstamp", "download", "unlink", "fetched", "stamp", "dump"}
    /\ \/ Unwind(t, "swallow")
       \/ ~InMirror(t) /\ Unwind(t, "raise")
       \/ InMirror(t) /\ LeaveMirror(t, FALSE)
    /\ UNCHANGED <<job, diskVars>>

\* In the handler of a failed download: nothing, or a part of a clone and its tarball, is removed.
CleanError(t) ==
    LET u == IF phase[t] = "upstream" THEN Url(t) ELSE Tar(t) IN
    /\ DiskMayFail /\ NewFault /\ Ready(t)
    /\ pc[t] = "error" /\ (phase[t] = "upstream" => ~verified[t])
    /\ \/ /\ u \in Summed
          /\ \E l \in {"swallow", "raise"} : Unwind(t, l)
          /\ UNCHANGED file
       \/ /\ u \notin Summed
          /\ Unwind(t, "raise")
          /\ \E us \in SUBSET {Url(t), Tar(t)} :
                file' = [v \in Urls |-> IF v \in us THEN None ELSE file[v]]
    /\ UNCHANGED <<job, stamp, newer>>

\* except IOError: download() returns as if it had fetched.
Swallow(t) ==
    /\ pc[t] = "swallow" /\ Ready(t)
    /\ result' = [result EXCEPT ![t] = "ok"]
    /\ swallowed' = [swallowed EXCEPT ![t] = TRUE]
    /\ PromoteLock(<<t, Url(t)>>)
    /\ Goto(t, "unpack")
    /\ UNCHANGED <<job, diskVars, phase, on, done, verified, got, faults>>

\* ESTALE becomes a ChecksumError; what is no IOError goes through.
Raise(t) ==
    /\ pc[t] = "raise" /\ Ready(t)
    /\ result' = [result EXCEPT ![t] = "failed"]
    /\ PromoteLock(<<t, Url(t)>>)
    /\ Goto(t, "end")
    /\ UNCHANGED <<job, diskVars, phase, on, done, verified, swallowed, got, faults>>

-----------------------------------------------------------------------------
(* do_unpack and do_cleanall.                                              *)

StartUnpack(t) ==
    /\ \/ pc[t] = "unpack" \/ (pc[t] = "start" /\ t \in job.cleaner)
    /\ at[<<t, Url(t)>>] = "out"
    /\ Lockfile(<<t, Url(t)>>, Retry)
    /\ Goto(t, IF t \in job.cleaner THEN "clean" ELSE "read")
    /\ UNCHANGED <<job, diskVars, phase, on, done, verified, result, swallowed, got, faults>>

Unpack(t) ==
    /\ pc[t] = "read" /\ at[<<t, Url(t)>>] = "in"
    /\ got' = [got EXCEPT ![t] = file[Url(t)]]
    /\ PromoteLock(<<t, Url(t)>>)
    /\ Goto(t, "end")
    /\ UNCHANGED <<job, diskVars, phase, on, done, verified, result, swallowed, faults>>

CleanFile(t) ==
    /\ pc[t] = "clean" /\ at[<<t, Url(t)>>] = "in"
    /\ Cleaned(t, {Url(t), Tar(t)})
    /\ Goto(t, "cleaned")
    /\ UNCHANGED <<lockVars, job, newer, phase, on, done, verified, result, swallowed, got, faults>>

CleanStamp(t) ==
    /\ pc[t] = "cleaned"
    /\ stamp' = [stamp EXCEPT ![Url(t)] = None]
    /\ PromoteLock(<<t, Url(t)>>)
    /\ Goto(t, "end")
    /\ UNCHANGED <<job, file, newer, phase, on, done, verified, result, swallowed, got, faults>>

\* do_unpack or do_cleanall fails, before it has unlocked: the lock goes with its process.
UnpackFails(t) ==
    /\ DiskMayFail /\ NewFault
    /\ pc[t] \in {"read", "clean", "cleaned"} /\ at[<<t, Url(t)>>] = "in"
    /\ \/ UNCHANGED file
       \/ /\ pc[t] = "clean" /\ Url(t) \notin Summed
          /\ \E us \in SUBSET {Url(t), Tar(t)} :
                file' = [v \in Urls |-> IF v \in us THEN None ELSE file[v]]
    /\ LoseLocks(t)
    /\ Goto(t, "end")
    /\ UNCHANGED <<job, stamp, newer, phase, on, done, verified, result, swallowed, got>>

\* A task is killed, at any place, and run again by the next build; do_unpack without do_fetch,
\* which has its stamp.
Crash(t) ==
    /\ NewFault
    /\ LoseLocks(t)
    /\ \/ /\ pc[t] \notin {"start", "read", "end"}
          /\ GotoIn(t, "start", "first", Url(t))
          /\ done' = [done EXCEPT ![t] = FALSE]
          /\ verified' = [verified EXCEPT ![t] = FALSE]
          /\ result' = [result EXCEPT ![t] = "none"]
          /\ swallowed' = [swallowed EXCEPT ![t] = FALSE]
       \/ /\ pc[t] = "read"
          /\ Goto(t, "unpack")
          /\ UNCHANGED <<phase, on, done, verified, result, swallowed>>
    /\ UNCHANGED <<job, diskVars, got>>

-----------------------------------------------------------------------------
TaskStep(t) ==
    \/ StartFetch(t) \/ FirstVerify(t) \/ VerifyMissing(t) \/ VerifyUnchecked(t) \/ VerifyMatch(t)
    \/ Restamp(t) \/ VerifyMismatch(t) \/ Unstamp(t) \/ EnterMirror(t) \/ DownloadFile(t)
    \/ DownloadClone(t) \/ DownloadRevs(t) \/ DownloadUnlink(t) \/ DownloadNothing(t) \/ DownloadFails(t)
    \/ Fetched(t) \/ Error(t) \/ StampTouch(t) \/ StampCreate(t) \/ StampDump(t)
    \/ StampMismatch(t) \/ Finish(t) \/ Swallow(t) \/ Raise(t)
    \/ StartUnpack(t) \/ Unpack(t) \/ CleanFile(t) \/ CleanStamp(t)

Fault(t) == DiskError(t) \/ CleanError(t) \/ UnpackFails(t) \/ Crash(t)

Next == \E t \in Tasks : TaskStep(t) \/ LockProgress(t) \/ Fault(t)

Spec == Init /\ [][Next]_vars

\* Every process is scheduled, and a lock that is free again and again is granted some time.
FairSpec == Spec /\ \A t \in Tasks : WF_vars(TaskStep(t)) /\ SF_vars(LockProgress(t))

-----------------------------------------------------------------------------
FetchTypeOK ==
    /\ LockTypeOK
    /\ job \in Assignments
    /\ file \in [Urls -> {None} \cup SUBSET Revs]
    /\ stamp \in [Urls -> {None, "empty"} \cup Revs]
    /\ newer \in [Urls -> BOOLEAN]
    /\ phase \in [Tasks -> {"first", "second", "premirror", "upstream", "mirrors", "final"}]
    /\ on \in [Tasks -> Urls]
    /\ done \in [Tasks -> BOOLEAN] /\ verified \in [Tasks -> BOOLEAN]
    /\ result \in [Tasks -> {"none", "ok", "failed"}]
    /\ swallowed \in [Tasks -> BOOLEAN]
    /\ faults \in 0 .. MaxFaults

\* The checksums in a done stamp are those of the file beside it, so taking them instead of
\* reading the file again (precomputed in verify_donestamp) is right: after every crash and
\* every clean-up, and with recipes that expect different contents of the same file.
StampTellsTruth ==
    \A u \in Urls : (u \in Summed /\ Mirror[u] = u /\ stamp[u] \in Revs /\ file[u] # None)
                       => file[u] = {stamp[u]}

\* download() comes to the end of its try block only when the file is what the recipe asks for,
\* through all retries from mirrors and upstream, and next to failing renames and removals.  (It
\* returns without an error from its handler of I/O errors, too, and then nothing is promised.)
FetchGivesWanted ==
    [][\A t \in Tasks : (result[t] = "none" /\ result'[t] = "ok" /\ ~swallowed'[t])
          => /\ file'[Url(t)] # None
             /\ Want(t) \in file'[Url(t)]
             /\ Url(t) \in Summed => stamp'[Url(t)] = Want(t)]_vars

\* When the recipes of a url agree, what is unpacked after a fetch that has verified its file is
\* what the recipe asks for, or nothing after a clean: no other task, nor one that an I/O error
\* has stopped half-way, leaves a part or another content there between the two tasks.  (It takes
\* a third task to: do_unpack does not verify again what a download that was killed after a clean
\* has left.  After a fetch that ended in the handler of I/O errors it takes what is there.)
UnpackGivesWanted ==
    \A t \in Tasks :
       (/\ got[t] # None /\ ~swallowed[t]
        /\ \A s \in Tasks : Url(s) = Url(t) => Want(s) = Want(t))
       => Want(t) \in got[t]

\* A task that changes a file has itself the lock of the url, or of the repository whose mirror
\* the file is.  (The task that takes a step is the one whose pc changes.)
FileUnderLock ==
    [][\A u \in Urls : file'[u] # file[u]
          => \E t \in Tasks :
                /\ pc'[t] # pc[t]
                /\ \E v \in {u, Url(t)} : (v = u \/ Mirror[v] = u) /\ at[<<t, v>>] = "in"]_vars

\* Every task comes to its end: locks inside locks do not block each other, and no order of
\* answers makes a task try for ever.
FetchEnds == \A t \in Tasks : <>(pc[t] = "end")
=============================================================================
