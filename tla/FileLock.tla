------------------------------ MODULE FileLock ------------------------------
(***************************************************************************)
(* bb.utils.lockfile and bb.utils.unlockfile: locks between processes by   *)
(* flock(2) on a file that the last holder removes.  The file of a name    *)
(* can therefore be another one than the file a process has opened.        *)
(*                                                                         *)
(* A handle is a process and a lock name.  The files a name had are told   *)
(* apart by their inode numbers, which the file system uses again once a   *)
(* file is neither linked nor open.  Numbers are only compared between     *)
(* files of one name, so each name has its own.                            *)
(*                                                                         *)
(* An operator named Action_Change is a faulty variant of Action, used to  *)
(* test that the properties can tell it from the code; no action uses it.  *)
(***************************************************************************)
EXTENDS Naturals, FiniteSets

CONSTANTS Procs,    \* processes
          Files,    \* names of lock files
          Inodes,   \* inode numbers
          None

ASSUME InodesAssumption == None \notin Inodes

VARIABLES link,     \* the inode a name refers to, None if there is no such file
          at,       \* how far lockfile() or unlockfile() of a handle got
          how,      \* the arguments shared, retry and block of lockfile()
          fd,       \* the inode the handle has open
          flk       \* the flock the handle has on it: "no", "SH" or "EX"

lockVars == <<link, at, how, fd, flk>>

Handles == Procs \X Files

Places == {"out", "open", "opened", "granted", "in", "promoted", "closing"}

Calls == [shared : BOOLEAN, retry : BOOLEAN, block : BOOLEAN]

Mode(h) == IF how[h].shared THEN "SH" ELSE "EX"

\* flock(2): another open file description has a lock that excludes m.
Conflict(h, m) ==
    \E g \in Handles \ {h} :
       /\ g[2] = h[2] /\ fd[g] = fd[h] /\ flk[g] # "no"
       /\ (m = "EX" \/ flk[g] = "EX")

FreeInodes(f) == {i \in Inodes : link[f] # i /\ \A p \in Procs : fd[<<p, f>>] # i}

\* The number of a new file: which free one it is makes no difference.
NewInode(f) == CHOOSE i \in FreeInodes(f) : TRUE

\* Closing the descriptor gives up the lock; the handle is then at place a.
CloseAt(h, a) ==
    /\ at'  = [at  EXCEPT ![h] = a]
    /\ fd'  = [fd  EXCEPT ![h] = None]
    /\ flk' = [flk EXCEPT ![h] = "no"]

-----------------------------------------------------------------------------
LockInit ==
    /\ link = [f \in Files |-> None]
    /\ at = [h \in Handles |-> "out"]
    /\ how \in [Handles -> Calls]   \* of no meaning before the first call
    /\ fd = [h \in Handles |-> None]
    /\ flk = [h \in Handles |-> "no"]

\* The call of lockfile().
Lockfile(h, c) ==
    /\ at[h] = "out"
    /\ at' = [at EXCEPT ![h] = "open"]
    /\ how' = [how EXCEPT ![h] = c]
    /\ UNCHANGED <<link, fd, flk>>

\* open(name, 'a+') finds the file or creates it.
OpenLock(h) ==
    /\ at[h] = "open"
    /\ at' = [at EXCEPT ![h] = "opened"]
    /\ \/ /\ link[h[2]] # None
          /\ fd' = [fd EXCEPT ![h] = link[h[2]]]
          /\ UNCHANGED link
       \/ /\ link[h[2]] = None
          /\ FreeInodes(h[2]) # {}
          /\ fd' = [fd EXCEPT ![h] = NewInode(h[2])]
          /\ link' = [link EXCEPT ![h[2]] = NewInode(h[2])]
    /\ UNCHANGED <<how, flk>>

\* flock() succeeds, at once or after waiting.
GrantLock(h) ==
    /\ at[h] = "opened"
    /\ ~Conflict(h, Mode(h))
    /\ at' = [at EXCEPT ![h] = "granted"]
    /\ flk' = [flk EXCEPT ![h] = Mode(h)]
    /\ UNCHANGED <<link, how, fd>>

\* With neither retry nor block, LOCK_NB makes a busy lock an error: None is returned.
RefuseLock(h) ==
    /\ at[h] = "opened"
    /\ ~how[h].retry /\ ~how[h].block
    /\ Conflict(h, Mode(h))
    /\ CloseAt(h, "out")
    /\ UNCHANGED <<link, how>>

KeepLock_AnyInode(h) ==
    /\ at[h] = "granted"
    /\ at' = [at EXCEPT ![h] = "in"]
    /\ UNCHANGED <<link, how, fd, flk>>

\* The comparison of inodes: the locked file is still the one on disk.
KeepLock(h) ==
    /\ at[h] = "granted"
    /\ link[h[2]] = fd[h]
    /\ at' = [at EXCEPT ![h] = "in"]
    /\ UNCHANGED <<link, how, fd, flk>>

\* It is not: close it and start again, or return None without retry.
DropLock(h) ==
    /\ at[h] = "granted"
    /\ link[h[2]] # fd[h]
    /\ CloseAt(h, IF how[h].retry THEN "open" ELSE "out")
    /\ UNCHANGED <<link, how>>

\* unlockfile(): promote to exclusive.  A conversion that fails has lost the lock.
PromoteLock(h) ==
    /\ at[h] = "in"
    /\ \/ /\ ~Conflict(h, "EX")
          /\ flk' = [flk EXCEPT ![h] = "EX"]
          /\ at' = [at EXCEPT ![h] = "promoted"]
       \/ /\ Conflict(h, "EX")
          /\ flk' = [flk EXCEPT ![h] = "no"]
          /\ at' = [at EXCEPT ![h] = "closing"]
    /\ UNCHANGED <<link, how, fd>>

\* os.unlink(lf.name).
UnlinkLock(h) ==
    /\ at[h] = "promoted"
    /\ link' = [link EXCEPT ![h[2]] = None]
    /\ at' = [at EXCEPT ![h] = "closing"]
    /\ UNCHANGED <<how, fd, flk>>

\* flock(LOCK_UN), close().
CloseLock(h) ==
    /\ at[h] = "closing"
    /\ CloseAt(h, "out")
    /\ UNCHANGED <<link, how>>

\* close() of a lock without unlockfile(): the file stays.
LeaveLock(h) ==
    /\ at[h] = "in"
    /\ CloseAt(h, "out")
    /\ UNCHANGED <<link, how>>

\* A process that ends or is killed: the kernel closes its files.
LoseLocks(p) ==
    /\ at'  = [h \in Handles |-> IF h[1] = p THEN "out" ELSE at[h]]
    /\ fd'  = [h \in Handles |-> IF h[1] = p THEN None ELSE fd[h]]
    /\ flk' = [h \in Handles |-> IF h[1] = p THEN "no" ELSE flk[h]]
    /\ UNCHANGED <<link, how>>

\* A step of lockfile() until it returns.
LockStep(h) == OpenLock(h) \/ GrantLock(h) \/ RefuseLock(h) \/ KeepLock(h) \/ DropLock(h)

\* A step of unlockfile() once it is under way.
UnlockStep(h) == UnlinkLock(h) \/ CloseLock(h)

LockNext ==
    \/ \E h \in Handles :
          \/ \E c \in Calls : Lockfile(h, c)
          \/ LockStep(h)
          \/ PromoteLock(h)
          \/ UnlockStep(h)
          \/ LeaveLock(h)
    \/ \E p \in Procs : LoseLocks(p)

LockSpec == LockInit /\ [][LockNext]_lockVars

-----------------------------------------------------------------------------
LockTypeOK ==
    /\ link \in [Files -> Inodes \cup {None}]
    /\ at \in [Handles -> Places]
    /\ how \in [Handles -> Calls]
    /\ fd \in [Handles -> Inodes \cup {None}]
    /\ flk \in [Handles -> {"no", "SH", "EX"}]

\* What the caller believes to hold: from the return of lockfile() until unlockfile() has
\* removed the file or lost the lock.
Held(h) == IF at[h] \in {"in", "promoted"} THEN Mode(h) ELSE "no"

\* Two callers hold a name at the same time only if both share it, although the file behind
\* the name is removed and created again while others wait for it (the comment in lockfile).
LockExclusion ==
    \A g, h \in Handles :
       (g # h /\ g[2] = h[2] /\ Held(g) # "no" /\ Held(h) # "no")
          => (Held(g) = "SH" /\ Held(h) = "SH")

\* What makes it so: a holder's file is the one on disk, so all holders lock the same file.
HolderHasTheFile ==
    \A h \in Handles : at[h] \in {"in", "promoted"} => link[h[2]] = fd[h]

\* The lock file on disk is removed only by a process whose exclusive lock is on that very
\* file: an unlockfile() that lost its lock never removes the file of a later holder.
OnlyHolderUnlinks ==
    [][\A f \in Files : (link[f] # None /\ link'[f] = None)
          => \E p \in Procs : at[<<p, f>>] = "promoted" /\ fd[<<p, f>>] = link[f]]_lockVars

\* FileLock implements the lock of ReadersWriterLock.
heldNow == [h \in Handles |-> Held(h)]
Requirements == INSTANCE ReadersWriterLock WITH held <- heldNow
ImplementsLock == Requirements!Spec
=============================================================================
