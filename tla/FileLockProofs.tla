--------------------------- MODULE FileLockProofs ---------------------------
(***************************************************************************)
(* bb.utils.lockfile excludes, for any number of processes, names and      *)
(* inodes, although the lock file is removed by unlockfile: a flock is     *)
(* granted per inode, and a caller only keeps it while the inode is still  *)
(* the one of the name.                                                    *)
(***************************************************************************)
EXTENDS FileLock, TLAPS

\* flock(2) itself: locks of different handles on one file are compatible.
FlocksAgree ==
    \A g, h \in Handles :
       (g # h /\ g[2] = h[2] /\ fd[g] = fd[h] /\ flk[g] # "no" /\ flk[h] # "no")
          => (flk[g] = "SH" /\ flk[h] = "SH")

\* What a handle has open and locked at each place of lockfile() and unlockfile().
Place(h) ==
    /\ at[h] \in {"out", "open"} => fd[h] = None
    /\ at[h] \notin {"out", "open"} => fd[h] # None
    /\ at[h] \in {"out", "open", "opened"} => flk[h] = "no"
    /\ at[h] \in {"granted", "in"} => flk[h] = Mode(h)
    /\ at[h] = "promoted" => flk[h] = "EX"

PlacesAgree == \A h \in Handles : Place(h)

LockInv == LockTypeOK /\ FlocksAgree /\ PlacesAgree /\ HolderHasTheFile

-----------------------------------------------------------------------------
LEMMA HandleParts == \A h \in Handles : h[1] \in Procs /\ h[2] \in Files
  BY DEF Handles

\* A file that is created gets a number that no open file of the name has.
LEMMA NewInodeFree ==
    ASSUME NEW f \in Files, FreeInodes(f) # {}
    PROVE  NewInode(f) \in Inodes /\ NewInode(f) # None
<1>1. NewInode(f) \in FreeInodes(f)
  BY DEF NewInode
<1> QED  BY <1>1, InodesAssumption DEF FreeInodes

LEMMA InitLockInv == LockInit => LockInv
  BY HandleParts DEF LockInit, LockInv, LockTypeOK, FlocksAgree, PlacesAgree, Place, HolderHasTheFile, Places

\* A handle gives up its file and goes to a place without one.
LEMMA CloseLockInv ==
    ASSUME LockInv, NEW h \in Handles, NEW a \in {"out", "open"},
           CloseAt(h, a), UNCHANGED <<link, how>>
    PROVE  LockInv'
<1> USE DEF LockInv, CloseAt
<1>1. LockTypeOK'
  BY DEF LockTypeOK, Places
<1>2. FlocksAgree'
  BY DEF FlocksAgree, LockTypeOK
<1>3. PlacesAgree'
  BY DEF PlacesAgree, Place, LockTypeOK, Mode
<1>4. HolderHasTheFile'
  BY DEF HolderHasTheFile, LockTypeOK
<1> QED  BY <1>1, <1>2, <1>3, <1>4

LEMMA OpenLockInv ==
    ASSUME LockInv, NEW h \in Handles, OpenLock(h)
    PROVE  LockInv'
<1> USE DEF LockInv
<1> DEFINE f == h[2]
<1>0. f \in Files /\ (link[f] \in Inodes \cup {None})
  BY HandleParts DEF LockTypeOK
<1>1. PICK i \in Inodes :
        /\ i # None
        /\ fd' = [fd EXCEPT ![h] = i]
        /\ \/ link' = link
           \/ (link[f] = None /\ link' = [link EXCEPT ![f] = i])
  <2>1. CASE link[f] # None
    BY <1>0, <2>1 DEF OpenLock
  <2>2. CASE link[f] = None
    BY <1>0, <2>2, NewInodeFree DEF OpenLock
  <2> QED  BY <2>1, <2>2
<1>2. at[h] = "open" /\ at' = [at EXCEPT ![h] = "opened"] /\ how' = how /\ flk' = flk
  BY DEF OpenLock
<1>3. LockTypeOK'
  BY <1>0, <1>1, <1>2 DEF LockTypeOK, Places
<1>4. FlocksAgree'
  <2>1. flk[h] = "no"
    BY <1>2 DEF PlacesAgree, Place
  <2>2. \A g \in Handles : flk'[g] # "no" => fd'[g] = fd[g]
    BY <1>1, <1>2, <2>1 DEF LockTypeOK
  <2> QED  BY <1>2, <2>2 DEF FlocksAgree
<1>5. PlacesAgree'
  <2>1. Place(h)'
    BY <1>1, <1>2 DEF PlacesAgree, Place, LockTypeOK, Mode
  <2>2. \A g \in Handles : g # h => Place(g)'
    BY <1>1, <1>2 DEF PlacesAgree, Place, LockTypeOK, Mode
  <2> QED  BY <2>1, <2>2 DEF PlacesAgree
<1>6. HolderHasTheFile'
  <2> SUFFICES ASSUME NEW g \in Handles, at'[g] \in {"in", "promoted"}
               PROVE  link'[g[2]] = fd'[g]
    BY DEF HolderHasTheFile
  <2>1. g # h /\ at[g] \in {"in", "promoted"} /\ fd'[g] = fd[g]
    BY <1>1, <1>2 DEF LockTypeOK
  <2>2. link[g[2]] = fd[g] /\ fd[g] # None /\ g[2] \in Files
    BY <2>1, HandleParts DEF HolderHasTheFile, PlacesAgree, Place
  <2> QED  BY <1>0, <1>1, <2>1, <2>2 DEF LockTypeOK
<1> QED  BY <1>3, <1>4, <1>5, <1>6

LEMMA GrantLockInv ==
    ASSUME LockInv, NEW h \in Handles, GrantLock(h)
    PROVE  LockInv'
<1> USE DEF LockInv
<1>1. Mode(h) \in {"SH", "EX"} /\ Mode(h)' = Mode(h)
  BY DEF Mode, GrantLock
<1>2. LockTypeOK'
  BY <1>1 DEF LockTypeOK, Places, GrantLock
<1>3. FlocksAgree'
  <2>1. \A g \in Handles : (g # h /\ g[2] = h[2] /\ fd[g] = fd[h] /\ flk[g] # "no")
                              => (Mode(h) = "SH" /\ flk[g] = "SH")
    BY <1>1 DEF GrantLock, Conflict, LockTypeOK
  <2> QED  BY <1>1, <2>1 DEF FlocksAgree, GrantLock, LockTypeOK
<1>4. PlacesAgree'
  <2>1. Place(h)'
    BY <1>1 DEF PlacesAgree, Place, LockTypeOK, GrantLock
  <2>2. \A g \in Handles : g # h => Place(g)'
    BY DEF PlacesAgree, Place, LockTypeOK, GrantLock, Mode
  <2> QED  BY <2>1, <2>2 DEF PlacesAgree
<1>5. HolderHasTheFile'
  BY DEF HolderHasTheFile, LockTypeOK, GrantLock
<1> QED  BY <1>2, <1>3, <1>4, <1>5

LEMMA PromoteLockInv ==
    ASSUME LockInv, NEW h \in Handles, PromoteLock(h)
    PROVE  LockInv'
<1> USE DEF LockInv
<1>0. at[h] = "in" /\ link' = link /\ how' = how /\ fd' = fd
  BY DEF PromoteLock
<1>1. CASE ~Conflict(h, "EX") /\ flk' = [flk EXCEPT ![h] = "EX"] /\ at' = [at EXCEPT ![h] = "promoted"]
  <2>1. LockTypeOK'
    BY <1>0, <1>1 DEF LockTypeOK, Places
  <2>2. FlocksAgree'
    BY <1>0, <1>1 DEF FlocksAgree, LockTypeOK, Conflict
  <2>3. PlacesAgree'
    BY <1>0, <1>1 DEF PlacesAgree, Place, LockTypeOK, Mode
  <2>4. HolderHasTheFile'
    BY <1>0, <1>1 DEF HolderHasTheFile, LockTypeOK
  <2> QED  BY <2>1, <2>2, <2>3, <2>4
<1>2. CASE flk' = [flk EXCEPT ![h] = "no"] /\ at' = [at EXCEPT ![h] = "closing"]
  <2>1. LockTypeOK'
    BY <1>0, <1>2 DEF LockTypeOK, Places
  <2>2. FlocksAgree'
    BY <1>0, <1>2 DEF FlocksAgree, LockTypeOK
  <2>3. PlacesAgree'
    BY <1>0, <1>2 DEF PlacesAgree, Place, LockTypeOK, Mode
  <2>4. HolderHasTheFile'
    BY <1>0, <1>2 DEF HolderHasTheFile, LockTypeOK
  <2> QED  BY <2>1, <2>2, <2>3, <2>4
<1> QED  BY <1>1, <1>2 DEF PromoteLock

\* The heart of the matter: whoever removes the file is the only one who holds it.
LEMMA UnlinkLockInv ==
    ASSUME LockInv, NEW h \in Handles, UnlinkLock(h)
    PROVE  LockInv'
<1> USE DEF LockInv
<1>0. /\ at[h] = "promoted" /\ how' = how /\ fd' = fd /\ flk' = flk
      /\ link' = [link EXCEPT ![h[2]] = None] /\ at' = [at EXCEPT ![h] = "closing"]
      /\ h[2] \in Files
  BY HandleParts DEF UnlinkLock
<1>1. LockTypeOK'
  BY <1>0 DEF LockTypeOK, Places
<1>2. FlocksAgree'
  BY <1>0 DEF FlocksAgree
<1>3. PlacesAgree'
  BY <1>0 DEF PlacesAgree, Place, LockTypeOK, Mode
<1>4. HolderHasTheFile'
  <2> SUFFICES ASSUME NEW g \in Handles, at'[g] \in {"in", "promoted"}
               PROVE  link'[g[2]] = fd'[g]
    BY DEF HolderHasTheFile
  <2>1. g # h /\ at[g] \in {"in", "promoted"} /\ link[g[2]] = fd[g]
    BY <1>0 DEF LockTypeOK, HolderHasTheFile
  <2>2. flk[g] # "no"
    BY <2>1 DEF PlacesAgree, Place, Mode
  <2>3. flk[h] = "EX" /\ link[h[2]] = fd[h]
    BY <1>0 DEF PlacesAgree, Place, HolderHasTheFile
  <2>4. g[2] # h[2]
    BY <2>1, <2>2, <2>3 DEF FlocksAgree
  <2> QED  BY <1>0, <2>1, <2>4 DEF LockTypeOK
<1> QED  BY <1>1, <1>2, <1>3, <1>4

LEMMA LoseLocksInv ==
    ASSUME LockInv, NEW p \in Procs, LoseLocks(p)
    PROVE  LockInv'
<1> USE DEF LockInv, LoseLocks
<1>1. LockTypeOK'
  BY DEF LockTypeOK, Places
<1>2. FlocksAgree'
  BY DEF FlocksAgree, LockTypeOK
<1>3. PlacesAgree'
  BY DEF PlacesAgree, Place, LockTypeOK, Mode
<1>4. HolderHasTheFile'
  BY DEF HolderHasTheFile, LockTypeOK
<1> QED  BY <1>1, <1>2, <1>3, <1>4

LEMMA NextLockInv == LockInv /\ [LockNext]_lockVars => LockInv'
<1> SUFFICES ASSUME LockInv, [LockNext]_lockVars
             PROVE  LockInv'
  OBVIOUS
<1> USE DEF LockInv
<1>1. ASSUME NEW h \in Handles, NEW c \in Calls, Lockfile(h, c)
      PROVE  LockInv'
  <2>1. LockTypeOK'
    BY <1>1 DEF LockTypeOK, Places, Lockfile
  <2>2. FlocksAgree'
    BY <1>1 DEF FlocksAgree, Lockfile
  <2>3. PlacesAgree'
    BY <1>1 DEF PlacesAgree, Place, LockTypeOK, Mode, Lockfile
  <2>4. HolderHasTheFile'
    BY <1>1 DEF HolderHasTheFile, LockTypeOK, Lockfile
  <2> QED  BY <2>1, <2>2, <2>3, <2>4
<1>2. ASSUME NEW h \in Handles, OpenLock(h)
      PROVE  LockInv'
  BY <1>2, OpenLockInv
<1>3. ASSUME NEW h \in Handles, GrantLock(h)
      PROVE  LockInv'
  BY <1>3, GrantLockInv
<1>4. ASSUME NEW h \in Handles, RefuseLock(h)
      PROVE  LockInv'
  BY <1>4, CloseLockInv DEF RefuseLock
<1>5. ASSUME NEW h \in Handles, KeepLock(h)
      PROVE  LockInv'
  <2>1. LockTypeOK'
    BY <1>5 DEF LockTypeOK, Places, KeepLock
  <2>2. FlocksAgree'
    BY <1>5 DEF FlocksAgree, KeepLock
  <2>3. PlacesAgree'
    BY <1>5 DEF PlacesAgree, Place, LockTypeOK, Mode, KeepLock
  <2>4. HolderHasTheFile'
    BY <1>5 DEF HolderHasTheFile, LockTypeOK, KeepLock
  <2> QED  BY <2>1, <2>2, <2>3, <2>4
<1>6. ASSUME NEW h \in Handles, DropLock(h)
      PROVE  LockInv'
  BY <1>6, CloseLockInv DEF DropLock
<1>7. ASSUME NEW h \in Handles, PromoteLock(h)
      PROVE  LockInv'
  BY <1>7, PromoteLockInv
<1>8. ASSUME NEW h \in Handles, UnlinkLock(h)
      PROVE  LockInv'
  BY <1>8, UnlinkLockInv
<1>9. ASSUME NEW h \in Handles, CloseLock(h) \/ LeaveLock(h)
      PROVE  LockInv'
  BY <1>9, CloseLockInv DEF CloseLock, LeaveLock
<1>10. ASSUME NEW p \in Procs, LoseLocks(p)
       PROVE  LockInv'
  BY <1>10, LoseLocksInv
<1>11. CASE UNCHANGED lockVars
  BY <1>11 DEF lockVars, LockTypeOK, FlocksAgree, PlacesAgree, Place, Mode, HolderHasTheFile
<1> QED
  BY <1>1, <1>2, <1>3, <1>4, <1>5, <1>6, <1>7, <1>8, <1>9, <1>10, <1>11
  DEF LockNext, LockStep, UnlockStep

\* Holders that exclude each other would have incompatible flocks on one file.
LEMMA InvExcludes == LockInv => LockExclusion
<1> SUFFICES ASSUME LockInv, NEW g \in Handles, NEW h \in Handles, g # h, g[2] = h[2],
                    Held(g) # "no", Held(h) # "no"
             PROVE  Held(g) = "SH" /\ Held(h) = "SH"
  BY DEF LockExclusion
<1> USE DEF LockInv
<1>1. at[g] \in {"in", "promoted"} /\ at[h] \in {"in", "promoted"}
  BY DEF Held
<1>2. fd[g] = fd[h]
  BY <1>1 DEF HolderHasTheFile
<1>3. flk[g] # "no" /\ flk[h] # "no"
  BY <1>1 DEF PlacesAgree, Place, Mode
<1>4. flk[g] = "SH" /\ flk[h] = "SH"
  BY <1>2, <1>3 DEF FlocksAgree
<1> QED  BY <1>1, <1>4 DEF PlacesAgree, Place, Mode, Held

-----------------------------------------------------------------------------
(* What the steps of the locks leave alone, for the modules that use them. *)

Keeps(g) == at[g] = "in" => at'[g] = "in"

\* lockfile() and unlockfile() under way take no lock away.
LEMMA StepKeeps ==
    ASSUME LockTypeOK, NEW h \in Handles, LockStep(h) \/ UnlockStep(h)
    PROVE  how' = how /\ \A g \in Handles : Keeps(g)
BY DEF LockStep, UnlockStep, OpenLock, GrantLock, RefuseLock, KeepLock, DropLock, UnlinkLock, CloseLock, CloseAt,
       LockTypeOK, Keeps

\* A call concerns one handle.
LEMMA OneHandle ==
    ASSUME LockTypeOK, NEW h \in Handles, NEW c \in Calls, Lockfile(h, c) \/ PromoteLock(h) \/ LeaveLock(h)
    PROVE  /\ \A g \in Handles : g # h => at'[g] = at[g] /\ how'[g] = how[g]
           /\ Lockfile(h, c) => how'[h] = c
           /\ ~Lockfile(h, c) => how' = how
BY DEF Lockfile, PromoteLock, LeaveLock, CloseAt, LockTypeOK

\* A process that ends gives up only its own locks.
LEMMA DeadHandles ==
    ASSUME LockTypeOK, NEW p \in Procs, LoseLocks(p)
    PROVE  how' = how /\ \A g \in Handles : g[1] # p => at'[g] = at[g]
BY DEF LoseLocks

-----------------------------------------------------------------------------
THEOREM LockInvariance == LockSpec => []LockInv
<1> QED  BY InitLockInv, NextLockInv, PTL DEF LockSpec

\* Two callers of lockfile() hold a name together only if both share it.
THEOREM LockExclusionTheorem == LockSpec => []LockExclusion
<1> QED  BY LockInvariance, InvExcludes, PTL

\* A caller that holds a name has the file that is on disk.
THEOREM HolderHasTheFileTheorem == LockSpec => []HolderHasTheFile
<1>1. LockInv => HolderHasTheFile
  BY DEF LockInv
<1> QED  BY LockInvariance, <1>1, PTL

\* Only the exclusive holder of the file on disk removes it.
THEOREM OnlyHolderUnlinksTheorem == LockSpec => OnlyHolderUnlinks
<1> DEFINE Removal ==
      \A f \in Files : (link[f] # None /\ link'[f] = None)
         => \E p \in Procs : at[<<p, f>>] = "promoted" /\ fd[<<p, f>>] = link[f]
<1>1. LockInv /\ [LockNext]_lockVars => [Removal]_lockVars
  <2> SUFFICES ASSUME LockInv, LockNext, NEW f \in Files, link[f] # None, link'[f] = None
               PROVE  \E p \in Procs : at[<<p, f>>] = "promoted" /\ fd[<<p, f>>] = link[f]
    OBVIOUS
  <2> USE DEF LockInv
  <2>1. ASSUME NEW h \in Handles, UnlinkLock(h)
        PROVE  \E p \in Procs : at[<<p, f>>] = "promoted" /\ fd[<<p, f>>] = link[f]
    <3>1. h[2] = f
      BY <2>1, HandleParts DEF UnlinkLock, LockTypeOK
    <3>2. h = <<h[1], f>> /\ h[1] \in Procs
      BY <3>1 DEF Handles
    <3>3. at[h] = "promoted" /\ fd[h] = link[f]
      BY <2>1, <3>1 DEF UnlinkLock, HolderHasTheFile
    <3> QED  BY <3>2, <3>3
  <2>2. ASSUME NEW h \in Handles, OpenLock(h)
        PROVE  FALSE
    <3>1. CASE link' = link
      BY <3>1
    <3>2. CASE link[h[2]] = None /\ FreeInodes(h[2]) # {} /\ link' = [link EXCEPT ![h[2]] = NewInode(h[2])]
      BY <3>2, HandleParts, NewInodeFree DEF LockTypeOK
    <3> QED  BY <2>2, <3>1, <3>2 DEF OpenLock
  <2>3. link' # link
    OBVIOUS
  <2>4. ASSUME NEW h \in Handles, NEW c \in Calls, Lockfile(h, c)
        PROVE  FALSE
    BY <2>3, <2>4 DEF Lockfile
  <2>5. ASSUME NEW h \in Handles,
               GrantLock(h) \/ RefuseLock(h) \/ KeepLock(h) \/ DropLock(h) \/ PromoteLock(h)
                  \/ CloseLock(h) \/ LeaveLock(h)
        PROVE  FALSE
    BY <2>3, <2>5 DEF GrantLock, RefuseLock, KeepLock, DropLock, PromoteLock, CloseLock, LeaveLock
  <2>6. ASSUME NEW p \in Procs, LoseLocks(p)
        PROVE  FALSE
    BY <2>3, <2>6 DEF LoseLocks
  <2> QED  BY <2>1, <2>2, <2>4, <2>5, <2>6 DEF LockNext, LockStep, UnlockStep
<1> QED  BY LockInvariance, <1>1, PTL DEF LockSpec, OnlyHolderUnlinks

-----------------------------------------------------------------------------
(* The refinement: what the callers hold behaves as the lock of            *)
(* ReadersWriterLock.                                                      *)

LEMMA InitRefines == LockInit => Requirements!Init
  BY DEF LockInit, Requirements!Init, Requirements!Handles, Handles, heldNow, Held

\* A step that neither enters nor leaves the places of a holder is not seen by the callers.
LEMMA UnseenStep ==
    ASSUME NEW h \in Handles, how' = how, LockTypeOK,
           \E a \in Places : at' = [at EXCEPT ![h] = a]
                             /\ (at[h] \in {"in", "promoted"} <=> a \in {"in", "promoted"})
    PROVE  heldNow' = heldNow
  BY DEF heldNow, Held, Mode, LockTypeOK

\* A holder that leaves releases.
LEMMA LeavingStep ==
    ASSUME NEW h \in Handles, how' = how, LockTypeOK, at[h] \in {"in", "promoted"},
           \E a \in {"out", "closing"} : at' = [at EXCEPT ![h] = a]
    PROVE  Requirements!Release(h)
<1>1. Held(h) \in {"SH", "EX"}
  BY DEF Held, Mode
<1>2. heldNow[h] # "no"
  BY <1>1 DEF heldNow
<1>3. heldNow' = [heldNow EXCEPT ![h] = "no"]
  BY DEF heldNow, Held, Mode, LockTypeOK
<1> QED  BY <1>2, <1>3 DEF Requirements!Release

\* lockfile() returns: the holders there are allow one more.
LEMMA KeepingStep ==
    ASSUME NEW h \in Handles, LockInv, LockInv', KeepLock(h)
    PROVE  Requirements!Acquire(h, Mode(h))
<1> USE DEF LockInv
<1>1. at[h] = "granted" /\ at' = [at EXCEPT ![h] = "in"] /\ how' = how
  BY DEF KeepLock
<1>2. heldNow[h] = "no"
  BY <1>1 DEF heldNow, Held
<1>3. heldNow' = [heldNow EXCEPT ![h] = Mode(h)]
  BY <1>1 DEF heldNow, Held, Mode, LockTypeOK
<1>4. ASSUME NEW g \in Handles \ {h}, g[2] = h[2], heldNow[g] # "no"
      PROVE  Mode(h) = "SH" /\ heldNow[g] = "SH"
  <2>1. LockExclusion'
    BY InvExcludes, PTL
  <2>2. Held(g)' = Held(g) /\ Held(h)' = Mode(h) /\ Held(g) = heldNow[g]
    BY <1>1, <1>4 DEF Held, Mode, LockTypeOK, heldNow
  <2>3. Mode(h) # "no"
    BY DEF Mode
  <2> QED  BY <1>4, <2>1, <2>2, <2>3 DEF LockExclusion
<1> QED  BY <1>2, <1>3, <1>4 DEF Requirements!Acquire, Requirements!Handles, Handles

LEMMA StepRefines ==
    LockInv /\ LockInv' /\ [LockNext]_lockVars => [Requirements!Next]_heldNow
<1> SUFFICES ASSUME LockInv, LockInv', [LockNext]_lockVars
             PROVE  Requirements!Next \/ heldNow' = heldNow
  OBVIOUS
<1> USE DEF LockInv
<1>1. ASSUME NEW h \in Handles, NEW c \in Calls, Lockfile(h, c)
      PROVE  heldNow' = heldNow
  BY <1>1 DEF Lockfile, heldNow, Held, Mode, LockTypeOK
<1>2. ASSUME NEW h \in Handles,
             OpenLock(h) \/ GrantLock(h) \/ RefuseLock(h) \/ DropLock(h) \/ CloseLock(h)
      PROVE  heldNow' = heldNow
  <2>1. CASE OpenLock(h)
    BY <2>1, UnseenStep DEF OpenLock, Places
  <2>2. CASE GrantLock(h)
    BY <2>2, UnseenStep DEF GrantLock, Places
  <2>3. CASE RefuseLock(h)
    BY <2>3, UnseenStep DEF RefuseLock, CloseAt, Places
  <2>4. CASE DropLock(h)
    BY <2>4, UnseenStep DEF DropLock, CloseAt, Places
  <2>5. CASE CloseLock(h)
    BY <2>5, UnseenStep DEF CloseLock, CloseAt, Places
  <2> QED  BY <1>2, <2>1, <2>2, <2>3, <2>4, <2>5
<1>3. ASSUME NEW h \in Handles, KeepLock(h)
      PROVE  Requirements!Next
  <2>1. Requirements!Acquire(h, Mode(h)) /\ Mode(h) \in {"SH", "EX"}
    BY <1>3, KeepingStep DEF Mode
  <2> QED  BY <2>1 DEF Requirements!Next, Requirements!Handles, Handles
<1>4. ASSUME NEW h \in Handles, PromoteLock(h)
      PROVE  Requirements!Release(h) \/ heldNow' = heldNow
  <2>1. CASE at' = [at EXCEPT ![h] = "promoted"]
    BY <1>4, <2>1, UnseenStep DEF PromoteLock, Places
  <2>2. CASE at' = [at EXCEPT ![h] = "closing"]
    BY <1>4, <2>2, LeavingStep DEF PromoteLock
  <2> QED  BY <1>4, <2>1, <2>2 DEF PromoteLock
<1>5. ASSUME NEW h \in Handles, UnlinkLock(h) \/ LeaveLock(h)
      PROVE  Requirements!Release(h)
  BY <1>5, LeavingStep DEF UnlinkLock, LeaveLock, CloseAt
<1>6. ASSUME NEW h \in Handles, Requirements!Release(h)
      PROVE  Requirements!Next
  BY <1>6 DEF Requirements!Next, Requirements!Handles, Handles
<1>7. ASSUME NEW p \in Procs, LoseLocks(p)
      PROVE  Requirements!Next
  <2>1. Requirements!Die(p)
    BY <1>7 DEF LoseLocks, Requirements!Die, Requirements!Handles, Handles, heldNow, Held, Mode
  <2> QED  BY <2>1 DEF Requirements!Next
<1>8. CASE UNCHANGED lockVars
  BY <1>8 DEF lockVars, heldNow, Held, Mode
<1> QED
  BY <1>1, <1>2, <1>3, <1>4, <1>5, <1>6, <1>7, <1>8 DEF LockNext, LockStep, UnlockStep

\* lockfile() and unlockfile() implement the reader-writer lock their callers rely on.
THEOREM LockRefinement == LockSpec => ImplementsLock
<1> QED
  BY InitRefines, StepRefines, LockInvariance, PTL
  DEF LockSpec, ImplementsLock, Requirements!Spec
=============================================================================
