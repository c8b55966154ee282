---------------------- MODULE MultiProcessCacheProofs ----------------------
(***************************************************************************)
(* What holds of the cache of the parser processes for any number of them: *)
(* it only uses lockfile and unlockfile, so it has the exclusion that      *)
(* FileLock proves; no file has two writers, the merge never meets a file  *)
(* that is being written, and nothing that was saved is lost.              *)
(***************************************************************************)
EXTENDS MultiProcessCache, FileLockProofs

CacheTyped ==
    /\ pc = [p \in Procs |-> pc[p]]
    /\ slot \in [Savers -> Slots]
    /\ extras \in [Slots -> {None, "empty", "torn"} \cup Savers]
    /\ saved \subseteq Savers

\* Savers share the lock of the cache and have that of a slot for themselves, as the server that
\* of the cache.
HowInv ==
    /\ \A p \in Savers : how[<<p, 0>>].shared
    /\ \A p \in Savers : \A i \in Slots : ~how[<<p, i>>].shared
    /\ ~how[<<Server, 0>>].shared

Saving  == {"tried", "free", "dump", "dumped", "unlock"}
Writing == {"free", "dump", "dumped"}
Merging == {"merge", "write"}

\* Which locks are held where.
HoldersInv ==
    /\ \A p \in Savers : pc[p] \in Saving => at[<<p, 0>>] = "in"
    /\ \A p \in Savers : pc[p] \in Writing => at[<<p, slot[p]>>] = "in"
    /\ pc[Server] \in Merging => at[<<Server, 0>>] = "in"

\* What a saver knows of its file.
SlotsInv ==
    \A p \in Savers :
       /\ pc[p] = "free" => extras[slot[p]] = None
       /\ pc[p] = "dump" => extras[slot[p]] = "empty"
       /\ pc[p] \in {"dumped", "unlock"} => extras[slot[p]] = p

\* What the server has in its memory.
DataInv ==
    /\ pc[Server] \in {"new", "load"} => cachedata = {}
    /\ pc[Server] \notin {"new", "load"} => cachefile \subseteq cachedata

CacheInv == LockInv /\ CacheTyped /\ HowInv /\ HoldersInv /\ SlotsInv /\ DataInv /\ SavedIsKept

-----------------------------------------------------------------------------
LEMMA SlotFacts ==
    /\ 0 \notin Slots /\ 0 \in Files
    /\ \A i \in Slots : i \in Files
    /\ Server \in Procs /\ Server \notin Savers
    /\ \A p \in Savers : p \in Procs /\ p # None /\ p # "empty" /\ p # "torn"
<1>1. 0 \notin 1 .. Cardinality(Slots)
  OBVIOUS
<1> QED  BY <1>1, CacheAssumption DEF CacheAssumption

LEMMA CallFacts == Shared \in Calls /\ Exclusive \in Calls /\ Once \in Calls
BY DEF Shared, Exclusive, Once, Calls

\* Two savers never have the same slot.
LEMMA WritersDiffer ==
    ASSUME LockInv, CacheTyped, HowInv, HoldersInv, NEW p \in Savers, NEW q \in Savers,
           p # q, pc[p] \in Writing, pc[q] \in Writing
    PROVE  slot[p] # slot[q]
<1> SUFFICES ASSUME slot[p] = slot[q] PROVE FALSE
  OBVIOUS
<1> DEFINE g == <<p, slot[p]>>
           h == <<q, slot[q]>>
<1>1. g \in Handles /\ h \in Handles /\ g # h /\ g[2] = h[2]
  BY SlotFacts DEF CacheTyped, Handles
<1>2. Held(g) = "EX" /\ Held(h) = "EX"
  BY DEF HoldersInv, HowInv, CacheTyped, Held, Mode
<1>3. LockExclusion
  BY InvExcludes
<1> HIDE DEF g, h
<1> QED  BY <1>1, <1>2, <1>3 DEF LockExclusion

\* While the server merges, no saver has the lock of the cache.
LEMMA NoSaverMerging ==
    ASSUME LockInv, HowInv, HoldersInv, pc[Server] \in Merging, NEW p \in Savers
    PROVE  pc[p] \notin Saving
<1> SUFFICES ASSUME pc[p] \in Saving PROVE FALSE
  OBVIOUS
<1> DEFINE g == <<Server, 0>>
           h == <<p, 0>>
<1>1. g \in Handles /\ h \in Handles /\ g # h /\ g[2] = h[2]
  BY SlotFacts DEF Handles
<1>2. Held(g) = "EX" /\ Held(h) = "SH"
  BY DEF HoldersInv, HowInv, Held, Mode
<1>3. LockExclusion
  BY InvExcludes
<1> HIDE DEF g, h
<1> QED  BY <1>1, <1>2, <1>3 DEF LockExclusion

-----------------------------------------------------------------------------
(* Every step of the cache is one of the locks, or leaves them alone.      *)

LEMMA CacheStepLocks ==
    ASSUME CacheTyped, [Next]_vars
    PROVE  [LockNext]_lockVars
<1> USE SlotFacts, CallFacts DEF CacheTyped, Handles
<1>1. ASSUME NEW p \in Savers, SaverStep(p) PROVE [LockNext]_lockVars
  <2>1. <<p, 0>> \in Handles /\ <<p, slot[p]>> \in Handles
    OBVIOUS
  <2> QED  BY <1>1, <2>1 DEF SaverStep, SaveExtras, TrySlot, NextSlot, FreeSlot, OpenExtras, DumpExtras, UnlockSlot,
              UnlockGlobal, Global, Slot, LockNext
<1>2. ASSUME NEW p \in Savers, KillSaver(p) PROVE [LockNext]_lockVars
  BY <1>2 DEF KillSaver, LockNext
<1>3. ASSUME NEW p \in Savers, NewParser(p) PROVE [LockNext]_lockVars
  BY <1>3 DEF NewParser
<1>4. CASE InitCache \/ SaveMerge \/ MergeStep
  <2>1. <<Server, 0>> \in Handles
    OBVIOUS
  <2> QED  BY <1>4, <2>1 DEF InitCache, SaveMerge, MergeStep, LoadCache, ListExtras, OpenCache, DumpCache, MergeExtras,
              MergeTorn, Global, LockNext
<1>5. CASE KillServer
  BY <1>5 DEF KillServer, LockNext
<1>6. ASSUME NEW p \in Procs, LockProgress(p) PROVE [LockNext]_lockVars
  BY <1>6 DEF LockProgress, LockNext
<1>7. CASE UNCHANGED vars
  BY <1>7 DEF vars
<1> QED  BY <1>1, <1>2, <1>3, <1>4, <1>5, <1>6, <1>7 DEF Next

LEMMA CacheInit == Init => CacheInv
<1> SUFFICES ASSUME Init PROVE CacheInv
  OBVIOUS
<1> USE SlotFacts DEF Init
<1>1. LockInv
  BY InitLockInv
<1>2. CacheTyped
  BY CacheAssumption DEF CacheTyped, CacheAssumption
<1>3. HowInv
  BY DEF HowInv, Handles, Shared, Exclusive, Once
<1>4. HoldersInv /\ SlotsInv /\ DataInv /\ SavedIsKept
  BY DEF HoldersInv, SlotsInv, DataInv, SavedIsKept, Saving, Writing, Merging
<1> QED  BY <1>1, <1>2, <1>3, <1>4 DEF CacheInv

-----------------------------------------------------------------------------
Rest == CacheTyped /\ HowInv /\ HoldersInv /\ SlotsInv /\ DataInv /\ SavedIsKept

\* The steps of a saver that call lockfile or unlockfile, and change no file.
LEMMA SaverLocks ==
    ASSUME CacheInv, NEW p \in Savers,
           SaveExtras(p) \/ TrySlot(p) \/ NextSlot(p) \/ UnlockSlot(p) \/ UnlockGlobal(p)
    PROVE  Rest'
<1> USE SlotFacts, CallFacts DEF CacheInv, Goto
<1>0. /\ LockTypeOK /\ \A q \in Procs, f \in Files : <<q, f>> \in Handles
      /\ \A q \in Savers : slot[q] \in Slots
  BY DEF LockInv, Handles, CacheTyped
<1>1. CASE SaveExtras(p)
  <2>1. Lockfile(<<p, 0>>, Shared)
    BY <1>1 DEF SaveExtras, Global
  <2>2. /\ \A g \in Handles : g # <<p, 0>> => at'[g] = at[g] /\ how'[g] = how[g]
        /\ how'[<<p, 0>>] = Shared
    BY <1>0, <2>1, OneHandle
  <2>3. CacheTyped'
    BY <1>1 DEF SaveExtras, CacheTyped
  <2>4. HowInv'
    BY <1>0, <2>2 DEF HowInv, Shared
  <2>5. HoldersInv'
    BY <1>0, <1>1, <2>2 DEF SaveExtras, HoldersInv, CacheTyped, Saving, Writing, Merging
  <2>6. SlotsInv' /\ DataInv' /\ SavedIsKept'
    BY <1>1 DEF SaveExtras, SlotsInv, DataInv, SavedIsKept, CacheTyped
  <2> QED  BY <2>3, <2>4, <2>5, <2>6 DEF Rest
<1>2. CASE TrySlot(p)
  <2>1. Lockfile(<<p, slot[p]>>, Once) /\ at[<<p, 0>>] = "in"
    BY <1>2 DEF TrySlot, Slot, Global
  <2>2. /\ \A g \in Handles : g # <<p, slot[p]>> => at'[g] = at[g] /\ how'[g] = how[g]
        /\ how'[<<p, slot[p]>>] = Once
    BY <1>0, <2>1, OneHandle
  <2>3. CacheTyped'
    BY <1>2 DEF TrySlot, CacheTyped
  <2>4. HowInv'
    BY <1>0, <2>2 DEF HowInv, Once
  <2>5. HoldersInv'
    BY <1>0, <1>2, <2>1, <2>2 DEF TrySlot, HoldersInv, CacheTyped, Saving, Writing, Merging
  <2>6. SlotsInv' /\ DataInv' /\ SavedIsKept'
    BY <1>2 DEF TrySlot, SlotsInv, DataInv, SavedIsKept, CacheTyped
  <2> QED  BY <2>3, <2>4, <2>5, <2>6 DEF Rest
<1>3. CASE NextSlot(p)
  <2>1. UNCHANGED lockVars \/ PromoteLock(<<p, slot[p]>>)
    BY <1>3 DEF NextSlot, Slot
  <2>2. how' = how /\ \A g \in Handles : g # <<p, slot[p]>> => at'[g] = at[g]
    BY <1>0, <2>1, OneHandle DEF lockVars, PromoteLock
  <2>3. CacheTyped'
    BY <1>3 DEF NextSlot, CacheTyped
  <2>4. HowInv'
    BY <2>2 DEF HowInv
  <2>5. HoldersInv'
    BY <1>0, <1>3, <2>2 DEF NextSlot, HoldersInv, CacheTyped, Saving, Writing, Merging
  <2>6. SlotsInv' /\ DataInv' /\ SavedIsKept'
    BY <1>3 DEF NextSlot, SlotsInv, DataInv, SavedIsKept, CacheTyped
  <2> QED  BY <2>3, <2>4, <2>5, <2>6 DEF Rest
<1>4. CASE UnlockSlot(p)
  <2>1. PromoteLock(<<p, slot[p]>>)
    BY <1>4 DEF UnlockSlot, Slot
  <2>2. how' = how /\ \A g \in Handles : g # <<p, slot[p]>> => at'[g] = at[g]
    BY <1>0, <2>1, OneHandle DEF PromoteLock
  <2>3. CacheTyped'
    BY <1>4 DEF UnlockSlot, CacheTyped
  <2>4. HowInv'
    BY <2>2 DEF HowInv
  <2>5. HoldersInv'
    BY <1>0, <1>4, <2>2 DEF UnlockSlot, HoldersInv, CacheTyped, Saving, Writing, Merging
  <2>6. SlotsInv' /\ DataInv' /\ SavedIsKept'
    BY <1>4 DEF UnlockSlot, SlotsInv, DataInv, SavedIsKept, CacheTyped
  <2> QED  BY <2>3, <2>4, <2>5, <2>6 DEF Rest
<1>5. CASE UnlockGlobal(p)
  <2>1. PromoteLock(<<p, 0>>)
    BY <1>5 DEF UnlockGlobal, Global
  <2>2. how' = how /\ \A g \in Handles : g # <<p, 0>> => at'[g] = at[g]
    BY <1>0, <2>1, OneHandle DEF PromoteLock
  <2>3. CacheTyped'
    BY <1>5 DEF UnlockGlobal, CacheTyped
  <2>4. HowInv'
    BY <2>2 DEF HowInv
  <2>5. HoldersInv'
    BY <1>0, <1>5, <2>2 DEF UnlockGlobal, HoldersInv, CacheTyped, Saving, Writing, Merging
  <2>6. SlotsInv' /\ DataInv'
    BY <1>5 DEF UnlockGlobal, SlotsInv, DataInv, CacheTyped
  <2>7. SavedIsKept'
    BY <1>0, <1>5 DEF UnlockGlobal, SlotsInv, SavedIsKept
  <2> QED  BY <2>3, <2>4, <2>5, <2>6, <2>7 DEF Rest
<1> QED  BY <1>1, <1>2, <1>3, <1>4, <1>5

\* The steps of a saver on its file.
LEMMA SaverFiles ==
    ASSUME CacheInv, NEW p \in Savers, FreeSlot(p) \/ OpenExtras(p) \/ DumpExtras(p)
    PROVE  Rest'
<1> USE SlotFacts DEF CacheInv, Goto
<1>0. /\ \A q \in Savers : slot[q] \in Slots
      /\ \A q \in Savers : q # p /\ pc[p] \in Writing /\ pc[q] \in Writing => slot[p] # slot[q]
  BY WritersDiffer DEF CacheTyped
<1>1. /\ at' = at /\ how' = how /\ slot' = slot /\ saved' = saved /\ cachefile' = cachefile
      /\ cachedata' = cachedata
  BY DEF FreeSlot, OpenExtras, DumpExtras, lockVars
<1>2. HowInv'
  BY <1>1 DEF HowInv
<1>3. CASE FreeSlot(p)
  <2>1. CacheTyped' /\ HoldersInv'
    BY <1>1, <1>3 DEF FreeSlot, CacheTyped, HoldersInv, Slot, Saving, Writing, Merging
  <2>2. SlotsInv' /\ DataInv' /\ SavedIsKept'
    BY <1>1, <1>3 DEF FreeSlot, SlotsInv, DataInv, SavedIsKept, CacheTyped
  <2> QED  BY <1>2, <2>1, <2>2 DEF Rest
<1>4. CASE OpenExtras(p)
  <2>1. CacheTyped' /\ HoldersInv'
    BY <1>0, <1>1, <1>4 DEF OpenExtras, CacheTyped, HoldersInv, Slot, Saving, Writing, Merging
  <2>2. SlotsInv'
    BY <1>0, <1>1, <1>4 DEF OpenExtras, SlotsInv, CacheTyped, Writing
  <2>3. DataInv' /\ SavedIsKept'
    BY <1>0, <1>1, <1>4 DEF OpenExtras, SlotsInv, DataInv, SavedIsKept, CacheTyped
  <2> QED  BY <1>2, <2>1, <2>2, <2>3 DEF Rest
<1>5. CASE DumpExtras(p)
  <2>1. CacheTyped' /\ HoldersInv'
    BY <1>0, <1>1, <1>5 DEF DumpExtras, CacheTyped, HoldersInv, Slot, Saving, Writing, Merging
  <2>2. SlotsInv'
    BY <1>0, <1>1, <1>5 DEF DumpExtras, SlotsInv, CacheTyped, Writing
  <2>3. DataInv' /\ SavedIsKept'
    BY <1>0, <1>1, <1>5 DEF DumpExtras, SlotsInv, DataInv, SavedIsKept, CacheTyped
  <2> QED  BY <1>2, <2>1, <2>2, <2>3 DEF Rest
<1> QED  BY <1>3, <1>4, <1>5

LEMMA SaverEnds ==
    ASSUME CacheInv, NEW p \in Savers, KillSaver(p) \/ NewParser(p)
    PROVE  Rest'
<1> USE SlotFacts DEF CacheInv, Goto
<1>0. /\ LockTypeOK /\ \A q \in Procs, f \in Files : <<q, f>> \in Handles
      /\ \A q \in Savers : slot[q] \in Slots
      /\ \A q \in Savers : q # p /\ pc[p] \in Writing /\ pc[q] \in Writing => slot[p] # slot[q]
  BY WritersDiffer DEF LockInv, Handles, CacheTyped
<1>1. CASE KillSaver(p)
  <2>1. how' = how /\ \A g \in Handles : g[1] # p => at'[g] = at[g]
    BY <1>0, <1>1, DeadHandles DEF KillSaver
  <2>2. \A i \in Slots : extras'[i] = extras[i] \/ (pc[p] = "dump" /\ i = slot[p] /\ extras'[i] \in {"empty", "torn"})
    BY <1>0, <1>1 DEF KillSaver, CacheTyped
  <2>3. CacheTyped'
    BY <1>0, <1>1 DEF KillSaver, CacheTyped
  <2>4. HowInv'
    BY <2>1 DEF HowInv
  <2>5. HoldersInv'
    BY <1>0, <1>1, <2>1 DEF KillSaver, HoldersInv, CacheTyped, Saving, Writing, Merging
  <2>6. SlotsInv'
    BY <1>0, <1>1, <2>2 DEF KillSaver, SlotsInv, CacheTyped, Writing
  <2>7. DataInv'
    BY <1>1 DEF KillSaver, DataInv, CacheTyped
  <2>8. SavedIsKept'
    BY <1>0, <1>1, <2>2 DEF KillSaver, SavedIsKept, SlotsInv, CacheTyped
  <2> QED  BY <2>3, <2>4, <2>5, <2>6, <2>7, <2>8 DEF Rest
<1>2. CASE NewParser(p)
  <2>1. CacheTyped'
    BY <1>2, CacheAssumption DEF NewParser, CacheTyped, CacheAssumption
  <2>2. HowInv' /\ HoldersInv'
    BY <1>2 DEF NewParser, HowInv, HoldersInv, CacheTyped, lockVars, Saving, Writing, Merging
  <2>3. SlotsInv' /\ DataInv' /\ SavedIsKept'
    BY <1>2 DEF NewParser, SlotsInv, DataInv, SavedIsKept, CacheTyped
  <2> QED  BY <2>1, <2>2, <2>3 DEF Rest
<1> QED  BY <1>1, <1>2

LEMMA ServerStarts ==
    ASSUME CacheInv, InitCache \/ LoadCache \/ SaveMerge \/ KillServer
    PROVE  Rest'
<1> USE SlotFacts, CallFacts DEF CacheInv, Goto
<1>0. LockTypeOK /\ \A q \in Procs, f \in Files : <<q, f>> \in Handles
  BY DEF LockInv, Handles
<1>1. CASE InitCache \/ SaveMerge
  <2>1. Lockfile(<<Server, 0>>, Exclusive)
    BY <1>1 DEF InitCache, SaveMerge, Global
  <2>2. /\ \A g \in Handles : g # <<Server, 0>> => at'[g] = at[g] /\ how'[g] = how[g]
        /\ how'[<<Server, 0>>] = Exclusive
    BY <1>0, <2>1, OneHandle
  <2>3. CacheTyped'
    BY <1>1 DEF InitCache, SaveMerge, CacheTyped
  <2>4. HowInv'
    BY <1>0, <2>2 DEF HowInv, Exclusive
  <2>5. HoldersInv'
    BY <1>0, <1>1, <2>2 DEF InitCache, SaveMerge, HoldersInv, CacheTyped, Merging
  <2>6. SlotsInv' /\ DataInv' /\ SavedIsKept'
    BY <1>1 DEF InitCache, SaveMerge, SlotsInv, DataInv, SavedIsKept, CacheTyped
  <2> QED  BY <2>3, <2>4, <2>5, <2>6 DEF Rest
<1>2. CASE LoadCache
  <2>1. PromoteLock(<<Server, 0>>)
    BY <1>2 DEF LoadCache, Global
  <2>2. how' = how /\ \A g \in Handles : g # <<Server, 0>> => at'[g] = at[g]
    BY <1>0, <2>1, OneHandle DEF PromoteLock
  <2>3. CacheTyped'
    BY <1>2 DEF LoadCache, CacheTyped
  <2>4. HowInv'
    BY <2>2 DEF HowInv
  <2>5. HoldersInv'
    BY <1>0, <1>2, <2>2 DEF LoadCache, HoldersInv, CacheTyped, Merging
  <2>6. SlotsInv' /\ DataInv' /\ SavedIsKept'
    BY <1>2 DEF LoadCache, SlotsInv, DataInv, SavedIsKept, CacheTyped
  <2> QED  BY <2>3, <2>4, <2>5, <2>6 DEF Rest
<1>3. CASE KillServer
  <2>1. how' = how /\ \A g \in Handles : g[1] # Server => at'[g] = at[g]
    BY <1>0, <1>3, DeadHandles DEF KillServer
  <2>2. CacheTyped' /\ HowInv'
    BY <1>3, <2>1 DEF KillServer, CacheTyped, HowInv
  <2>3. HoldersInv'
    BY <1>0, <1>3, <2>1 DEF KillServer, HoldersInv, CacheTyped, Merging
  <2>4. SlotsInv' /\ DataInv' /\ SavedIsKept'
    BY <1>3 DEF KillServer, SlotsInv, DataInv, SavedIsKept, CacheTyped
  <2> QED  BY <2>2, <2>3, <2>4 DEF Rest
<1> QED  BY <1>1, <1>2, <1>3

LEMMA ServerMerges ==
    ASSUME CacheInv, ListExtras \/ OpenCache \/ DumpCache \/ \E i \in Slots : MergeExtras(i) \/ MergeTorn(i)
    PROVE  Rest'
<1> USE SlotFacts, CallFacts DEF CacheInv, Goto
<1>0. LockTypeOK /\ \A q \in Procs, f \in Files : <<q, f>> \in Handles
  BY DEF LockInv, Handles
<1>1. CASE ListExtras \/ OpenCache
  <2>1. at' = at /\ how' = how
    BY <1>1 DEF ListExtras, OpenCache, lockVars
  <2>2. CacheTyped' /\ HowInv'
    BY <1>1, <2>1 DEF ListExtras, OpenCache, CacheTyped, HowInv
  <2>3. HoldersInv'
    BY <1>1, <2>1 DEF ListExtras, OpenCache, HoldersInv, CacheTyped, Merging, Global
  <2>4. SlotsInv' /\ DataInv'
    BY <1>1 DEF ListExtras, OpenCache, SlotsInv, DataInv, CacheTyped
  <2>5. SavedIsKept'
    BY <1>1 DEF ListExtras, OpenCache, DataInv, SavedIsKept
  <2> QED  BY <2>2, <2>3, <2>4, <2>5 DEF Rest
<1>2. CASE DumpCache \/ \E i \in Slots : MergeTorn(i)
  <2>1. PromoteLock(<<Server, 0>>) \/ LeaveLock(<<Server, 0>>)
    BY <1>2 DEF DumpCache, MergeTorn, Global
  <2>2. how' = how /\ \A g \in Handles : g # <<Server, 0>> => at'[g] = at[g]
    BY <1>0, <2>1, OneHandle DEF PromoteLock, LeaveLock
  <2>3. CacheTyped'
    BY <1>2 DEF DumpCache, MergeTorn, CacheTyped
  <2>4. HowInv'
    BY <2>2 DEF HowInv
  <2>5. HoldersInv'
    BY <1>0, <1>2, <2>2 DEF DumpCache, MergeTorn, HoldersInv, CacheTyped, Merging
  <2>6. SlotsInv'
    BY <1>2 DEF DumpCache, MergeTorn, SlotsInv, CacheTyped
  <2>7. DataInv' /\ SavedIsKept'
    BY <1>2 DEF DumpCache, MergeTorn, DataInv, SavedIsKept, CacheTyped
  <2> QED  BY <2>3, <2>4, <2>5, <2>6, <2>7 DEF Rest
<1>3. ASSUME NEW i \in Slots, MergeExtras(i) PROVE Rest'
  <2>1. at' = at /\ how' = how /\ pc' = pc
    BY <1>3 DEF MergeExtras, lockVars
  <2>2. \A q \in Savers : pc[q] \notin Saving
    BY <1>3, NoSaverMerging DEF MergeExtras, Merging
  <2>3. CacheTyped' /\ HowInv' /\ HoldersInv'
    BY <1>3, <2>1 DEF MergeExtras, CacheTyped, HowInv, HoldersInv
  <2>4. SlotsInv'
    BY <2>1, <2>2 DEF SlotsInv, Saving
  <2>5. DataInv'
    BY <1>3 DEF MergeExtras, DataInv
  <2>6. SavedIsKept'
    BY <1>3 DEF MergeExtras, SavedIsKept, CacheTyped
  <2> QED  BY <2>3, <2>4, <2>5, <2>6 DEF Rest
<1> QED  BY <1>1, <1>2, <1>3

LEMMA CacheNext == CacheInv /\ [Next]_vars => CacheInv'
<1> SUFFICES ASSUME CacheInv, [Next]_vars PROVE CacheInv'
  OBVIOUS
<1>1. LockInv'
  BY CacheStepLocks, NextLockInv DEF CacheInv
<1>2. ASSUME UNCHANGED cacheVars, how' = how, \A g \in Handles : Keeps(g) PROVE Rest'
  <2>1. HoldersInv'
    BY <1>2, SlotFacts DEF CacheInv, cacheVars, Keeps, Handles, HoldersInv, CacheTyped
  <2> QED  BY <1>2, <2>1 DEF CacheInv, cacheVars, Rest, CacheTyped, HowInv, SlotsInv, DataInv, SavedIsKept
<1>3. ASSUME NEW p \in Procs, LockProgress(p) PROVE Rest'
  <2>1. PICK f \in Files : LockStep(<<p, f>>) \/ UnlockStep(<<p, f>>)
    BY <1>3 DEF LockProgress
  <2> QED  BY <1>2, <1>3, <2>1, StepKeeps DEF CacheInv, LockInv, LockProgress, Handles
<1>4. ASSUME UNCHANGED vars PROVE Rest'
  BY <1>2, <1>4 DEF vars, lockVars, Keeps
<1>5. Rest'
  BY <1>3, <1>4, SaverLocks, SaverFiles, SaverEnds, ServerStarts, ServerMerges DEF Next, SaverStep, MergeStep
<1> QED  BY <1>1, <1>5 DEF CacheInv, Rest

-----------------------------------------------------------------------------
THEOREM CacheInvariant == Spec => []CacheInv
<1> QED  BY CacheInit, CacheNext, PTL DEF Spec

\* Every saver and the server stay in the places of the code, and the data are those of savers.
THEOREM CacheTypeCorrect == Spec => []CacheTypeOK
<1> USE SlotFacts
<1>1. Init => CacheTypeOK
  BY CacheInit, CacheAssumption
     DEF Init, CacheInv, LockInv, CacheTypeOK, CacheAssumption
<1>2. LockTypeOK' /\ CacheTypeOK /\ [Next]_vars => CacheTypeOK'
  <2> SUFFICES ASSUME LockTypeOK', CacheTypeOK, [Next]_vars PROVE CacheTypeOK'
    OBVIOUS
  <2> USE CacheAssumption DEF CacheTypeOK, CacheAssumption, Goto
  <2>1. ASSUME NEW p \in Savers, SaveExtras(p) \/ TrySlot(p) \/ NextSlot(p) \/ FreeSlot(p) PROVE CacheTypeOK'
    <3>1. CASE NextSlot(p)
      <4>1. slot' \in [Savers -> Slots] /\ UNCHANGED <<extras, cachefile, cachedata, todo, saved, restarts, merges>>
        BY <3>1 DEF NextSlot
      <4>2. pc' = [pc EXCEPT ![p] = "try"]
        BY <3>1 DEF NextSlot
      <4> QED  BY <4>1, <4>2
    <3>2. CASE SaveExtras(p) \/ TrySlot(p) \/ FreeSlot(p)
      BY <3>2 DEF SaveExtras, TrySlot, FreeSlot
    <3> QED  BY <2>1, <3>1, <3>2
  <2>2. ASSUME NEW p \in Savers, OpenExtras(p) \/ DumpExtras(p) \/ UnlockSlot(p) \/ UnlockGlobal(p)
        PROVE  CacheTypeOK'
    BY <2>2 DEF OpenExtras, DumpExtras, UnlockSlot, UnlockGlobal
  <2>3. ASSUME NEW p \in Savers, KillSaver(p) \/ NewParser(p) PROVE CacheTypeOK'
    <3>1. CASE NewParser(p)
      BY <3>1 DEF NewParser
    <3>2. CASE KillSaver(p)
      <4>1. extras' \in [Slots -> {None, "empty", "torn"} \cup Savers]
        BY <3>2 DEF KillSaver
      <4> QED  BY <3>2, <4>1 DEF KillSaver
    <3> QED  BY <2>3, <3>1, <3>2
  <2>4. CASE InitCache \/ LoadCache \/ SaveMerge \/ KillServer
    BY <2>4 DEF InitCache, LoadCache, SaveMerge, KillServer
  <2>5. CASE ListExtras \/ OpenCache \/ DumpCache
    BY <2>5 DEF ListExtras, OpenCache, DumpCache
  <2>6. ASSUME NEW i \in Slots, MergeExtras(i) \/ MergeTorn(i) PROVE CacheTypeOK'
    BY <2>6 DEF MergeExtras, MergeTorn
  <2>7. ASSUME NEW p \in Procs, LockProgress(p) PROVE CacheTypeOK'
    BY <2>7 DEF LockProgress, cacheVars
  <2>8. CASE UNCHANGED vars
    BY <2>8 DEF vars, cacheVars
  <2> QED  BY <2>1, <2>2, <2>3, <2>4, <2>5, <2>6, <2>7, <2>8 DEF Next, SaverStep, MergeStep
<1>3. CacheInv => LockTypeOK
  BY DEF CacheInv, LockInv
<1> QED  BY <1>1, <1>2, <1>3, CacheInvariant, PTL DEF Spec

\* The cache calls lockfile and unlockfile as they are meant to be called.
THEOREM CacheUsesLocks == Spec => LockSpec
<1>1. Init => LockInit
  BY DEF Init
<1>2. CacheInv /\ [Next]_vars => [LockNext]_lockVars
  BY CacheStepLocks DEF CacheInv
<1> QED  BY <1>1, <1>2, CacheInvariant, PTL DEF Spec, LockSpec

\* So its locks exclude, for any number of savers.
THEOREM CacheLocksExclude == Spec => []LockExclusion
<1> QED  BY CacheUsesLocks, LockExclusionTheorem, PTL

\* And a lock file is removed only by its holder.
THEOREM CacheLocksUnlinked == Spec => OnlyHolderUnlinks
<1> QED  BY CacheUsesLocks, OnlyHolderUnlinksTheorem, PTL

\* No file is written by two savers at a time.
THEOREM OneWriter == Spec => []OneWriterPerFile
<1>1. CacheInv => OneWriterPerFile
  BY WritersDiffer DEF CacheInv, OneWriterPerFile, Writing
<1> QED  BY <1>1, CacheInvariant, PTL

\* The merge never meets a file that is being written.
THEOREM MergeSeesWhole == Spec => []MergeSeesWholeFiles
<1>1. CacheInv => MergeSeesWholeFiles
  BY NoSaverMerging DEF CacheInv, MergeSeesWholeFiles, Merging, Saving
<1> QED  BY <1>1, CacheInvariant, PTL

\* Whatever parsers are terminated and whenever the server merges, what was saved is not lost.
THEOREM SavedKept == Spec => []SavedIsKept
<1>1. CacheInv => SavedIsKept
  BY DEF CacheInv
<1> QED  BY <1>1, CacheInvariant, PTL
=============================================================================
