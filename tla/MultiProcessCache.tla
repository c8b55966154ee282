------------------------- MODULE MultiProcessCache -------------------------
(***************************************************************************)
(* bb.cache.MultiProcessCache, the cache of parsed code and of checksums:  *)
(* the parser processes leave what they found in files of their own        *)
(* (save_extras), the server collects them (save_merge) and reads the      *)
(* result when it starts (init_cache).  The locks are those of FileLock:   *)
(* name 0 is <cachefile>.lock, shared by the savers; the name i > 0 is     *)
(* <cachefile>.lock.<i> and goes with the file <cachefile>-<i>.            *)
(*                                                                         *)
(* An operator named Action_Change is a faulty variant of Action, used to  *)
(* test that the properties can tell it from the code; no action uses it.  *)
(***************************************************************************)
EXTENDS FileLock

CONSTANTS Savers,        \* parser processes
          Server,        \* the process that merges
          Slots,         \* 1 .. the largest slot number (a bound)
          Pid,           \* the slot each saver tries first
          MaxRestarts,   \* how many processes there are after the first ones (a bound)
          MaxMerges,     \* how often the server merges (a bound)
          SaverMayDie,   \* CookerParser.shutdown(force=True) terminates a parser
          ServerMayDie

ASSUME CacheAssumption ==
    /\ Procs = Savers \cup {Server} /\ Server \notin Savers
    /\ Slots = 1 .. Cardinality(Slots) /\ Files = Slots \cup {0}
    /\ Pid \in [Savers -> Slots]
    /\ Savers \cap {None, "empty", "torn"} = {}
    /\ MaxRestarts \in Nat /\ MaxMerges \in Nat

VARIABLES pc,            \* how far save_extras, save_merge or init_cache got
          slot,          \* i in save_extras
          extras,        \* <cachefile>-<i>: None, "empty", "torn" or the saver whose data it holds
          cachefile,     \* the savers whose data can be read from the cache file
          cachedata,     \* the server's cachedata, as the savers whose data it holds
          todo,          \* the slots save_merge has listed and not yet looked at
          saved,         \* the savers whose save_extras returned (history)
          restarts,      \* processes started after the first ones
          merges         \* merges begun

cacheVars == <<pc, slot, extras, cachefile, cachedata, todo, saved, restarts, merges>>
vars == <<lockVars, cacheVars>>

Global(p) == <<p, 0>>
Slot(p) == <<p, slot[p]>>

Shared    == [shared |-> TRUE,  retry |-> TRUE,  block |-> FALSE]
Exclusive == [shared |-> FALSE, retry |-> TRUE,  block |-> FALSE]
Once      == [shared |-> FALSE, retry |-> FALSE, block |-> FALSE]

Goto(p, l) == pc' = [pc EXCEPT ![p] = l]

Init ==
    /\ how = [h \in Handles |-> IF h[2] # 0 THEN Once
                                ELSE IF h[1] = Server THEN Exclusive ELSE Shared]
    /\ LockInit
    /\ pc = [p \in Procs |-> IF p = Server THEN "new" ELSE "parse"]
    /\ slot = Pid
    /\ extras = [i \in Slots |-> None]
    /\ cachefile = {}
    /\ cachedata = {}
    /\ todo = {}
    /\ saved = {}
    /\ restarts = 0
    /\ merges = 0

\* lockfile() and unlockfile() go on.
LockProgress(p) ==
    /\ \E f \in Files : LockStep(<<p, f>>) \/ UnlockStep(<<p, f>>)
    /\ UNCHANGED cacheVars

-----------------------------------------------------------------------------
(* save_extras of a parser process.                                        *)

SaveExtras(p) ==
    /\ pc[p] = "parse"
    /\ Lockfile(Global(p), Shared)
    /\ Goto(p, "try")
    /\ UNCHANGED <<slot, extras, cachefile, cachedata, todo, saved, restarts, merges>>

TrySlot(p) ==
    /\ pc[p] = "try"
    /\ at[Global(p)] = "in" /\ \A i \in Slots : at[<<p, i>>] = "out"
    /\ Lockfile(Slot(p), Once)
    /\ Goto(p, "tried")
    /\ UNCHANGED <<slot, extras, cachefile, cachedata, todo, saved, restarts, merges>>

\* The slot is busy, or the file is there from an earlier process of that number.
NextSlot(p) ==
    /\ pc[p] = "tried"
    /\ slot[p] + 1 \in Slots
    /\ \/ at[Slot(p)] = "out" /\ UNCHANGED lockVars
       \/ at[Slot(p)] = "in" /\ extras[slot[p]] # None /\ PromoteLock(Slot(p))
    /\ slot' = [slot EXCEPT ![p] = @ + 1]
    /\ Goto(p, "try")
    /\ UNCHANGED <<extras, cachefile, cachedata, todo, saved, restarts, merges>>

FreeSlot_Unlocked(p) ==
    /\ pc[p] = "tried"
    /\ at[Slot(p)] \in {"in", "out"} /\ extras[slot[p]] = None
    /\ Goto(p, "free")
    /\ UNCHANGED <<lockVars, slot, extras, cachefile, cachedata, todo, saved, restarts, merges>>

\* The slot is locked and os.path.exists finds no file.
FreeSlot(p) ==
    /\ pc[p] = "tried"
    /\ at[Slot(p)] = "in" /\ extras[slot[p]] = None
    /\ Goto(p, "free")
    /\ UNCHANGED <<lockVars, slot, extras, cachefile, cachedata, todo, saved, restarts, merges>>

OpenExtras(p) ==
    /\ pc[p] = "free"
    /\ extras' = [extras EXCEPT ![slot[p]] = "empty"]
    /\ Goto(p, "dump")
    /\ UNCHANGED <<lockVars, slot, cachefile, cachedata, todo, saved, restarts, merges>>

DumpExtras(p) ==
    /\ pc[p] = "dump"
    /\ extras' = [extras EXCEPT ![slot[p]] = p]
    /\ Goto(p, "dumped")
    /\ UNCHANGED <<lockVars, slot, cachefile, cachedata, todo, saved, restarts, merges>>

\* unlockfile(lf), then unlockfile(glf) once the first has returned.
UnlockSlot(p) ==
    /\ pc[p] = "dumped"
    /\ PromoteLock(Slot(p))
    /\ Goto(p, "unlock")
    /\ UNCHANGED <<slot, extras, cachefile, cachedata, todo, saved, restarts, merges>>

UnlockGlobal(p) ==
    /\ pc[p] = "unlock"
    /\ \A i \in Slots : at[<<p, i>>] = "out"
    /\ PromoteLock(Global(p))
    /\ Goto(p, "saved")
    /\ saved' = saved \cup {p}
    /\ UNCHANGED <<slot, extras, cachefile, cachedata, todo, restarts, merges>>

\* A parser that is terminated while it writes leaves a part of the file.
KillSaver(p) ==
    /\ SaverMayDie
    /\ pc[p] \notin {"parse", "saved", "dead"}
    /\ LoseLocks(p)
    /\ \/ pc[p] = "dump" /\ \E c \in {"empty", "torn"} : extras' = [extras EXCEPT ![slot[p]] = c]
       \/ pc[p] # "dump" /\ UNCHANGED extras
    /\ Goto(p, "dead")
    /\ UNCHANGED <<slot, cachefile, cachedata, todo, saved, restarts, merges>>

\* The next parse has a new process, whose number may be one used before.
NewParser(p) ==
    /\ pc[p] \in {"saved", "dead"} /\ at[Global(p)] = "out"
    /\ restarts < MaxRestarts
    /\ restarts' = restarts + 1
    /\ slot' = [slot EXCEPT ![p] = Pid[p]]
    /\ Goto(p, "parse")
    /\ UNCHANGED <<lockVars, extras, cachefile, cachedata, todo, saved, merges>>

-----------------------------------------------------------------------------
(* init_cache and save_merge of the server.                                *)

InitCache ==
    /\ pc[Server] = "new"
    /\ Lockfile(Global(Server), Exclusive)
    /\ Goto(Server, "load")
    /\ UNCHANGED <<slot, extras, cachefile, cachedata, todo, saved, restarts, merges>>

LoadCache ==
    /\ pc[Server] = "load"
    /\ at[Global(Server)] = "in"
    /\ cachedata' = cachefile
    /\ PromoteLock(Global(Server))
    /\ Goto(Server, "idle")
    /\ UNCHANGED <<slot, extras, cachefile, todo, saved, restarts, merges>>

SaveMerge_Shared ==
    /\ pc[Server] = "idle" /\ merges < MaxMerges
    /\ merges' = merges + 1
    /\ Lockfile(Global(Server), Shared)
    /\ Goto(Server, "list")
    /\ UNCHANGED <<slot, extras, cachefile, cachedata, todo, saved, restarts>>

SaveMerge ==
    /\ pc[Server] = "idle" /\ merges < MaxMerges
    /\ merges' = merges + 1
    /\ Lockfile(Global(Server), Exclusive)
    /\ Goto(Server, "list")
    /\ UNCHANGED <<slot, extras, cachefile, cachedata, todo, saved, restarts>>

ListExtras ==
    /\ pc[Server] = "list"
    /\ at[Global(Server)] = "in"
    /\ todo' = {i \in Slots : extras[i] # None}
    /\ Goto(Server, "merge")
    /\ UNCHANGED <<lockVars, slot, extras, cachefile, cachedata, saved, restarts, merges>>

MergeExtras_Lost(i) ==
    /\ pc[Server] = "merge" /\ i \in todo
    /\ extras[i] # "torn"
    /\ extras' = [extras EXCEPT ![i] = None]
    /\ todo' = todo \ {i}
    /\ UNCHANGED <<lockVars, pc, slot, cachefile, cachedata, saved, restarts, merges>>

MergeExtras_Twice(i) ==
    /\ pc[Server] = "merge" /\ i \in todo
    /\ cachedata' = cachedata \cup {extras[i]}
    /\ extras' = [extras EXCEPT ![i] = None]
    /\ todo' = todo \ {i}
    /\ UNCHANGED <<lockVars, pc, slot, cachefile, saved, restarts, merges>>

\* An empty file is an EOFError: it is removed and skipped.
MergeExtras(i) ==
    /\ pc[Server] = "merge" /\ i \in todo
    /\ extras[i] # "torn"
    /\ cachedata' = cachedata \cup ({extras[i]} \cap Savers)
    /\ extras' = [extras EXCEPT ![i] = None]
    /\ todo' = todo \ {i}
    /\ UNCHANGED <<lockVars, pc, slot, cachefile, saved, restarts, merges>>

\* A truncated pickle is an UnpicklingError, which is not caught: save_merge ends, the file
\* stays and the lock is closed with the file object.
MergeTorn(i) ==
    /\ pc[Server] = "merge" /\ i \in todo
    /\ extras[i] = "torn"
    /\ LeaveLock(Global(Server))
    /\ todo' = {}
    /\ Goto(Server, "idle")
    /\ UNCHANGED <<slot, extras, cachefile, cachedata, saved, restarts, merges>>

\* Opening for writing empties the file: init_cache would read nothing from it.
OpenCache ==
    /\ pc[Server] = "merge" /\ todo = {}
    /\ cachefile' = {}
    /\ Goto(Server, "write")
    /\ UNCHANGED <<lockVars, slot, extras, cachedata, todo, saved, restarts, merges>>

DumpCache ==
    /\ pc[Server] = "write"
    /\ cachefile' = cachedata
    /\ PromoteLock(Global(Server))
    /\ Goto(Server, "idle")
    /\ UNCHANGED <<slot, extras, cachedata, todo, saved, restarts, merges>>

\* What the server had collected and not written is lost: the promise starts anew.
KillServer ==
    /\ ServerMayDie
    /\ pc[Server] # "new" /\ restarts < MaxRestarts
    /\ restarts' = restarts + 1
    /\ LoseLocks(Server)
    /\ cachedata' = {} /\ todo' = {} /\ saved' = {}
    /\ Goto(Server, "new")
    /\ UNCHANGED <<slot, extras, cachefile, merges>>

-----------------------------------------------------------------------------
SaverStep(p) ==
    \/ SaveExtras(p) \/ TrySlot(p) \/ NextSlot(p) \/ FreeSlot(p) \/ OpenExtras(p)
    \/ DumpExtras(p) \/ UnlockSlot(p) \/ UnlockGlobal(p)

MergeStep ==
    \/ LoadCache \/ ListExtras \/ OpenCache \/ DumpCache
    \/ \E i \in Slots : MergeExtras(i) \/ MergeTorn(i)

Next ==
    \/ \E p \in Savers : SaverStep(p) \/ NewParser(p) \/ KillSaver(p)
    \/ InitCache \/ SaveMerge \/ MergeStep \/ KillServer
    \/ \E p \in Procs : LockProgress(p)

Spec == Init /\ [][Next]_vars

-----------------------------------------------------------------------------
CacheTypeOK ==
    /\ LockTypeOK
    /\ pc \in [Procs -> {"parse", "try", "tried", "free", "dump", "dumped", "unlock", "saved", "dead",
                         "new", "load", "idle", "list", "merge", "write"}]
    /\ slot \in [Savers -> Slots]
    /\ extras \in [Slots -> {None, "empty", "torn"} \cup Savers]
    /\ cachefile \subseteq Savers
    /\ cachedata \subseteq Savers
    /\ todo \subseteq Slots
    /\ saved \subseteq Savers
    /\ restarts \in 0 .. MaxRestarts /\ merges \in 0 .. MaxMerges

\* Two savers never write the same file, even when they probe the same numbers: the test for
\* the file is not a race, because it is made under the lock of the number.
OneWriterPerFile ==
    \A p, q \in Savers :
       (p # q /\ pc[p] \in {"dump", "dumped"} /\ pc[q] \in {"dump", "dumped"}) => slot[p] # slot[q]

\* save_merge never looks at a file that a saver is still writing: it neither removes it as
\* empty nor fails on a part of it.
MergeSeesWholeFiles ==
    pc[Server] \in {"merge", "write"} => \A p \in Savers : pc[p] # "dump"

\* What a saver has saved is in a file of its own, in the server's memory or in the cache
\* file, whatever save_merge is doing, and whatever parsers are terminated.
SavedIsKept ==
    \A p \in saved :
       \/ \E i \in Slots : extras[i] = p
       \/ p \in cachedata
       \/ p \in cachefile
=============================================================================
