------------------------- MODULE ReadersWriterLock -------------------------
(***************************************************************************)
(* What bb.utils.lockfile promises its callers: a lock per name that       *)
(* either one holder has for itself or several holders share.  FileLock    *)
(* implements it.                                                          *)
(***************************************************************************)
CONSTANTS Procs, Files

VARIABLE held   \* for each process and name: "no", "SH" or "EX"

Handles == Procs \X Files

Init == held = [h \in Handles |-> "no"]

Acquire(h, m) ==
    /\ held[h] = "no"
    /\ \A g \in Handles \ {h} :
          g[2] = h[2] => (held[g] = "no" \/ (m = "SH" /\ held[g] = "SH"))
    /\ held' = [held EXCEPT ![h] = m]

Release(h) ==
    /\ held[h] # "no"
    /\ held' = [held EXCEPT ![h] = "no"]

\* A process that ends loses all its locks.
Die(p) == held' = [h \in Handles |-> IF h[1] = p THEN "no" ELSE held[h]]

Next == \/ \E h \in Handles : (\E m \in {"SH", "EX"} : Acquire(h, m)) \/ Release(h)
        \/ \E p \in Procs : Die(p)

Spec == Init /\ [][Next]_held
=============================================================================
