------------------------------ MODULE MCFetch ------------------------------
(* Two tasks, on a file with checksums or on a repository with a tarball.   *)
EXTENDS Fetch, TLC

CONSTANTS t1, t2, file1, repo, tar, r1, r2

MCMirror == (file1 :> file1) @@ (repo :> tar) @@ (tar :> tar)

MCAssignment(u, w2, c) ==
    [url |-> [t \in Tasks |-> u], want |-> (t1 :> r1) @@ (t2 :> w2), cleaner |-> c]

\* Both fetch, in agreement about the contents or not, or the second one cleans.
MCAssignments ==
    {MCAssignment(u, r1, c) : u \in {file1, repo}, c \in {{}, {t2}}}
        \cup {MCAssignment(u, r2, {}) : u \in {file1, repo}}
=============================================================================
