------------------------------ MODULE RunQueue ------------------------------
(***************************************************************************)
(* bb.runqueue: RunQueueExecute, which runs the tasks of a build.  Some    *)
(* tasks have a setscene variant that restores the result of the task, and *)
(* so makes the tasks before it unnecessary; both kinds run side by side   *)
(* in worker processes, and the hash a finished task reports can make      *)
(* setscene tasks worth another try while the build goes on.               *)
(*                                                                         *)
(* execute() is called again and again.  A pass reads what the workers     *)
(* sent, then goes on from place to place (pc) and does at most one thing, *)
(* even when what it read has stopped the build; nothing else happens in   *)
(* between.  Tasks are numbered so that a task comes after those it needs. *)
(* The options setscene_enforce, setsceneonly and dry_run are off, and no  *)
(* task is noexec.                                                         *)
(*                                                                         *)
(* An operator named Action_Change is a faulty variant of Action, used to  *)
(* test that the properties can tell it from the code; no action uses it.  *)
(***************************************************************************)
EXTENDS Integers, FiniteSets

CONSTANTS
    N,              \* tasks are 1 .. N
    Builds,         \* the builds considered
    NumberTasks,    \* BB_NUMBER_THREADS
    MaxRehash,      \* bound: hashes that finished tasks report
    TaskMayFail, SceneMayFail, UserMayStop,
    SpawnMayFail    \* may a fakeroot worker fail to start?

Tasks == 1 .. N

BuildType ==
    [depends  : [Tasks -> SUBSET Tasks],
     setscene : SUBSET Tasks,          \* runq_setscene_tids
     hard     : [Tasks -> SUBSET Tasks],   \* sq_harddeps: the setscene tasks that need this one's
     target   : SUBSET Tasks,          \* target_tids
     index    : [Tasks -> Tasks],      \* pending_hash_index, as the first task that has it
     stamped  : SUBSET Tasks,          \* tasks with a current stamp of an earlier build
     restored : SUBSET Tasks,          \* setscene tasks with one
     recipe   : [Tasks -> Tasks],
     refused  : SUBSET Tasks,          \* setscene tasks excluded by --force or --no-setscene
     fakeroot : SUBSET Tasks,          \* tasks that run in the fakeroot worker, with their setscene
     abort    : BOOLEAN]               \* stop at the first failure (not bitbake -k)

ASSUME RunQueueAssumption ==
    /\ N \in Nat /\ NumberTasks \in Nat \ {0} /\ MaxRehash \in Nat
    /\ Builds \subseteq BuildType
    /\ \A b \in Builds : \A t \in Tasks :
          /\ \A d \in b.depends[t] : d < t
          /\ b.hard[t] \subseteq b.setscene \ {t}
          /\ b.hard[t] # {} => t \in b.setscene /\ \A u \in Tasks : t \notin b.hard[u]

VARIABLES
    build,          \* one of Builds, never changed
    state,          \* "running", "cleanup", "complete" or "failed"
    pc,             \* the place in execute()
    sq,             \* the setscene side: sq_* and scenequeue_* sets
    rn,             \* the other side: runq_* sets
    failed,         \* failed_tids
    sched,          \* tasks_covered, tasks_notcovered, holdoff_tasks and holdoff_need_update
    sqdone,
    reported,       \* updated_taskhash_queue
    pending,        \* pending_migrations
    changed, look, moved, hardfailed,    \* locals of process_possible_migrations
    stamps,         \* tasks with a stamp not older than those of their recipe before them
    scened,         \* tasks with a setscene stamp
    there,          \* history: tasks whose output is at hand
    rehashes,       \* hashes reported so far
    stopped,        \* history: the user, the end of a worker, or a setscene task without one, has stopped the build
    unspawned       \* history: a task failed to start for want of its worker

hashVars == <<reported, pending, changed, look, moved, hardfailed, rehashes>>
vars == <<build, state, pc, sq, rn, failed, sched, sqdone, hashVars, stamps, scened, there, stopped, unspawned>>

-----------------------------------------------------------------------------
(* The graph of the build, and the one of its setscene tasks.              *)

Depends(t) == build.depends[t]
Setscene == build.setscene
RevdepsIn(b, t) == {r \in Tasks : t \in b.depends[r]}
Revdeps(t) == RevdepsIn(build, t)

\* sq_covered_tasks: the tasks that s replaces, up to the next setscene tasks.
CoveredTasksIn(b, s) ==
    LET chain[t \in Nat] == t < s /\ t \notin b.setscene
                            /\ \E r \in RevdepsIn(b, t) : r = s \/ chain[r]
    IN  {t \in Tasks : chain[t]}
CoveredTasks(s) == CoveredTasksIn(build, s)

\* sq_revdeps: the setscene tasks reached through others, unless a setscene task needs t; then,
\* as for all, those whose results t needs.
SqRevdepsIn(b, t) ==
    (IF b.hard[t] # {} THEN {}
     ELSE {s \in b.setscene : \E r \in {s} \cup CoveredTasksIn(b, s) : t \in b.depends[r]})
    \cup {s \in b.setscene : t \in b.hard[s]}
SqRevdeps(t) == SqRevdepsIn(build, t)
SqDeps(t) == {s \in Setscene : t \in SqRevdeps(s)}

CantskipIn(b) == b.target \ b.setscene

\* The ends of the build, and what they need up to and including setscene tasks.
UnskippableIn(b) ==
    LET needed[t \in Nat] == \/ RevdepsIn(b, t) = {}
                             \/ t \in CantskipIn(b)
                             \/ \E r \in RevdepsIn(b, t) : r \notin b.setscene /\ needed[r]
    IN  {t \in Tasks : needed[t]}
Unskippable == UnskippableIn(build)

-----------------------------------------------------------------------------
(* What sq_task_skip, sq_task_complete, sq_task_fail, sq_task_failoutright *)
(* and scenequeue_updatecounters do to the setscene side q.                *)

Decided(q) == q.covered \cup q.notcovered

\* The tasks F are dealt with, and those below that only such tasks need.
DoneBelow(q, F) ==
    LET new[t \in Nat] == \/ t \in F
                          \/ /\ t \in Tasks \ (Setscene \cup q.done)
                             /\ \E r \in Revdeps(t) : new[r]
                             /\ \A r \in Revdeps(t) : r \in q.done \/ new[r]
    IN  q.done \cup {t \in Tasks : new[t]}

\* The setscene tasks for which the tasks F were the last to wait for.
Freed(q, F) == {s \in Setscene : SqRevdeps(s) \cap F # {} /\ SqRevdeps(s) \subseteq Decided(q)}

Counted(q, F) == [q EXCEPT !.buildable = @ \cup Freed(q, F), !.done = DoneBelow(q, F)]

Covered(q, F) ==
    Counted([q EXCEPT !.running = @ \cup F, !.buildable = @ \cup F, !.covered = @ \cup F], F)

\* With t fail the undecided tasks that need t's setscene (none is needed in turn).
HardFails(q, t) == {t} \cup (build.hard[t] \ Decided(q))

NotCovered(q, t) ==
    LET F == HardFails(q, t) IN
    Counted([q EXCEPT !.running = @ \cup F, !.buildable = @ \cup F, !.notcovered = @ \cup F], F)

Undefer(q, s) == [q EXCEPT !.deferred = {d \in @ : d[1] # s}]

SameRecipe(t) == {d \in Depends(t) : build.recipe[d] = build.recipe[t]}

\* check_stamp_task, not recursive and recursive: only stamps of the same recipe are compared, and
\* a setscene stamp is as good as one.
Current == {t \in stamps : SameRecipe(t) \subseteq stamps \cup scened}

UpToDate ==
    LET current[t \in Nat] == t \in stamps /\ \A d \in SameRecipe(t) : d \in scened \/ current[d]
    IN  {t \in stamps : current[t]}

Stamped == UpToDate \cup scened

\* update_scenequeue_data: of the tasks T those with a stamp are skipped and V are found to be
\* valid; all that are neither fail outright, or wait for one with the same hash.
Updated(q, T, V) ==
    LET skipped == T \cap Stamped
        q1      == IF skipped = {} THEN q ELSE Covered(q, skipped)
        valid   == (q.valid \ T) \cup V
        invalid == Setscene \ (valid \cup Decided(q1))
    IN  [q1 EXCEPT !.valid = valid,
                   !.outrightfail = @ \cup invalid,
                   !.deferred = {d \in invalid \X invalid :
                                    /\ d[2] < d[1] /\ build.index[d[2]] = build.index[d[1]]
                                    /\ \A k \in invalid : build.index[k] = build.index[d[1]] => d[2] <= k}]

-----------------------------------------------------------------------------
Executing == (rn.running \ rn.complete) \ failed
Active == Cardinality(sq.live) + Cardinality(Executing)
CanStart == Active < NumberTasks

\* task_completeoutright
Completed(r, t) ==
    LET complete == r.complete \cup {t} IN
    [r EXCEPT !.complete = complete,
              !.buildable = @ \cup {v \in Revdeps(t) \ r.running : Depends(v) \subseteq complete}]

Goto(l) == pc' = l

Undecided == [buildable |-> {}, running |-> {}, live |-> {}, covered |-> {}, notcovered |-> {},
              done |-> {}, outrightfail |-> {}, valid |-> {}, deferred |-> {}]

\* RunQueueExecute.__init__ and build_scenequeue_data, up to update_scenequeue_data.
Init ==
    /\ build \in Builds
    /\ state = "running"
    /\ pc = "validate"
    /\ sq = [Undecided EXCEPT !.buildable = {s \in Setscene : SqRevdeps(s) = {}},
                              !.done = Unskippable \ Setscene]
    /\ rn = [buildable |-> {t \in Unskippable \ Setscene : Depends(t) = {}},
             running |-> {}, complete |-> {}, tasksrun |-> {}]
    /\ failed = {}
    /\ sched = [covered |-> {}, notcovered |-> {}, holdoff |-> {}, update |-> TRUE]
    /\ sqdone = (Setscene = {})
    /\ reported = {} /\ pending = {}
    /\ changed = FALSE /\ look = {} /\ moved = {} /\ hardfailed = {}
    /\ stamps = build.stamped
    /\ scened = build.restored
    /\ there = {}
    /\ rehashes = 0
    /\ stopped = FALSE /\ unspawned = FALSE

\* update_scenequeue_data for all setscene tasks; which are valid is up to the sstate mirrors.
ValidateAll ==
    /\ pc = "validate"
    /\ \E V \in SUBSET (Setscene \ Stamped) : sq' = Updated(sq, Setscene, V)
    /\ there' = Setscene \cap Stamped
    /\ Goto("top")
    /\ UNCHANGED <<build, state, rn, failed, sched, sqdone, hashVars, stamps, scened, stopped, unspawned>>

-----------------------------------------------------------------------------
(* read_workers: what arrives from the workers at the start of a pass, at  *)
(* the end of one that did nothing, or in finish().                        *)

BeginExecute ==
    /\ pc = "top" /\ state = "running"
    /\ Goto("read")
    /\ UNCHANGED <<build, state, sq, rn, failed, sched, sqdone, hashVars,
                   stamps, scened, there, stopped, unspawned>>

Reading == pc \in {"read", "idle"} \/ (pc = "top" /\ state = "cleanup")

EndRead ==
    /\ pc = "idle"
    /\ Goto("top")
    /\ UNCHANGED <<build, state, sq, rn, failed, sched, sqdone, hashVars,
                   stamps, scened, there, stopped, unspawned>>

SetsceneComplete_NoUpdate(s) ==
    /\ Reading /\ s \in sq.live
    /\ sq' = [Covered(sq, {s}) EXCEPT !.live = @ \ {s}]
    /\ scened' = scened \cup {s}
    /\ there' = there \cup {s}
    /\ UNCHANGED <<build, state, pc, rn, failed, sched, sqdone, hashVars, stamps, stopped, unspawned>>

SetsceneComplete(s) ==
    /\ Reading /\ s \in sq.live
    /\ sq' = [Covered(sq, {s}) EXCEPT !.live = @ \ {s}]
    /\ scened' = scened \cup {s}
    /\ there' = there \cup {s}
    /\ sched' = [sched EXCEPT !.update = TRUE]
    /\ UNCHANGED <<build, state, pc, rn, failed, sqdone, hashVars, stamps, stopped, unspawned>>

SetsceneFail(s) ==
    /\ SceneMayFail
    /\ Reading /\ s \in sq.live
    /\ sq' = [NotCovered(sq, s) EXCEPT !.live = @ \ {s}]
    /\ sched' = [sched EXCEPT !.update = TRUE]
    /\ UNCHANGED <<build, state, pc, rn, failed, sqdone, hashVars, stamps, scened, there, stopped, unspawned>>

TaskComplete(t) ==
    /\ Reading /\ t \in Executing
    /\ rn' = [Completed(rn, t) EXCEPT !.tasksrun = @ \cup {t}]
    /\ stamps' = (stamps \ {r \in Revdeps(t) : t \in SameRecipe(r)}) \cup {t}   \* these are older
    /\ there' = there \cup {t}
    /\ UNCHANGED <<build, state, pc, sq, failed, sched, sqdone, hashVars, scened, stopped, unspawned>>

TaskFail(t) ==
    /\ TaskMayFail
    /\ Reading /\ t \in Executing
    /\ failed' = failed \cup {t}
    /\ state' = IF build.abort THEN "cleanup" ELSE state
    /\ UNCHANGED <<build, pc, sq, rn, sched, sqdone, hashVars, stamps, scened, there, stopped, unspawned>>

\* A task that runs found at the hash equivalence server that its output is known.
TaskUniHashUpdate(t) ==
    /\ rehashes < MaxRehash
    /\ Reading /\ t \in Executing \cap Setscene
    /\ reported' = reported \cup {t}
    /\ rehashes' = rehashes + 1
    /\ UNCHANGED <<build, state, pc, sq, rn, failed, sched, sqdone, pending, changed, look, moved, hardfailed,
                   stamps, scened, there, stopped, unspawned>>

\* finish(), by the user or the disk monitor.
UserFinish ==
    /\ UserMayStop /\ pc = "top" /\ state = "running"
    /\ state' = "cleanup"
    /\ stopped' = TRUE
    /\ UNCHANGED <<build, pc, sq, rn, failed, sched, sqdone, hashVars, stamps, scened, there, unspawned>>

\* finish_now(), by the user, or because a worker process has died.
FinishNow ==
    /\ UserMayStop /\ pc \in {"top", "read", "idle"} /\ state \in {"running", "cleanup"}
    /\ state' = IF failed # {} THEN "failed" ELSE "complete"
    /\ stopped' = TRUE
    /\ UNCHANGED <<build, pc, sq, rn, failed, sched, sqdone, hashVars, stamps, scened, there, unspawned>>

\* finish() in the state runQueueCleanUp: the tasks under way are waited for.
CleanUp ==
    /\ pc = "top" /\ state = "cleanup" /\ Active = 0
    /\ state' = IF failed # {} THEN "failed" ELSE "complete"
    /\ UNCHANGED <<build, pc, sq, rn, failed, sched, sqdone, hashVars,
                   stamps, scened, there, stopped, unspawned>>

-----------------------------------------------------------------------------
(* process_possible_migrations                                             *)

BeginPass ==
    /\ pc = "read"
    /\ Goto(IF reported \cup pending # {} THEN "rehash" ELSE "scene")
    /\ UNCHANGED <<build, state, sq, rn, failed, sched, sqdone, hashVars,
                   stamps, scened, there, stopped, unspawned>>

Above(T) ==
    LET up[t \in Nat] == \E d \in Depends(t) : d \in T \/ up[d]
    IN  {t \in Tasks : up[t]}

\* Reports of tasks that are not complete wait.  Of what depends on the others some tasks C get a
\* new hash; a new hash has no stamp, or, for the tasks K, one of an earlier build.
Rehash ==
    LET waiting == rn.running \ rn.complete IN
    /\ pc = "rehash"
    /\ reported' = reported \cap waiting
    /\ \E C \in SUBSET (Above(reported \ waiting) \ (sq.covered \cup sq.live)) :
          /\ pending' = pending \cup (C \cap Setscene)
          /\ look' = pending'
          /\ changed' = (C # {})
          /\ \E K \in SUBSET C : stamps' = (stamps \ C) \cup K
    /\ Goto("migrate")
    /\ UNCHANGED <<build, state, sq, rn, failed, sched, sqdone, moved, hardfailed, rehashes,
                   scened, there, stopped, unspawned>>

\* s has started itself, so its setscene is of no use any more, or what its setscene replaces runs:
\* then it is tried later.
MigrateNot(s) ==
    /\ pc = "migrate" /\ s \in look
    /\ s \in rn.running \cup sq.live \/ CoveredTasks(s) \cap (rn.running \ rn.complete) # {}
    /\ pending' = pending \ ({s} \cap (rn.running \cup sq.live))
    /\ look' = look \ {s}
    /\ UNCHANGED <<build, state, pc, sq, rn, failed, sched, sqdone, reported, changed, moved,
                   hardfailed, rehashes, stamps, scened, there, stopped, unspawned>>

Movable_Running(s) == s \in look /\ s \notin rn.running \cup sq.live

Movable(s) ==
    /\ s \in look
    /\ s \notin rn.running \cup sq.live
    /\ CoveredTasks(s) \cap (rn.running \ rn.complete) = {}

\* A setscene task that s needs is known to be not available.
HardDepFail(s) == \E h \in sq.notcovered : s \in build.hard[h]

\* s starts again: what it replaces and has not run waits for it once more.  The code gives the
\* build up if a task was skipped because of s, which never is so: the guard would stop the model.
Migrate(s) ==
    LET free == ~HardDepFail(s) /\ SqRevdeps(s) \subseteq Decided(sq) IN
    /\ pc = "migrate" /\ Movable(s)
    /\ CoveredTasks(s) \cap (rn.complete \ rn.tasksrun) = {}
    /\ sq' = [sq EXCEPT !.done = @ \ ({s} \cup (CoveredTasks(s) \ (rn.complete \cup Unskippable))),
                        !.buildable = IF free \/ SqRevdeps(s) = {} THEN @ \cup {s} ELSE @ \ {s},
                        !.running = @ \ {s},
                        !.outrightfail = @ \ {s},
                        !.notcovered = @ \ {s},
                        !.covered = @ \ {s}]
    /\ pending' = pending \ {s}
    /\ look' = look \ {s}
    /\ moved' = moved \cup {s}
    /\ hardfailed' = IF HardDepFail(s) THEN hardfailed \cup {s} ELSE hardfailed
    /\ UNCHANGED <<build, state, pc, rn, failed, sched, sqdone, reported, changed, rehashes,
                   stamps, scened, there,
                   stopped, unspawned>>

\* All tasks are looked at: the moved ones are validated, and fail if a task they need has failed.
EndMigrations ==
    /\ pc = "migrate" /\ look = {}
    /\ \/ /\ moved = {}
          /\ sched' = [sched EXCEPT !.update = @ \/ changed]
          /\ UNCHANGED <<sq, sqdone, there>>
       \/ /\ moved # {}
          /\ sched' = [sched EXCEPT !.update = TRUE]
          /\ \E V \in SUBSET (moved \ Stamped) : sq' = Updated(sq, moved, V)
          /\ there' = there \cup (moved \cap Stamped)
          /\ sqdone' = FALSE
    /\ changed' = FALSE
    /\ moved' = {}
    /\ Goto("hardfail")
    /\ UNCHANGED <<build, state, rn, failed, reported, pending, look, hardfailed, rehashes,
                   stamps, scened, stopped, unspawned>>

HardFail ==
    /\ pc = "hardfail"
    /\ \/ /\ hardfailed = {}
          /\ Goto("scene")
          /\ UNCHANGED <<sq, hardfailed>>
       \/ \E s \in hardfailed :
             /\ sq' = NotCovered(sq, s)
             /\ hardfailed' = hardfailed \ {s}
             /\ UNCHANGED pc
    /\ UNCHANGED <<build, state, rn, failed, sched, sqdone, reported, pending, changed, look, moved,
                   rehashes, stamps, scened, there, stopped, unspawned>>

-----------------------------------------------------------------------------
(* The setscene part of execute().                                         *)

Selectable(s) == ~sqdone /\ CanStart /\ s \in sq.buildable \ sq.running

Unneeded_Unskippable(s) ==
    /\ s \notin build.target
    /\ SqRevdeps(s) # {} /\ SqRevdeps(s) \subseteq sq.covered

\* What needs s was restored, so s may not be needed (check_dependencies decides).
Unneeded(s) ==
    /\ s \notin Unskippable /\ s \notin build.target
    /\ SqRevdeps(s) # {} /\ SqRevdeps(s) \subseteq sq.covered

Leader(s) == {d[2] : d \in {e \in sq.deferred : e[1] = s}}
Waits(s) == ~(Leader(s) \subseteq rn.complete)

\* A deferred task has become valid once the first of its hash was built.
Startable(s) ==
    IF Leader(s) = {} THEN s \notin sq.outrightfail ELSE ~Waits(s)

\* The outcomes of the loop over the setscene tasks that end the pass.
SceneSkip(s) ==
    /\ pc = "scene" /\ Selectable(s)
    /\ Unneeded(s) \/ (Startable(s) /\ s \in scened \ UpToDate)
    /\ sq' = Undefer(Covered(sq, {s}), s)
    /\ sched' = [sched EXCEPT !.update = TRUE]
    /\ Goto("top")
    /\ UNCHANGED <<build, state, rn, failed, sqdone, hashVars, stamps, scened, there, stopped, unspawned>>

SceneFailOutright(s) ==
    /\ pc = "scene" /\ Selectable(s)
    /\ \/ s \in sq.outrightfail /\ ~Waits(s)
       \/ s \notin sq.outrightfail /\ s \in build.refused \cup UpToDate
    /\ sq' = NotCovered(Undefer(sq, s), s)
    /\ sched' = [sched EXCEPT !.update = TRUE]
    /\ Goto("top")
    /\ UNCHANGED <<build, state, rn, failed, sqdone, hashVars, stamps, scened, there, stopped, unspawned>>

Live(q, s) == [Undefer(q, s) EXCEPT !.outrightfail = @ \ {s}, !.running = @ \cup {s}, !.live = @ \cup {s}]

SceneStart(s) ==
    /\ pc = "scene" /\ Selectable(s) /\ Startable(s)
    /\ s \notin build.refused \cup Stamped
    /\ sq' = Live(sq, s)
    /\ Goto(IF Active + 1 < NumberTasks THEN "top" ELSE "holdoff")
    /\ UNCHANGED <<build, state, rn, failed, sched, sqdone, hashVars,
                   stamps, scened, there, stopped, unspawned>>

\* The fakeroot worker does not start (it has not before): the exception leaves execute_runqueue,
\* which gives the build up and calls it complete.
SceneSpawnFails ==
    /\ SpawnMayFail
    /\ pc = "scene"
    /\ \E s \in Setscene \cap build.fakeroot : Selectable(s) /\ Startable(s) /\ s \notin build.refused \cup Stamped
    /\ state' = "complete"
    /\ stopped' = TRUE
    /\ Goto("top")
    /\ UNCHANGED <<build, sq, rn, failed, sched, sqdone, hashVars, stamps, scened, there, unspawned>>

\* No setscene task can be dealt with now.
SceneNone ==
    /\ pc = "scene"
    /\ \A s \in Setscene : Selectable(s) => Leader(s) # {} /\ Waits(s)
    /\ Goto("holdoff")
    /\ UNCHANGED <<build, state, sq, rn, failed, sched, sqdone, hashVars,
                   stamps, scened, there, stopped, unspawned>>

-----------------------------------------------------------------------------
(* update_holdofftasks, and the test whether the setscene tasks are done.  *)

UpdateHoldoff(v) ==
    LET notcovered == (sq.notcovered \cup CantskipIn(build) \cup (Unskippable \ Setscene)
                          \cup UNION {CoveredTasks(s) : s \in sq.notcovered}) \cap sq.done
        covered    == ((sq.covered \cup UNION {CoveredTasks(s) : s \in sq.covered}) \ notcovered)
                          \cap sq.done
        open       == Setscene \ Decided(sq)
    IN  IF ~v.update THEN v
        ELSE [covered |-> covered, notcovered |-> notcovered, update |-> FALSE,
              holdoff |-> open \cup ((UNION {CoveredTasks(s) : s \in open}) \ rn.complete)]

NowBuildable_All(v) ==
    IF ~sched.update THEN rn ELSE [rn EXCEPT !.buildable = @ \cup v.covered \cup v.notcovered]

\* setbuildable in update_holdofftasks, for tasks whose setscene side has become known late.
NowBuildable(v) ==
    IF ~sched.update THEN rn
    ELSE [rn EXCEPT !.buildable = @ \cup {t \in v.covered \cup v.notcovered : Depends(t) \subseteq rn.complete}]

\* summarise_scenequeue_errors
SceneErrors(v, r) ==
    \/ sq.deferred # {} \/ reported # {} \/ v.holdoff # {}
    \/ \E s \in Setscene : s \notin Decided(sq) \/ s \notin sq.buildable \cap sq.running
    \/ \E t \in Tasks : \/ t \notin v.covered \cup v.notcovered
                        \/ t \notin sq.done
                        \/ Depends(t) = {} /\ t \notin r.buildable

Holdoff ==
    LET v == UpdateHoldoff(sched)
        r == NowBuildable(v)
        finished == /\ sq.live = {} /\ ~sqdone /\ sq.deferred = {} /\ reported = {}
                    /\ v.holdoff = {}
    IN  /\ pc = "holdoff"
        /\ sched' = v
        /\ rn' = r
        /\ \/ /\ finished /\ SceneErrors(v, r)
              /\ state' = "failed"
              /\ Goto("top")
              /\ UNCHANGED sqdone
           \/ /\ ~(finished /\ SceneErrors(v, r))
              /\ sqdone' = (sqdone \/ finished)
              /\ Goto("task")
              /\ UNCHANGED state
        /\ UNCHANGED <<build, sq, failed, hashVars, stamps, scened, there, stopped, unspawned>>

-----------------------------------------------------------------------------
(* The part of execute() for the tasks themselves.                         *)

Next_buildable_NoLimit ==
    ((rn.buildable \ rn.running) \ sched.holdoff) \cap (sched.covered \cup sched.notcovered)

\* RunQueueScheduler.next_buildable_task: which of them is a matter of priorities.
Next_buildable ==
    IF CanStart THEN ((rn.buildable \ rn.running) \ sched.holdoff) \cap (sched.covered \cup sched.notcovered)
    ELSE {}

\* task_skip
Skipped(r, t) ==
    Completed([r EXCEPT !.running = @ \cup {t}, !.buildable = @ \cup {t}], t)

TaskSkipCovered(t) ==
    /\ pc = "task" /\ t \in Next_buildable
    /\ t \in sched.covered
    /\ rn' = Skipped(rn, t)
    /\ Goto("top")
    /\ UNCHANGED <<build, state, sq, failed, sched, sqdone, hashVars,
                   stamps, scened, there, stopped, unspawned>>

TaskSkipExisting(t) ==
    /\ pc = "task" /\ t \in Next_buildable
    /\ t \notin sched.covered /\ t \in Current
    /\ rn' = [Skipped(rn, t) EXCEPT !.tasksrun = @ \cup {t}]
    /\ there' = there \cup {t}
    /\ Goto("top")
    /\ UNCHANGED <<build, state, sq, failed, sched, sqdone, hashVars, stamps, scened, stopped, unspawned>>

TaskStart(t) ==
    /\ pc = "task" /\ t \in Next_buildable
    /\ t \notin sched.covered /\ t \notin Current
    /\ rn' = [rn EXCEPT !.running = @ \cup {t}]
    /\ Goto(IF Active + 1 < NumberTasks THEN "top" ELSE "wait")
    /\ UNCHANGED <<build, state, sq, failed, sched, sqdone, hashVars,
                   stamps, scened, there, stopped, unspawned>>

\* Nor does it for a task: the exception is caught, and the build has failed without a failed task.
TaskSpawnFails ==
    /\ SpawnMayFail
    /\ pc = "task"
    /\ \E t \in build.fakeroot \cap Next_buildable : t \notin sched.covered /\ t \notin Current
    /\ state' = "failed"
    /\ unspawned' = TRUE
    /\ Goto("top")
    /\ UNCHANGED <<build, sq, rn, failed, sched, sqdone, hashVars, stamps, scened, there, stopped>>

TaskNone ==
    /\ pc = "task" /\ Next_buildable = {}
    /\ Goto("wait")
    /\ UNCHANGED <<build, state, sq, rn, failed, sched, sqdone, hashVars,
                   stamps, scened, there, stopped, unspawned>>

-----------------------------------------------------------------------------
(* The end of a pass that started nothing.                                 *)

Wait ==
    /\ pc = "wait" /\ Active > 0
    /\ Goto("idle")
    /\ UNCHANGED <<build, state, sq, rn, failed, sched, sqdone, hashVars,
                   stamps, scened, there, stopped, unspawned>>

ForceDeferred_Keep ==
    /\ pc = "wait" /\ Active = 0
    /\ \E d \in sq.deferred :
          /\ \A e \in sq.deferred : d[1] <= e[1]
          /\ sq' = NotCovered(sq, d[2])
    /\ sched' = [sched EXCEPT !.update = TRUE]
    /\ Goto("top")
    /\ UNCHANGED <<build, state, rn, failed, sqdone, hashVars, stamps, scened, there, stopped, unspawned>>

\* "Runqueue deadlocked on deferred tasks": an entry is removed, and the task it waits for fails.
ForceDeferred ==
    /\ pc = "wait" /\ Active = 0
    /\ \E d \in sq.deferred :
          /\ \A e \in sq.deferred : d[1] <= e[1]
          /\ sq' = NotCovered([sq EXCEPT !.deferred = @ \ {d}], d[2])
    /\ sched' = [sched EXCEPT !.update = TRUE]
    /\ Goto("top")
    /\ UNCHANGED <<build, state, rn, failed, sqdone, hashVars, stamps, scened, there, stopped, unspawned>>

Unfinished == SceneErrors(sched, rn) \/ rn.buildable \cap rn.running \cap rn.complete # Tasks

End ==
    /\ pc = "wait" /\ Active = 0 /\ sq.deferred = {}
    /\ state' = IF failed # {} \/ Unfinished THEN "failed" ELSE "complete"
    /\ Goto("top")
    /\ UNCHANGED <<build, sq, rn, failed, sched, sqdone, hashVars, stamps, scened, there, stopped, unspawned>>

-----------------------------------------------------------------------------
Migrations ==
    \/ Rehash \/ EndMigrations \/ HardFail
    \/ \E s \in Tasks : MigrateNot(s) \/ Migrate(s)

Pass ==
    \/ ValidateAll \/ BeginExecute \/ EndRead \/ BeginPass \/ Migrations
    \/ \E s \in Setscene : SceneSkip(s) \/ SceneFailOutright(s) \/ SceneStart(s)
    \/ SceneSpawnFails \/ SceneNone \/ Holdoff
    \/ \E t \in Tasks : TaskSkipCovered(t) \/ TaskSkipExisting(t) \/ TaskStart(t)
    \/ TaskSpawnFails \/ TaskNone \/ Wait \/ ForceDeferred \/ End \/ CleanUp

\* The end of a task or setscene task that runs.
WorkerEnds ==
    \/ \E s \in Setscene : SetsceneComplete(s) \/ SetsceneFail(s)
    \/ \E t \in Tasks : TaskComplete(t) \/ TaskFail(t)

\* The build is over.
Ended == pc = "top" /\ state \in {"complete", "failed"} /\ UNCHANGED vars

Next ==
    \/ Pass \/ WorkerEnds \/ (\E t \in Tasks : TaskUniHashUpdate(t)) \/ UserFinish \/ FinishNow
    \/ Ended

Spec == Init /\ [][Next]_vars

\* The server goes on calling execute(), and every task that runs ends some time.
FairSpec == Spec /\ WF_vars(Pass) /\ SF_vars(WorkerEnds)

-----------------------------------------------------------------------------
SqType == [buildable : SUBSET Tasks, running : SUBSET Tasks, live : SUBSET Tasks,
           covered : SUBSET Tasks, notcovered : SUBSET Tasks, done : SUBSET Tasks,
           outrightfail : SUBSET Tasks, valid : SUBSET Tasks, deferred : SUBSET (Tasks \X Tasks)]
RnType == [buildable : SUBSET Tasks, running : SUBSET Tasks, complete : SUBSET Tasks,
           tasksrun : SUBSET Tasks]
SchedType == [covered : SUBSET Tasks, notcovered : SUBSET Tasks, holdoff : SUBSET Tasks, update : BOOLEAN]

\* The types, and: no more tasks and setscene tasks run than BB_NUMBER_THREADS.
RunQueueTypeOK ==
    /\ build \in Builds
    /\ state \in {"running", "cleanup", "complete", "failed"}
    /\ pc \in {"validate", "top", "read", "idle", "rehash", "migrate", "hardfail", "scene", "holdoff", "task", "wait"}
    /\ sq \in SqType /\ rn \in RnType /\ sched \in SchedType
    /\ {failed, reported, pending, look, moved, hardfailed, stamps, scened, there} \subseteq SUBSET Tasks
    /\ {sqdone, changed, stopped, unspawned} \subseteq BOOLEAN
    /\ rehashes \in 0 .. MaxRehash
    /\ Active <= NumberTasks

\* A task is run only after all the tasks it depends on are complete, whatever setscene tasks,
\* migrations and the deadlock breaker do to the lists of buildable tasks.
DepsFirst == \A t \in rn.running : Depends(t) \subseteq rn.complete

\* The deadlock breaker has given up a setscene task that was decided before, and t is to be run
\* after all (see CoveredOrNot).
GivenUp(t) == \E s \in sq.covered \cap sq.notcovered : t \in {s} \cup CoveredTasks(s)

\* A task that is executed finds the output of every task it depends on: built in this build or an
\* earlier one, or restored by its setscene task; never one that was skipped as not needed.  Only
\* a task that is given up against an earlier decision may miss what was skipped in between.
InputsPresent == \A t \in Executing : Depends(t) \subseteq there \/ GivenUp(t)

\* While a setscene task restores the result of a task, or may still be chosen to, neither this
\* task nor one that only this result needs is being executed: not even when the task was given
\* up before and a new hash makes it worth another try.
SceneExcludesCovered ==
    \A s \in sq.live \cup (Setscene \ Decided(sq)) : Executing \cap ({s} \cup CoveredTasks(s)) = {}

\* The sanity checks at the end never fail: a build that failed has a task that failed, or one
\* that could not be started for want of the fakeroot worker.
FailureHasCause == state = "failed" => failed # {} \/ unspawned

\* "No task should end up in both covered and uncovered, that is a bug."
CoveredOrNot == sq.covered \cap sq.notcovered = {}

\* Every build comes to its end.
BuildEnds == <>(pc = "top" /\ state \in {"complete", "failed"})
=============================================================================
