--------------------------- MODULE RunQueueProofs ---------------------------
(***************************************************************************)
(* What holds of the run queue for every build, every number of threads    *)
(* and every bound: its types with the limit of the threads, and the order *)
(* of the tasks.  RunQueueSceneProofs goes on from here.                   *)
(***************************************************************************)
EXTENDS RunQueue, FiniteSetTheorems, TLAPS

Typed ==
    /\ build \in BuildType
    /\ sq \in SqType /\ rn \in RnType /\ sched \in SchedType
    /\ failed \in SUBSET Tasks /\ reported \in SUBSET Tasks /\ pending \in SUBSET Tasks
    /\ look \in SUBSET Tasks /\ moved \in SUBSET Tasks /\ hardfailed \in SUBSET Tasks
    /\ stamps \in SUBSET Tasks /\ scened \in SUBSET Tasks /\ there \in SUBSET Tasks

-----------------------------------------------------------------------------
(* The operators on the setscene side keep its type, and touch only what   *)
(* they are named for.                                                     *)

LEMMA GraphType ==
    ASSUME build \in BuildType
    PROVE  /\ Setscene \in SUBSET Tasks
           /\ \A t \in Tasks : build.hard[t] \in SUBSET Tasks
           /\ \A t \in Tasks : Depends(t) \in SUBSET Tasks
           /\ \A t : Revdeps(t) \in SUBSET Tasks
           /\ \A s : CoveredTasks(s) \in SUBSET Tasks
           /\ Unskippable \in SUBSET Tasks
           /\ CantskipIn(build) \in SUBSET Tasks
<1>1. /\ Setscene \in SUBSET Tasks
      /\ \A t \in Tasks : build.hard[t] \in SUBSET Tasks
      /\ \A t \in Tasks : Depends(t) \in SUBSET Tasks
      /\ CantskipIn(build) \in SUBSET Tasks
  BY DEF BuildType, Setscene, Depends, CantskipIn
<1>2. \A t : Revdeps(t) \in SUBSET Tasks
  BY DEF Revdeps, RevdepsIn
<1>3. ASSUME NEW s PROVE CoveredTasks(s) \in SUBSET Tasks
  BY DEF CoveredTasks, CoveredTasksIn
<1>4. Unskippable \in SUBSET Tasks
  BY DEF Unskippable, UnskippableIn
<1> QED  BY <1>1, <1>2, <1>3, <1>4

\* What changes of the setscene side: it becomes r from q, with the decided tasks D more, and
\* the tasks R put among the running ones.
Touches(q, r, C, X, R) ==
    /\ r \in SqType
    /\ r.live = q.live
    /\ r.covered = q.covered \cup C
    /\ r.notcovered = q.notcovered \cup X
    /\ r.running = q.running \cup R

LEMMA CountedType ==
    ASSUME NEW q \in SqType, NEW F \in SUBSET Tasks, build \in BuildType
    PROVE  Touches(q, Counted(q, F), {}, {}, {})
<1>1. Freed(q, F) \in SUBSET Tasks
  BY GraphType DEF Freed
<1>2. DoneBelow(q, F) \in SUBSET Tasks
  BY DEF DoneBelow, SqType
<1> QED  BY <1>1, <1>2 DEF Counted, SqType, Touches

LEMMA CoveredType ==
    ASSUME NEW q \in SqType, NEW F \in SUBSET Tasks, build \in BuildType
    PROVE  Touches(q, Covered(q, F), F, {}, F)
<1> DEFINE r == [q EXCEPT !.running = @ \cup F, !.buildable = @ \cup F, !.covered = @ \cup F]
<1>1. Touches(q, r, F, {}, F)
  BY DEF SqType, Touches
<1>2. Touches(r, Counted(r, F), {}, {}, {})
  BY <1>1, CountedType DEF Touches
<1>3. Covered(q, F) = Counted(r, F)
  BY DEF Covered
<1> HIDE DEF r
<1> QED  BY <1>1, <1>2, <1>3 DEF Touches

LEMMA NotCoveredType ==
    ASSUME NEW q \in SqType, NEW t \in Tasks, build \in BuildType
    PROVE  Touches(q, NotCovered(q, t), {}, HardFails(q, t), HardFails(q, t))
<1> DEFINE F == HardFails(q, t)
           r == [q EXCEPT !.running = @ \cup F, !.buildable = @ \cup F, !.notcovered = @ \cup F]
<1>0. F \in SUBSET Tasks
  BY GraphType DEF HardFails
<1>1. Touches(q, r, {}, F, F)
  BY <1>0 DEF SqType, Touches
<1>2. Touches(r, Counted(r, F), {}, {}, {})
  BY <1>0, <1>1, CountedType DEF Touches
<1>3. NotCovered(q, t) = Counted(r, F)
  BY DEF NotCovered
<1> HIDE DEF r
<1> QED  BY <1>1, <1>2, <1>3 DEF Touches

LEMMA UndeferType ==
    ASSUME NEW q \in SqType, NEW s
    PROVE  Touches(q, Undefer(q, s), {}, {}, {})
BY DEF SqType, Touches, Undefer

LEMMA LiveType ==
    ASSUME NEW q \in SqType, NEW s \in Tasks
    PROVE  /\ Live(q, s) \in SqType
           /\ Live(q, s).live = q.live \cup {s}
           /\ Live(q, s).running = q.running \cup {s}
           /\ Live(q, s).covered = q.covered
           /\ Live(q, s).notcovered = q.notcovered
<1> DEFINE r == Undefer(q, s)
<1>1. Touches(q, r, {}, {}, {})
  BY UndeferType
<1>2. Live(q, s) = [r EXCEPT !.outrightfail = @ \ {s}, !.running = @ \cup {s}, !.live = @ \cup {s}]
  BY DEF Live
<1> HIDE DEF r
<1>3. /\ r \in SqType /\ r.live = q.live /\ r.running = q.running
      /\ r.covered = q.covered /\ r.notcovered = q.notcovered
  BY <1>1 DEF Touches
<1>4. Live(q, s) = [buildable |-> r.buildable, running |-> r.running \cup {s}, live |-> r.live \cup {s},
                    covered |-> r.covered, notcovered |-> r.notcovered, done |-> r.done,
                    outrightfail |-> r.outrightfail \ {s}, valid |-> r.valid, deferred |-> r.deferred]
  BY <1>2, <1>3 DEF SqType
<1>5. Live(q, s) \in SqType
  BY <1>3, <1>4 DEF SqType
<1> QED  BY <1>3, <1>4, <1>5

LEMMA UpdatedType ==
    ASSUME NEW q \in SqType, NEW T \in SUBSET Tasks, NEW V \in SUBSET Tasks, build \in BuildType
    PROVE  Touches(q, Updated(q, T, V), T \cap Stamped, {}, T \cap Stamped)
<1> DEFINE skipped == T \cap Stamped
           r == IF skipped = {} THEN q ELSE Covered(q, skipped)
           valid == (q.valid \ T) \cup V
           invalid == Setscene \ (valid \cup Decided(r))
           deferred == {d \in invalid \X invalid :
                                    /\ d[2] < d[1] /\ build.index[d[2]] = build.index[d[1]]
                                    /\ \A k \in invalid : build.index[k] = build.index[d[1]] => d[2] <= k}
<1>1. Touches(q, r, skipped, {}, skipped)
  <2>1. CASE skipped = {}
    BY <2>1 DEF Touches
  <2>2. CASE skipped # {}
    BY <2>2, CoveredType
  <2> QED  BY <2>1, <2>2
<1>2. valid \in SUBSET Tasks
  BY DEF SqType
<1>3. invalid \in SUBSET Tasks
  BY GraphType
<1>4. deferred \in SUBSET (Tasks \X Tasks)
  BY <1>3
<1>5. Updated(q, T, V) = [r EXCEPT !.valid = valid, !.outrightfail = @ \cup invalid, !.deferred = deferred]
  BY DEF Updated
<1> HIDE DEF skipped, r, valid, invalid, deferred
<1>6. Touches(q, Updated(q, T, V), skipped, {}, skipped)
  BY <1>1, <1>2, <1>3, <1>4, <1>5 DEF Touches, SqType
<1> QED  BY <1>6 DEF skipped

LEMMA CompletedType ==
    ASSUME NEW r \in RnType, NEW t \in Tasks, build \in BuildType
    PROVE  /\ Completed(r, t) \in RnType
           /\ Completed(r, t).running = r.running
           /\ Completed(r, t).complete = r.complete \cup {t}
           /\ Completed(r, t).tasksrun = r.tasksrun
           /\ Completed(r, t).buildable = r.buildable \cup
                 {v \in Revdeps(t) \ r.running : Depends(v) \subseteq r.complete \cup {t}}
BY GraphType DEF Completed, RnType

-----------------------------------------------------------------------------
(* Types                                                                   *)

Rest ==
    /\ build \in Builds
    /\ state \in {"running", "cleanup", "complete", "failed"}
    /\ pc \in {"validate", "top", "read", "idle", "rehash", "migrate", "hardfail", "scene", "holdoff",
               "task", "wait"}
    /\ sqdone \in BOOLEAN /\ changed \in BOOLEAN /\ stopped \in BOOLEAN /\ unspawned \in BOOLEAN
    /\ rehashes \in 0 .. MaxRehash

LEMMA BuildTyped == build \in Builds => build \in BuildType
BY RunQueueAssumption DEF RunQueueAssumption

LEMMA InitTyped == Init => Typed /\ Rest
<1> SUFFICES ASSUME Init PROVE Typed /\ Rest
  OBVIOUS
<1>1. build \in Builds /\ build \in BuildType
  BY BuildTyped DEF Init
<1>2. sq \in SqType
  <2>1. {s \in Setscene : SqRevdeps(s) = {}} \in SUBSET Tasks
    BY <1>1, GraphType
  <2>2. Unskippable \ Setscene \in SUBSET Tasks
    BY <1>1, GraphType
  <2> QED  BY <2>1, <2>2 DEF Init, SqType, Undecided
<1>3. rn \in RnType
  BY <1>1, GraphType DEF Init, RnType
<1>4. sched \in SchedType
  BY DEF Init, SchedType
<1>5. stamps \in SUBSET Tasks /\ scened \in SUBSET Tasks
  BY <1>1 DEF Init, BuildType
<1>6. sqdone \in BOOLEAN
  BY Zenon DEF Init
<1>7. 0 \in 0 .. MaxRehash
  BY RunQueueAssumption DEF RunQueueAssumption
<1>8. Typed
  BY <1>1, <1>2, <1>3, <1>4, <1>5 DEF Init, Typed
<1>9. Rest
  BY <1>1, <1>6, <1>7 DEF Init, Rest
<1> QED  BY <1>8, <1>9

LEMMA TypedHelpers ==
    ASSUME Typed
    PROVE  /\ Executing \in SUBSET Tasks
           /\ UpToDate \in SUBSET Tasks /\ Stamped \in SUBSET Tasks
           /\ UpdateHoldoff(sched) \in SchedType
           /\ NowBuildable(UpdateHoldoff(sched)) \in RnType
           /\ NowBuildable(UpdateHoldoff(sched)).running = rn.running
           /\ NowBuildable(UpdateHoldoff(sched)).complete = rn.complete
           /\ NowBuildable(UpdateHoldoff(sched)).tasksrun = rn.tasksrun
<1>1. Executing \in SUBSET Tasks
  BY DEF Typed, RnType, Executing
<1>2. UpToDate \in SUBSET Tasks /\ Stamped \in SUBSET Tasks
  BY DEF Typed, UpToDate, Stamped
<1>3. UpdateHoldoff(sched) \in SchedType
  <2> DEFINE notcovered == (sq.notcovered \cup CantskipIn(build) \cup (Unskippable \ Setscene)
                          \cup UNION {CoveredTasks(s) : s \in sq.notcovered}) \cap sq.done
             covered    == ((sq.covered \cup UNION {CoveredTasks(s) : s \in sq.covered}) \ notcovered)
                          \cap sq.done
             open       == Setscene \ Decided(sq)
             holdoff    == open \cup ((UNION {CoveredTasks(s) : s \in open}) \ rn.complete)
  <2>1. notcovered \in SUBSET Tasks /\ covered \in SUBSET Tasks
    BY DEF Typed, SqType
  <2>2. holdoff \in SUBSET Tasks
    BY GraphType DEF Typed
  <2>3. UpdateHoldoff(sched) = IF ~sched.update THEN sched
                               ELSE [covered |-> covered, notcovered |-> notcovered, update |-> FALSE,
                                     holdoff |-> holdoff]
    BY DEF UpdateHoldoff
  <2> HIDE DEF notcovered, covered, holdoff
  <2> QED  BY <2>1, <2>2, <2>3 DEF Typed, SchedType
<1>4. ASSUME NEW v \in SchedType
      PROVE  /\ NowBuildable(v) \in RnType
             /\ NowBuildable(v).running = rn.running
             /\ NowBuildable(v).complete = rn.complete
             /\ NowBuildable(v).tasksrun = rn.tasksrun
  BY DEF NowBuildable, SchedType, Typed, RnType
<1> QED  BY <1>1, <1>2, <1>3, <1>4

LEMMA SkippedType ==
    ASSUME Typed, NEW t \in Tasks
    PROVE  /\ Skipped(rn, t) \in RnType
           /\ Skipped(rn, t).running = rn.running \cup {t}
           /\ Skipped(rn, t).complete = rn.complete \cup {t}
           /\ Skipped(rn, t).tasksrun = rn.tasksrun
           /\ rn.buildable \cup {t} \subseteq Skipped(rn, t).buildable
           /\ \A v \in Revdeps(t) \ (rn.running \cup {t}) :
                 Depends(v) \subseteq rn.complete \cup {t} => v \in Skipped(rn, t).buildable
           /\ Skipped(rn, t).buildable \subseteq rn.buildable \cup {t} \cup
                 {v \in Tasks : Depends(v) \subseteq rn.complete \cup {t}}
<1> DEFINE r == [rn EXCEPT !.running = @ \cup {t}, !.buildable = @ \cup {t}]
<1>1. /\ r \in RnType /\ r.running = rn.running \cup {t} /\ r.complete = rn.complete
      /\ r.buildable = rn.buildable \cup {t} /\ r.tasksrun = rn.tasksrun
  BY DEF Typed, RnType
<1>2. Skipped(rn, t) = Completed(r, t)
  BY DEF Skipped
<1>3. Revdeps(t) \in SUBSET Tasks /\ build \in BuildType
  BY GraphType DEF Typed
<1> HIDE DEF r
<1> QED  BY <1>1, <1>2, <1>3, CompletedType

\* What the pass does, up to the setscene part.
LEMMA MigrationsTyped == Typed /\ Rest /\ (ValidateAll \/ Migrations) => Typed' /\ Rest'
<1> SUFFICES ASSUME Typed, Rest, ValidateAll \/ Migrations
             PROVE  Typed' /\ Rest'
  OBVIOUS
<1> USE DEF Typed, Rest, Goto, hashVars
<1>0. Setscene \in SUBSET Tasks /\ Stamped \in SUBSET Tasks
  BY GraphType, TypedHelpers
<1>1. CASE ValidateAll
  <2>1. PICK V \in SUBSET (Setscene \ Stamped) : sq' = Updated(sq, Setscene, V)
    BY <1>1 DEF ValidateAll
  <2>2. V \in SUBSET Tasks
    BY <1>0
  <2>3. sq' \in SqType
    BY <1>0, <2>1, <2>2, UpdatedType DEF Touches
  <2> QED  BY <1>0, <1>1, <2>3 DEF ValidateAll
<1>2. CASE Rehash
  <2>1. PICK C \in SUBSET (Above(reported \ (rn.running \ rn.complete)) \ (sq.covered \cup sq.live)) :
          /\ pending' = pending \cup (C \cap Setscene)
          /\ look' = pending'
          /\ changed' = (C # {})
          /\ \E K \in SUBSET C : stamps' = (stamps \ C) \cup K
    BY <1>2 DEF Rehash
  <2>2. C \subseteq Tasks
    BY DEF Above
  <2>3. pending' \in SUBSET Tasks /\ look' \in SUBSET Tasks /\ stamps' \in SUBSET Tasks
    BY <1>0, <2>1, <2>2
  <2>4. changed' \in BOOLEAN /\ reported' \in SUBSET Tasks
    BY <2>1, <1>2 DEF Rehash
  <2> QED  BY <1>2, <2>3, <2>4 DEF Rehash
<1>3. CASE EndMigrations
  <2>1. sq' \in SqType /\ sched' \in SchedType /\ sqdone' \in BOOLEAN /\ there' \in SUBSET Tasks
    <3>1. CASE moved = {} /\ sched' = [sched EXCEPT !.update = @ \/ changed] /\ UNCHANGED <<sq, sqdone, there>>
      BY <3>1 DEF SchedType
    <3>2. CASE /\ moved # {}
               /\ sched' = [sched EXCEPT !.update = TRUE]
               /\ \E V \in SUBSET (moved \ Stamped) : sq' = Updated(sq, moved, V)
               /\ there' = there \cup (moved \cap Stamped)
               /\ sqdone' = FALSE
      <4>1. PICK V \in SUBSET (moved \ Stamped) : sq' = Updated(sq, moved, V)
        BY <3>2
      <4>2. sq' \in SqType
        BY <4>1, UpdatedType DEF Touches
      <4> QED  BY <3>2, <4>2 DEF SchedType
    <3> QED  BY <1>3, <3>1, <3>2 DEF EndMigrations
  <2> QED  BY <1>3, <2>1 DEF EndMigrations
<1>4. CASE HardFail
  <2>1. CASE hardfailed = {} /\ pc' = "scene" /\ UNCHANGED <<sq, hardfailed>>
    BY <1>4, <2>1 DEF HardFail
  <2>2. ASSUME NEW s \in hardfailed, sq' = NotCovered(sq, s), hardfailed' = hardfailed \ {s}, UNCHANGED pc
        PROVE  Typed' /\ Rest'
    <3>1. sq' \in SqType
      BY <2>2, NotCoveredType DEF Touches
    <3> QED  BY <1>4, <2>2, <3>1 DEF HardFail
  <2> QED  BY <1>4, <2>1, <2>2 DEF HardFail
<1>5. ASSUME NEW s \in Tasks, MigrateNot(s) PROVE Typed' /\ Rest'
  BY <1>5 DEF MigrateNot
<1>6. ASSUME NEW s \in Tasks, Migrate(s) PROVE Typed' /\ Rest'
  <2>1. sq' \in SqType
    BY <1>6 DEF Migrate, SqType
  <2> QED  BY <1>6, <2>1 DEF Migrate
<1> QED  BY <1>1, <1>2, <1>3, <1>4, <1>5, <1>6 DEF Migrations

\* The setscene part of a pass, and what the workers send.
LEMMA SceneTyped ==
    ASSUME Typed, Rest, NEW s \in Setscene,
           SceneSkip(s) \/ SceneFailOutright(s) \/ SceneStart(s) \/ SetsceneComplete(s) \/ SetsceneFail(s)
    PROVE  Typed' /\ Rest'
<1> USE DEF Typed, Rest, Goto, hashVars
<1>0. s \in Tasks
  BY GraphType
<1>1. CASE SceneSkip(s)
  <2>1. Covered(sq, {s}) \in SqType
    BY <1>0, CoveredType DEF Touches
  <2>2. sq' \in SqType
    BY <1>1, <2>1, UndeferType DEF SceneSkip, Touches
  <2> QED  BY <1>1, <2>2 DEF SceneSkip, SchedType
<1>2. CASE SceneFailOutright(s)
  <2>1. Undefer(sq, s) \in SqType
    BY UndeferType DEF Touches
  <2>2. sq' \in SqType
    BY <1>0, <1>2, <2>1, NotCoveredType DEF SceneFailOutright, Touches
  <2> QED  BY <1>2, <2>2 DEF SceneFailOutright, SchedType
<1>3. CASE SceneStart(s)
  <2>1. sq' \in SqType
    BY <1>0, <1>3, LiveType DEF SceneStart
  <2> QED  BY <1>3, <2>1 DEF SceneStart
<1>4. CASE SetsceneComplete(s)
  <2>1. Covered(sq, {s}) \in SqType
    BY <1>0, CoveredType DEF Touches
  <2>2. sq' \in SqType
    BY <1>4, <2>1 DEF SetsceneComplete, SqType
  <2> QED  BY <1>0, <1>4, <2>2 DEF SetsceneComplete, SchedType
<1>5. CASE SetsceneFail(s)
  <2>1. NotCovered(sq, s) \in SqType
    BY <1>0, NotCoveredType DEF Touches
  <2>2. sq' \in SqType
    BY <1>5, <2>1 DEF SetsceneFail, SqType
  <2> QED  BY <1>5, <2>2 DEF SetsceneFail, SchedType
<1> QED  BY <1>1, <1>2, <1>3, <1>4, <1>5

LEMMA TaskTyped ==
    ASSUME Typed, Rest, NEW t \in Tasks,
           \/ TaskSkipCovered(t) \/ TaskSkipExisting(t) \/ TaskStart(t)
           \/ TaskComplete(t) \/ TaskFail(t) \/ TaskUniHashUpdate(t)
    PROVE  Typed' /\ Rest'
<1> USE DEF Typed, Rest, Goto, hashVars
<1>1. CASE TaskSkipCovered(t)
  <2>1. rn' \in RnType
    BY <1>1, SkippedType DEF TaskSkipCovered
  <2> QED  BY <1>1, <2>1 DEF TaskSkipCovered
<1>2. CASE TaskSkipExisting(t)
  <2>1. Skipped(rn, t) \in RnType
    BY SkippedType
  <2>2. rn' \in RnType
    BY <1>2, <2>1 DEF TaskSkipExisting, RnType
  <2> QED  BY <1>2, <2>2 DEF TaskSkipExisting
<1>3. CASE TaskStart(t)
  <2>1. rn' \in RnType
    BY <1>3 DEF TaskStart, RnType
  <2> QED  BY <1>3, <2>1 DEF TaskStart
<1>4. CASE TaskComplete(t)
  <2>1. Completed(rn, t) \in RnType
    BY CompletedType
  <2>2. rn' \in RnType
    BY <1>4, <2>1 DEF TaskComplete, RnType
  <2> QED  BY <1>4, <2>2 DEF TaskComplete
<1>5. CASE TaskFail(t)
  BY <1>5 DEF TaskFail
<1>6. CASE TaskUniHashUpdate(t)
  <2>1. rehashes' \in 0 .. MaxRehash
    BY <1>6, RunQueueAssumption DEF TaskUniHashUpdate, RunQueueAssumption
  <2> QED  BY <1>6, <2>1 DEF TaskUniHashUpdate
<1> QED  BY <1>1, <1>2, <1>3, <1>4, <1>5, <1>6

\* The other steps of a pass, and the ends of the build.
LEMMA PassTyped ==
    ASSUME Typed, Rest,
           \/ BeginExecute \/ EndRead \/ BeginPass \/ SceneNone \/ Holdoff \/ TaskNone \/ Wait
           \/ ForceDeferred \/ SceneSpawnFails \/ TaskSpawnFails \/ End \/ CleanUp \/ UserFinish \/ FinishNow
    PROVE  Typed' /\ Rest'
<1> USE DEF Typed, Rest, Goto, hashVars
<1>1. CASE BeginExecute \/ EndRead \/ BeginPass \/ SceneNone \/ TaskNone \/ Wait
  BY <1>1 DEF BeginExecute, EndRead, BeginPass, SceneNone, TaskNone, Wait
<1>2. CASE Holdoff
  <2>1. sched' \in SchedType /\ rn' \in RnType
    BY <1>2, TypedHelpers DEF Holdoff
  <2>2. sqdone' \in BOOLEAN /\ state' \in {"running", "cleanup", "complete", "failed"} /\ pc' \in {"top", "task"}
    BY <1>2 DEF Holdoff
  <2> QED  BY <1>2, <2>1, <2>2 DEF Holdoff
<1>3. CASE ForceDeferred
  <2>1. PICK d \in sq.deferred : sq' = NotCovered([sq EXCEPT !.deferred = @ \ {d}], d[2])
    BY <1>3 DEF ForceDeferred
  <2>2. [sq EXCEPT !.deferred = @ \ {d}] \in SqType /\ d[2] \in Tasks
    BY DEF SqType
  <2>3. sq' \in SqType
    BY <2>1, <2>2, NotCoveredType DEF Touches
  <2> QED  BY <1>3, <2>3 DEF ForceDeferred, SchedType
<1>4. CASE SceneSpawnFails \/ TaskSpawnFails \/ End \/ CleanUp \/ UserFinish \/ FinishNow
  BY <1>4 DEF SceneSpawnFails, TaskSpawnFails, End, CleanUp, UserFinish, FinishNow
<1> QED  BY <1>1, <1>2, <1>3, <1>4

LEMMA NextTyped == Typed /\ Rest /\ [Next]_vars => Typed' /\ Rest'
<1> SUFFICES ASSUME Typed, Rest, [Next]_vars
             PROVE  Typed' /\ Rest'
  OBVIOUS
<1>1. CASE UNCHANGED vars
  BY <1>1 DEF vars, hashVars, Typed, Rest
<1>2. CASE Pass
  BY <1>2, MigrationsTyped, SceneTyped, TaskTyped, PassTyped DEF Pass
<1>3. CASE WorkerEnds
  BY <1>3, SceneTyped, TaskTyped DEF WorkerEnds
<1> QED  BY <1>1, <1>2, <1>3, TaskTyped, PassTyped DEF Next, Ended

-----------------------------------------------------------------------------
(* What runs                                                               *)

\* No step but a start makes more tasks run, and what is complete stays so.
RunsLess ==
    /\ sq'.live \subseteq sq.live
    /\ Executing' \subseteq Executing
    /\ rn.complete \subseteq rn'.complete

LEMMA SceneRuns ==
    ASSUME Typed, NEW s \in Setscene,
           SceneSkip(s) \/ SceneFailOutright(s) \/ SetsceneComplete(s) \/ SetsceneFail(s)
    PROVE  RunsLess
<1> USE DEF Typed, RunsLess, Executing
<1>0. s \in Tasks
  BY GraphType
<1>1. CASE SceneSkip(s)
  <2>1. Touches(sq, Covered(sq, {s}), {s}, {}, {s})
    BY <1>0, CoveredType
  <2>2. sq'.live = sq.live
    BY <1>1, <2>1, UndeferType DEF SceneSkip, Touches
  <2> QED  BY <1>1, <2>2 DEF SceneSkip
<1>2. CASE SceneFailOutright(s)
  <2>1. Touches(sq, Undefer(sq, s), {}, {}, {})
    BY UndeferType
  <2>2. sq'.live = sq.live
    BY <1>0, <1>2, <2>1, NotCoveredType DEF SceneFailOutright, Touches
  <2> QED  BY <1>2, <2>2 DEF SceneFailOutright
<1>3. CASE SetsceneComplete(s)
  <2>1. Touches(sq, Covered(sq, {s}), {s}, {}, {s})
    BY <1>0, CoveredType
  <2>2. sq'.live = sq.live \ {s}
    BY <1>3, <2>1 DEF SetsceneComplete, Touches, SqType
  <2> QED  BY <1>3, <2>2 DEF SetsceneComplete
<1>4. CASE SetsceneFail(s)
  <2>1. Touches(sq, NotCovered(sq, s), {}, HardFails(sq, s), HardFails(sq, s))
    BY <1>0, NotCoveredType
  <2>2. sq'.live = sq.live \ {s}
    BY <1>4, <2>1 DEF SetsceneFail, Touches, SqType
  <2> QED  BY <1>4, <2>2 DEF SetsceneFail
<1> QED  BY <1>1, <1>2, <1>3, <1>4

LEMMA TaskRuns ==
    ASSUME Typed, NEW t \in Tasks,
           \/ TaskSkipCovered(t) \/ TaskSkipExisting(t)
           \/ TaskComplete(t) \/ TaskFail(t) \/ TaskUniHashUpdate(t)
    PROVE  RunsLess
<1> USE DEF Typed, RunsLess, Executing
<1>1. CASE TaskSkipCovered(t)
  BY <1>1, SkippedType DEF TaskSkipCovered
<1>2. CASE TaskSkipExisting(t)
  <2>1. rn'.running = Skipped(rn, t).running /\ rn'.complete = Skipped(rn, t).complete
    BY <1>2, SkippedType DEF TaskSkipExisting, RnType
  <2> QED  BY <1>2, <2>1, SkippedType DEF TaskSkipExisting
<1>3. CASE TaskComplete(t)
  <2>1. /\ Completed(rn, t) \in RnType
        /\ Completed(rn, t).running = rn.running
        /\ Completed(rn, t).complete = rn.complete \cup {t}
    BY CompletedType
  <2>2. rn'.running = rn.running /\ rn'.complete = rn.complete \cup {t}
    BY <1>3, <2>1 DEF TaskComplete, RnType
  <2> QED  BY <1>3, <2>2 DEF TaskComplete
<1>4. CASE TaskFail(t)
  BY <1>4 DEF TaskFail
<1>5. CASE TaskUniHashUpdate(t)
  BY <1>5 DEF TaskUniHashUpdate
<1> QED  BY <1>1, <1>2, <1>3, <1>4, <1>5

LEMMA MigrationsRun == Typed /\ (ValidateAll \/ Migrations) => RunsLess
<1> SUFFICES ASSUME Typed, ValidateAll \/ Migrations
             PROVE  RunsLess
  OBVIOUS
<1> USE DEF Typed, RunsLess, Executing
<1>0. Setscene \in SUBSET Tasks
  BY GraphType
<1>1. CASE ValidateAll
  <2>1. PICK V \in SUBSET (Setscene \ Stamped) : sq' = Updated(sq, Setscene, V)
    BY <1>1 DEF ValidateAll
  <2>2. V \in SUBSET Tasks
    BY <1>0
  <2>3. Touches(sq, Updated(sq, Setscene, V), Setscene \cap Stamped, {}, Setscene \cap Stamped)
    BY <1>0, <2>2, UpdatedType
  <2>4. sq'.live = sq.live
    BY <2>1, <2>3 DEF Touches
  <2> QED  BY <1>1, <2>4 DEF ValidateAll
<1>2. CASE Rehash
  BY <1>2 DEF Rehash
<1>3. CASE EndMigrations
  <2>1. UNCHANGED sq \/ \E V \in SUBSET (moved \ Stamped) : sq' = Updated(sq, moved, V)
    BY <1>3 DEF EndMigrations
  <2>2. ASSUME NEW V \in SUBSET (moved \ Stamped), sq' = Updated(sq, moved, V)
        PROVE  sq'.live = sq.live
    <3>1. V \in SUBSET Tasks
      OBVIOUS
    <3>2. Touches(sq, Updated(sq, moved, V), moved \cap Stamped, {}, moved \cap Stamped)
      BY <3>1, UpdatedType
    <3> QED  BY <2>2, <3>2 DEF Touches
  <2>3. sq'.live = sq.live
    BY <2>1, <2>2
  <2> QED  BY <1>3, <2>3 DEF EndMigrations
<1>4. CASE HardFail
  <2>1. UNCHANGED sq \/ \E s \in hardfailed : sq' = NotCovered(sq, s)
    BY <1>4 DEF HardFail
  <2>2. sq'.live = sq.live
    BY <2>1, NotCoveredType DEF Touches
  <2> QED  BY <1>4, <2>2 DEF HardFail
<1>5. ASSUME NEW s \in Tasks, MigrateNot(s) PROVE RunsLess
  BY <1>5 DEF MigrateNot
<1>6. ASSUME NEW s \in Tasks, Migrate(s) PROVE RunsLess
  <2>1. sq'.live = sq.live
    BY <1>6 DEF Migrate, SqType
  <2> QED  BY <1>6, <2>1 DEF Migrate
<1> QED  BY <1>1, <1>2, <1>3, <1>4, <1>5, <1>6 DEF Migrations

LEMMA PassRuns ==
    ASSUME Typed,
           \/ BeginExecute \/ EndRead \/ BeginPass \/ SceneNone \/ Holdoff \/ TaskNone \/ Wait
           \/ ForceDeferred \/ SceneSpawnFails \/ TaskSpawnFails \/ End \/ CleanUp \/ UserFinish \/ FinishNow
    PROVE  RunsLess
<1> USE DEF Typed, RunsLess, Executing
<1>1. CASE BeginExecute \/ EndRead \/ BeginPass \/ SceneNone \/ TaskNone \/ Wait
  BY <1>1 DEF BeginExecute, EndRead, BeginPass, SceneNone, TaskNone, Wait
<1>2. CASE Holdoff
  BY <1>2, TypedHelpers DEF Holdoff
<1>3. CASE ForceDeferred
  <2>1. PICK d \in sq.deferred : sq' = NotCovered([sq EXCEPT !.deferred = @ \ {d}], d[2])
    BY <1>3 DEF ForceDeferred
  <2>2. /\ [sq EXCEPT !.deferred = @ \ {d}] \in SqType /\ d[2] \in Tasks
        /\ [sq EXCEPT !.deferred = @ \ {d}].live = sq.live
    BY DEF SqType
  <2>3. sq'.live = sq.live
    BY <2>1, <2>2, NotCoveredType DEF Touches
  <2> QED  BY <1>3, <2>3 DEF ForceDeferred
<1>4. CASE SceneSpawnFails \/ TaskSpawnFails \/ End \/ CleanUp \/ UserFinish \/ FinishNow
  BY <1>4 DEF SceneSpawnFails, TaskSpawnFails, End, CleanUp, UserFinish, FinishNow
<1> QED  BY <1>1, <1>2, <1>3, <1>4

LEMMA NextRuns ==
    ASSUME Typed, [Next]_vars
    PROVE  \/ RunsLess
           \/ \E s \in Setscene : SceneStart(s)
           \/ \E t \in Tasks : TaskStart(t)
<1>1. CASE UNCHANGED vars
  BY <1>1 DEF vars, hashVars, RunsLess, Executing
<1>2. CASE Pass
  BY <1>2, MigrationsRun, SceneRuns, TaskRuns, PassRuns DEF Pass
<1>3. CASE WorkerEnds
  BY <1>3, SceneRuns, TaskRuns DEF WorkerEnds
<1> QED  BY <1>1, <1>2, <1>3, TaskRuns, PassRuns DEF Next, Ended

-----------------------------------------------------------------------------
(* The limit of the threads                                                *)

LEMMA ActiveTyped ==
    ASSUME Typed
    PROVE  /\ IsFiniteSet(sq.live) /\ Cardinality(sq.live) \in Nat
           /\ IsFiniteSet(Executing) /\ Cardinality(Executing) \in Nat
<1>1. IsFiniteSet(Tasks)
  BY FS_Interval, RunQueueAssumption DEF Tasks, RunQueueAssumption
<1>2. sq.live \in SUBSET Tasks /\ Executing \in SUBSET Tasks
  BY TypedHelpers DEF Typed, SqType
<1> QED  BY <1>1, <1>2, FS_Subset, FS_CardinalityType

LEMMA OneMore ==
    ASSUME NEW S, NEW x, IsFiniteSet(S)
    PROVE  IsFiniteSet(S \cup {x}) /\ Cardinality(S \cup {x}) <= Cardinality(S) + 1
<1>1. IsFiniteSet(S \cup {x})
  BY FS_AddElement
<1>2. Cardinality(S) \in Nat
  BY FS_CardinalityType
<1>3. Cardinality(S \cup {x}) = Cardinality(S) \/ Cardinality(S \cup {x}) = Cardinality(S) + 1
  BY FS_AddElement, Zenon
<1> QED  BY <1>1, <1>2, <1>3

LEMMA ActiveNext ==
    ASSUME Typed, Rest, Active <= NumberTasks, [Next]_vars
    PROVE  Active' <= NumberTasks
<1>1. Typed'
  BY NextTyped
<1>2. /\ IsFiniteSet(sq.live) /\ Cardinality(sq.live) \in Nat
      /\ IsFiniteSet(Executing) /\ Cardinality(Executing) \in Nat
  BY ActiveTyped
<1>3. /\ Cardinality(sq'.live) \in Nat
      /\ Cardinality(Executing') \in Nat
  <2>1. (Cardinality(sq.live) \in Nat /\ Cardinality(Executing) \in Nat)'
    BY <1>1, ActiveTyped, PTL
  <2> QED  BY <2>1
<1>4. NumberTasks \in Nat
  BY RunQueueAssumption DEF RunQueueAssumption
<1>5. CASE RunsLess
  <2>1. Cardinality(sq'.live) <= Cardinality(sq.live)
    BY <1>2, <1>5, FS_Subset DEF RunsLess
  <2>2. Cardinality(Executing') <= Cardinality(Executing)
    BY <1>2, <1>5, FS_Subset DEF RunsLess
  <2> QED  BY <1>2, <1>3, <1>4, <2>1, <2>2 DEF Active
<1>6. ASSUME NEW s \in Setscene, SceneStart(s) PROVE Active' <= NumberTasks
  <2>1. s \in Tasks
    BY GraphType DEF Typed
  <2>2. sq'.live = sq.live \cup {s}
    BY <1>6, <2>1, LiveType DEF SceneStart, Typed
  <2>3. Executing' = Executing
    BY <1>6 DEF SceneStart, Executing
  <2>4. Cardinality(sq'.live) <= Cardinality(sq.live) + 1
    BY <1>2, <2>2, OneMore
  <2>5. Active < NumberTasks
    BY <1>6 DEF SceneStart, Selectable, CanStart
  <2> QED  BY <1>2, <1>3, <1>4, <2>3, <2>4, <2>5 DEF Active
<1>7. ASSUME NEW t \in Tasks, TaskStart(t) PROVE Active' <= NumberTasks
  <2>1. Executing' \in SUBSET (Executing \cup {t})
    BY <1>7 DEF TaskStart, Executing, Typed, RnType
  <2>2. sq'.live = sq.live
    BY <1>7 DEF TaskStart
  <2>3. Cardinality(Executing \cup {t}) <= Cardinality(Executing) + 1 /\ IsFiniteSet(Executing \cup {t})
    BY <1>2, OneMore
  <2>4. Cardinality(Executing') <= Cardinality(Executing \cup {t})
    BY <2>1, <2>3, FS_Subset
  <2>5. Cardinality(Executing \cup {t}) \in Nat
    BY <2>3, FS_CardinalityType
  <2>6. Active < NumberTasks
    BY <1>7 DEF TaskStart, Next_buildable, CanStart
  <2> QED  BY <1>2, <1>3, <1>4, <2>2, <2>3, <2>4, <2>5, <2>6 DEF Active
<1> QED  BY <1>5, <1>6, <1>7, NextRuns

LEMMA ActiveInit == Init => Active <= NumberTasks
<1> SUFFICES ASSUME Init PROVE Active <= NumberTasks
  OBVIOUS
<1>1. sq.live = {}
  BY DEF Init, Undecided
<1>2. Executing = {}
  BY DEF Init, Executing
<1> QED  BY <1>1, <1>2, FS_EmptySet, RunQueueAssumption DEF Active, RunQueueAssumption

QueueInv == Typed /\ Rest /\ Active <= NumberTasks

\* The types, with the limit of the threads, are inductive.
THEOREM QueueInvariant == Spec => []QueueInv
<1>1. Init => QueueInv
  BY InitTyped, ActiveInit DEF QueueInv
<1>2. QueueInv /\ [Next]_vars => QueueInv'
  <2> SUFFICES ASSUME QueueInv, [Next]_vars PROVE QueueInv'
    OBVIOUS
  <2>1. Typed' /\ Rest'
    BY NextTyped DEF QueueInv
  <2>2. Active' <= NumberTasks
    BY ActiveNext DEF QueueInv
  <2>3. NumberTasks' = NumberTasks
    OBVIOUS
  <2> QED  BY <2>1, <2>2, <2>3 DEF QueueInv
<1> QED  BY <1>1, <1>2, PTL DEF Spec

\* Every reachable state of a build is well typed, and never do more tasks and setscene tasks run
\* than BB_NUMBER_THREADS, whatever fails.
THEOREM RunQueueTypeCorrect == Spec => []RunQueueTypeOK
<1>1. QueueInv => RunQueueTypeOK
  <2> SUFFICES ASSUME QueueInv PROVE RunQueueTypeOK
    OBVIOUS
  <2>1. {failed, reported, pending, look, moved, hardfailed, stamps, scened, there} \subseteq SUBSET Tasks
    BY DEF QueueInv, Typed
  <2>2. {sqdone, changed, stopped, unspawned} \subseteq BOOLEAN
    BY DEF QueueInv, Rest
  <2> QED  BY <2>1, <2>2 DEF QueueInv, Typed, Rest, RunQueueTypeOK
<1> QED  BY <1>1, QueueInvariant, PTL

-----------------------------------------------------------------------------
(* The order of the tasks                                                  *)

Ready(t) == Depends(t) \subseteq rn.complete

\* Buildable tasks are ready too, and stay so: complete only grows.
ReadyInv == \A t \in rn.buildable \cup rn.running : Ready(t)

\* Who becomes buildable in NowBuildable and Completed is ready; the others were.
LEMMA ReadyKept ==
    ASSUME Typed, ReadyInv, build' = build, rn.complete \subseteq rn'.complete,
           \A t \in rn'.buildable \cup rn'.running :
              t \in rn.buildable \cup rn.running \/ Depends(t) \subseteq rn'.complete
    PROVE  ReadyInv'
BY DEF ReadyInv, Ready, Depends

LEMMA ReadyTask ==
    ASSUME Typed, ReadyInv, NEW t \in Tasks,
           \/ TaskSkipCovered(t) \/ TaskSkipExisting(t) \/ TaskStart(t)
           \/ TaskComplete(t) \/ TaskFail(t) \/ TaskUniHashUpdate(t)
    PROVE  ReadyInv'
<1>1. CASE TaskSkipCovered(t) \/ TaskSkipExisting(t)
  <2>1. t \in rn.buildable /\ build' = build
    BY <1>1 DEF TaskSkipCovered, TaskSkipExisting, Next_buildable
  <2>2. /\ rn'.running = rn.running \cup {t}
        /\ rn'.complete = rn.complete \cup {t}
        /\ rn'.buildable \subseteq rn.buildable \cup {t} \cup
              {v \in Tasks : Depends(v) \subseteq rn.complete \cup {t}}
    <3>1. CASE TaskSkipCovered(t)
      BY <3>1, SkippedType DEF TaskSkipCovered
    <3>2. CASE TaskSkipExisting(t)
      <4>1. /\ rn'.running = Skipped(rn, t).running /\ rn'.complete = Skipped(rn, t).complete
            /\ rn'.buildable = Skipped(rn, t).buildable
        BY <3>2, SkippedType DEF TaskSkipExisting, RnType
      <4> QED  BY <4>1, SkippedType
    <3> QED  BY <1>1, <3>1, <3>2
  <2> QED  BY <2>1, <2>2, ReadyKept
<1>2. CASE TaskStart(t)
  <2>1. t \in rn.buildable /\ build' = build
    BY <1>2 DEF TaskStart, Next_buildable
  <2>2. rn'.running = rn.running \cup {t} /\ rn'.complete = rn.complete /\ rn'.buildable = rn.buildable
    BY <1>2 DEF TaskStart, Typed, RnType
  <2> QED  BY <2>1, <2>2, ReadyKept
<1>3. CASE TaskComplete(t)
  <2>1. /\ Completed(rn, t) \in RnType
        /\ Completed(rn, t).running = rn.running
        /\ Completed(rn, t).complete = rn.complete \cup {t}
        /\ Completed(rn, t).buildable = rn.buildable \cup
                 {v \in Revdeps(t) \ rn.running : Depends(v) \subseteq rn.complete \cup {t}}
    BY CompletedType DEF Typed
  <2>2. /\ rn'.running = rn.running /\ rn'.complete = rn.complete \cup {t}
        /\ rn'.buildable = Completed(rn, t).buildable
        /\ build' = build
    BY <1>3, <2>1 DEF TaskComplete, RnType
  <2> QED  BY <2>1, <2>2, ReadyKept
<1>4. CASE TaskFail(t) \/ TaskUniHashUpdate(t)
  BY <1>4, ReadyKept DEF TaskFail, TaskUniHashUpdate
<1> QED  BY <1>1, <1>2, <1>3, <1>4

LEMMA ReadyHoldoff ==
    ASSUME Typed, ReadyInv, Holdoff
    PROVE  ReadyInv'
<1> DEFINE v == UpdateHoldoff(sched)
<1>1. /\ NowBuildable(v).running = rn.running /\ NowBuildable(v).complete = rn.complete
      /\ v \in SchedType
  BY TypedHelpers
<1>2. NowBuildable(v).buildable \subseteq rn.buildable \cup {t \in Tasks : Depends(t) \subseteq rn.complete}
  <2> HIDE DEF v
  <2> QED  BY <1>1 DEF NowBuildable, Typed, RnType, SchedType
<1>3. rn' = NowBuildable(v) /\ build' = build
  BY DEF Holdoff
<1> HIDE DEF v
<1> QED  BY <1>1, <1>2, <1>3, ReadyKept

LEMMA ReadyOther ==
    ASSUME Typed, ReadyInv, rn' = rn, build' = build
    PROVE  ReadyInv'
BY ReadyKept

LEMMA NextReady == Typed /\ ReadyInv /\ [Next]_vars => ReadyInv'
<1> SUFFICES ASSUME Typed, ReadyInv, [Next]_vars
             PROVE  ReadyInv'
  OBVIOUS
<1>1. CASE UNCHANGED vars
  BY <1>1, ReadyOther DEF vars
<1>2. CASE Pass
  <2>1. CASE ValidateAll \/ Migrations
    <3>1. rn' = rn /\ build' = build
      BY <2>1 DEF ValidateAll, Migrations, Rehash, EndMigrations, HardFail, MigrateNot, Migrate
    <3> QED  BY <3>1, ReadyOther
  <2>2. CASE \/ BeginExecute \/ EndRead \/ BeginPass \/ SceneNone \/ TaskNone \/ Wait
           \/ ForceDeferred \/ SceneSpawnFails \/ TaskSpawnFails \/ End \/ CleanUp
    <3>1. rn' = rn /\ build' = build
      BY <2>2 DEF BeginExecute, EndRead, BeginPass, SceneNone, TaskNone, Wait,
        ForceDeferred, SceneSpawnFails, TaskSpawnFails, End, CleanUp
    <3> QED  BY <3>1, ReadyOther
  <2>3. ASSUME NEW s \in Setscene, SceneSkip(s) \/ SceneFailOutright(s) \/ SceneStart(s) PROVE ReadyInv'
    <3>1. rn' = rn /\ build' = build
      BY <2>3 DEF SceneSkip, SceneFailOutright, SceneStart
    <3> QED  BY <3>1, ReadyOther
  <2> QED  BY <1>2, <2>1, <2>2, <2>3, ReadyTask, ReadyHoldoff DEF Pass
<1>3. CASE WorkerEnds
  <2>1. ASSUME NEW s \in Setscene, SetsceneComplete(s) \/ SetsceneFail(s) PROVE ReadyInv'
    <3>1. rn' = rn /\ build' = build
      BY <2>1 DEF SetsceneComplete, SetsceneFail
    <3> QED  BY <3>1, ReadyOther
  <2> QED  BY <1>3, <2>1, ReadyTask DEF WorkerEnds
<1>4. CASE UserFinish \/ FinishNow
  <2>1. rn' = rn /\ build' = build
    BY <1>4 DEF UserFinish, FinishNow
  <2> QED  BY <2>1, ReadyOther
<1> QED  BY <1>1, <1>2, <1>3, <1>4, ReadyTask DEF Next, Ended

LEMMA InitReady == Init => ReadyInv
<1> SUFFICES ASSUME Init PROVE ReadyInv
  OBVIOUS
<1>1. rn.buildable = {t \in Unskippable \ Setscene : Depends(t) = {}} /\ rn.running = {}
  BY DEF Init
<1> QED  BY <1>1 DEF ReadyInv, Ready

\* What is buildable or running has all that it depends on complete.
THEOREM ReadyInvariant == Spec => []ReadyInv
<1>1. QueueInv => Typed
  BY DEF QueueInv
<1> QED  BY <1>1, InitReady, NextReady, QueueInvariant, PTL DEF Spec

\* A task runs, or is skipped, only when all it depends on is complete: for every build, every
\* outcome of its tasks, and every change of their hashes.
THEOREM DependenciesFirst == Spec => []DepsFirst
<1>1. ReadyInv => DepsFirst
  BY DEF ReadyInv, Ready, DepsFirst
<1> QED  BY <1>1, ReadyInvariant, PTL
=============================================================================
