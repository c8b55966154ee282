------------------------ MODULE RunQueueSceneProofs ------------------------
(***************************************************************************)
(* The setscene side of the run queue, for every build, every number of    *)
(* threads and every bound.  Three inductive invariants, each resting on   *)
(* those before it:                                                        *)
(*   RestoreInv  which setscene tasks are decided, running or wait to be   *)
(*               tried again, and what is held off for them: hence         *)
(*               SceneExcludesCovered;                                     *)
(*   OutputInv   what was skipped, and why nothing that is executed needs  *)
(*               it: hence InputsPresent, and that a setscene task is      *)
(*               never tried again for which a task was skipped, and, with *)
(*               OverInv, TargetsDelivered;                                *)
(*   EndInv      why the build never stops short: hence FailureHasCause.   *)
(***************************************************************************)
EXTENDS RunQueueProofs, WellFoundedInduction

-----------------------------------------------------------------------------
(* How the setscene tasks are decided.                                     *)

LEMMA HardFacts ==
    ASSUME build \in Builds, NEW h \in Tasks
    PROVE  /\ build.hard[h] \subseteq Setscene \ {h}
           /\ \A s \in build.hard[h] : build.hard[s] = {} /\ h \in SqRevdeps(s) /\ s \in Tasks
<1>1. build \in BuildType
  BY BuildTyped
<1>2. build.hard[h] \subseteq Setscene \ {h}
  BY RunQueueAssumption DEF RunQueueAssumption, Setscene
<1>3. ASSUME NEW s \in build.hard[h] PROVE build.hard[s] = {} /\ h \in SqRevdeps(s) /\ s \in Tasks
  <2>1. s \in Tasks
    BY <1>1, <1>2, GraphType
  <2>2. h \in build.setscene
    BY RunQueueAssumption DEF RunQueueAssumption
  <2>3. h \in SqRevdeps(s)
    BY <2>2 DEF SqRevdeps, SqRevdepsIn
  <2> QED  BY <2>1, <2>3, RunQueueAssumption DEF RunQueueAssumption
<1> QED  BY <1>2, <1>3

Waiting(q) == q.buildable \ q.running

\* From q to r the tasks C become covered and the tasks X not, and setscene tasks that wait for
\* nothing more may start.
Decides(q, r, C, X) ==
    /\ Touches(q, r, C, X, C \cup X)
    /\ r.deferred \subseteq q.deferred \cup (Setscene \X Setscene)
    /\ \A s \in Waiting(r) : s \in Waiting(q) \/ SqRevdeps(s) \subseteq Decided(r)

LEMMA ComposeDecides ==
    ASSUME NEW q, NEW r, NEW u, NEW C, NEW X, NEW C2, NEW X2, Decides(q, r, C, X), Decides(r, u, C2, X2)
    PROVE  Decides(q, u, C \cup C2, X \cup X2)
<1>1. Touches(q, u, C \cup C2, X \cup X2, (C \cup C2) \cup (X \cup X2))
  BY DEF Decides, Touches
<1>2. Decided(r) \subseteq Decided(u)
  BY DEF Decides, Touches, Decided
<1> QED  BY <1>1, <1>2 DEF Decides

LEMMA CountedDecides ==
    ASSUME NEW q \in SqType, NEW F \in SUBSET Tasks, build \in BuildType
    PROVE  Decides(q, Counted(q, F), {}, {})
<1>1. Touches(q, Counted(q, F), {}, {}, {} \cup {})
  BY CountedType DEF Touches
<1>2. Counted(q, F).buildable = q.buildable \cup Freed(q, F) /\ Counted(q, F).deferred = q.deferred
  BY DEF Counted, SqType
<1>3. Decided(Counted(q, F)) = Decided(q)
  BY <1>1 DEF Touches, Decided
<1>4. Waiting(Counted(q, F)) \subseteq Waiting(q) \cup Freed(q, F)
  BY <1>1, <1>2 DEF Touches, Waiting
<1> QED  BY <1>1, <1>2, <1>3, <1>4 DEF Decides, Freed

LEMMA CoveredDecides ==
    ASSUME NEW q \in SqType, NEW F \in SUBSET Tasks, build \in BuildType
    PROVE  Decides(q, Covered(q, F), F, {})
<1> DEFINE r == [q EXCEPT !.running = @ \cup F, !.buildable = @ \cup F, !.covered = @ \cup F]
<1>1. Decides(q, r, F, {})
  BY DEF Decides, Touches, SqType, Waiting
<1>2. Covered(q, F) = Counted(r, F)
  BY DEF Covered
<1>3. r \in SqType
  BY <1>1 DEF Decides, Touches
<1> HIDE DEF r
<1>4. Decides(r, Counted(r, F), {}, {})
  BY <1>3, CountedDecides
<1>5. F \cup {} = F
  OBVIOUS
<1> QED  BY <1>1, <1>2, <1>4, <1>5, ComposeDecides

LEMMA NotCoveredDecides ==
    ASSUME NEW q \in SqType, NEW t \in Tasks, build \in BuildType
    PROVE  Decides(q, NotCovered(q, t), {}, HardFails(q, t))
<1> DEFINE F == HardFails(q, t)
           r == [q EXCEPT !.running = @ \cup F, !.buildable = @ \cup F, !.notcovered = @ \cup F]
<1>0. F \in SUBSET Tasks
  BY GraphType DEF HardFails
<1>1. Decides(q, r, {}, F)
  BY <1>0 DEF Decides, Touches, SqType, Waiting
<1>2. NotCovered(q, t) = Counted(r, F)
  BY DEF NotCovered
<1>3. r \in SqType
  BY <1>1 DEF Decides, Touches
<1> HIDE DEF r, F
<1>4. Decides(r, Counted(r, F), {}, {})
  BY <1>0, <1>3, CountedDecides
<1>5. F \cup {} = F
  OBVIOUS
<1> QED  BY <1>1, <1>2, <1>4, <1>5, ComposeDecides DEF F

LEMMA UndeferDecides ==
    ASSUME NEW q \in SqType, NEW s
    PROVE  Decides(q, Undefer(q, s), {}, {})
BY UndeferType DEF Decides, Touches, SqType, Undefer, Waiting

LEMMA UpdatedDecides ==
    ASSUME NEW q \in SqType, NEW T \in SUBSET Tasks, NEW V \in SUBSET Tasks, build \in BuildType
    PROVE  Decides(q, Updated(q, T, V), T \cap Stamped, {})
<1> DEFINE skipped == T \cap Stamped
           r == IF skipped = {} THEN q ELSE Covered(q, skipped)
           valid == (q.valid \ T) \cup V
           invalid == Setscene \ (valid \cup Decided(r))
           deferred == {d \in invalid \X invalid :
                                    /\ d[2] < d[1] /\ build.index[d[2]] = build.index[d[1]]
                                    /\ \A k \in invalid : build.index[k] = build.index[d[1]] => d[2] <= k}
           u == [r EXCEPT !.valid = valid, !.outrightfail = @ \cup invalid, !.deferred = deferred]
<1>1. Decides(q, r, skipped, {})
  <2>1. CASE skipped = {}
    BY <2>1 DEF Decides, Touches
  <2>2. CASE skipped # {}
    BY <2>2, CoveredDecides
  <2> QED  BY <2>1, <2>2
<1>2. r \in SqType
  BY <1>1 DEF Decides, Touches
<1>3. deferred \subseteq Setscene \X Setscene
  OBVIOUS
<1>4. Updated(q, T, V) = u
  BY DEF Updated
<1> HIDE DEF r, valid, invalid, deferred
<1>5. /\ u.deferred = deferred /\ u.buildable = r.buildable /\ u.running = r.running
      /\ u.covered = r.covered /\ u.notcovered = r.notcovered
  BY <1>2 DEF SqType
<1>6. Touches(q, u, skipped, {}, skipped \cup {})
  <2>1. Touches(q, Updated(q, T, V), skipped, {}, skipped)
    BY UpdatedType
  <2>2. skipped \cup {} = skipped
    OBVIOUS
  <2> HIDE DEF skipped, u
  <2> QED  BY <1>4, <2>1, <2>2
<1>7. Decided(u) = Decided(r) /\ Waiting(u) = Waiting(r)
  BY <1>5 DEF Decided, Waiting
<1>8. u.deferred \subseteq q.deferred \cup (Setscene \X Setscene)
  BY <1>3, <1>5
<1>9. \A s \in Waiting(u) : s \in Waiting(q) \/ SqRevdeps(s) \subseteq Decided(u)
  BY <1>1, <1>7 DEF Decides
<1> HIDE DEF u, skipped
<1>10. Decides(q, u, skipped, {})
  BY <1>6, <1>8, <1>9 DEF Decides
<1> QED  BY <1>4, <1>10 DEF skipped

-----------------------------------------------------------------------------
(* The invariant                                                           *)

\* What runs or is decided on the setscene side, and where the locals of process_possible_migrations
\* are empty.
SceneInv ==
    /\ Decided(sq) \subseteq sq.running \cap Setscene
    /\ sq.live \subseteq sq.running \cap Setscene
    /\ sq.live \cap (Decided(sq) \cup moved \cup hardfailed) = {}
    /\ sq.deferred \subseteq Setscene \X Setscene
    /\ moved \subseteq Setscene /\ hardfailed \subseteq Setscene
    /\ pc # "migrate" => moved = {}
    /\ pc \notin {"migrate", "hardfail"} => hardfailed = {}
    /\ pc = "validate" => sq.live = {} /\ pending = {}

\* A setscene task that needs another one neither runs nor is chosen before that one is decided, and
\* fails with it.
HardInv ==
    /\ \A h \in Tasks : \A s \in build.hard[h] :
          /\ s \in sq.live \cup Waiting(sq) => h \in Decided(sq)
          /\ h \in sq.notcovered => s \in Decided(sq) \cup hardfailed
    /\ \A s \in hardfailed : build.hard[s] = {}
    /\ pc = "migrate" => hardfailed \cap sq.buildable = {} /\ hardfailed \subseteq moved
    /\ hardfailed # {} => moved # {} \/ sched.update

Replaced(s) == {s} \cup CoveredTasks(s)

\* The tasks of undecided ones are held off or complete as long as holdoff_tasks is up to date, and
\* it is brought up to date before a task is started.
HoldInv ==
    /\ pc = "task" => ~sched.update /\ moved = {}
    /\ (~sched.update /\ moved = {}) =>
          \A s \in Setscene \ Decided(sq) : Replaced(s) \subseteq sched.holdoff \cup rn.complete
    /\ \A s \in Setscene \ Decided(sq) : Executing \cap Replaced(s) = {}

\* A failed task stays running, so that what replaces it never is moved again.
Blocked(s) == CoveredTasks(s) \cap failed # {}

\* A setscene task that waits to be moved is given up, or can not be moved any more.
PendingInv ==
    /\ failed \subseteq rn.running \ rn.complete
    /\ rn.complete \subseteq rn.running
    /\ pending \subseteq Setscene /\ look \subseteq pending
    /\ pc # "migrate" => look = {}
    /\ moved \cap pending = {}
    /\ \A s \in pending : s \in sq.covered \cup sq.live => Blocked(s)
    /\ \A s \in pending \ look : s \in Decided(sq) \/ Blocked(s)

RestoreInv == SceneInv /\ HardInv /\ HoldInv /\ PendingInv

LEMMA SameGraph ==
    ASSUME build' = build
    PROVE  /\ Setscene' = Setscene /\ CantskipIn(build)' = CantskipIn(build) /\ Unskippable' = Unskippable
           /\ \A s : CoveredTasks(s)' = CoveredTasks(s) /\ Replaced(s)' = Replaced(s)
           /\ \A s : SqRevdeps(s)' = SqRevdeps(s) /\ Depends(s)' = Depends(s)
BY DEF Setscene, Unskippable, Replaced, CoveredTasks, SqRevdeps, Depends

LEMMA HoldKept ==
    ASSUME HoldInv, build' = build,
           Decided(sq) \subseteq Decided(sq'), Executing' \subseteq Executing,
           rn.complete \subseteq rn'.complete, pc' # "task",
           (~sched'.update /\ moved' = {}) => (~sched.update /\ moved = {} /\ sched'.holdoff = sched.holdoff)
    PROVE  HoldInv'
<1>1. Setscene' = Setscene /\ \A s : Replaced(s)' = Replaced(s)
  BY SameGraph
<1>2. \A s \in Setscene \ Decided(sq') : s \in Setscene \ Decided(sq)
  OBVIOUS
<1>3. Decided(sq)' = Decided(sq')
  BY DEF Decided
<1> QED  BY <1>1, <1>2, <1>3 DEF HoldInv

\* What the steps have in common that decide the setscene tasks C and X.
LEMMA DecideKept ==
    ASSUME Typed, Rest, RestoreInv, NEW C \in SUBSET Setscene, NEW X \in SUBSET Setscene,
           build' = build, rn' = rn, failed' = failed, pending' = pending, look' = look, look = {}, moved' = {},
           sq'.covered = sq.covered \cup C, sq'.notcovered = sq.notcovered \cup X,
           sq'.running = sq.running \cup (C \cup X), sq'.live = sq.live \ (C \cup X),
           sq'.deferred \subseteq sq.deferred \cup (Setscene \X Setscene),
           \A s \in Waiting(sq') : s \in Waiting(sq) \/ SqRevdeps(s) \subseteq Decided(sq'),
           \A h \in X : build.hard[h] \subseteq Decided(sq'),
           \A s \in C \cap pending : s \in sq.live \/ Blocked(s),
           hardfailed' \subseteq hardfailed, hardfailed \subseteq hardfailed' \cup Decided(sq'),
           pc' \notin {"validate", "migrate", "task"}, pc' # "hardfail" => hardfailed' = {},
           hardfailed' # {} => sched'.update,
           ~sched'.update => (~sched.update /\ moved = {} /\ sched'.holdoff = sched.holdoff)
    PROVE  RestoreInv'
<1>1. Decided(sq') = Decided(sq) \cup C \cup X /\ Decided(sq)' = Decided(sq')
  BY DEF Decided
<1>2. /\ Setscene' = Setscene /\ \A s : Blocked(s)' = Blocked(s)
      /\ Executing' = Executing /\ Waiting(sq)' = Waiting(sq')
  BY SameGraph DEF Blocked, Executing, Waiting
<1>3. SceneInv'
  BY <1>1, <1>2 DEF RestoreInv, SceneInv
<1>4. HardInv'
  <2>1. ASSUME NEW h \in Tasks, NEW s \in build.hard[h]
        PROVE  /\ s \in sq'.live \cup Waiting(sq') => h \in Decided(sq')
               /\ h \in sq'.notcovered => s \in Decided(sq') \cup hardfailed'
    <3>1. s \in sq'.live => h \in Decided(sq')
      BY <1>1, <2>1 DEF RestoreInv, HardInv
    <3>2. s \in Waiting(sq') => h \in Decided(sq')
      BY <1>1, <2>1, HardFacts DEF RestoreInv, HardInv, Rest
    <3>3. h \in sq'.notcovered => s \in Decided(sq') \cup hardfailed'
      BY <1>1, <2>1 DEF RestoreInv, HardInv
    <3> QED  BY <3>1, <3>2, <3>3
  <2> QED  BY <1>1, <1>2, <2>1 DEF RestoreInv, HardInv
<1>5. HoldInv'
  BY <1>1, <1>2, HoldKept DEF RestoreInv
<1>6. PendingInv'
  <2>1. ASSUME NEW s \in pending, s \in sq'.covered \cup sq'.live PROVE Blocked(s)
    <3>1. s \in sq.live \/ s \in sq.covered \/ s \in C
      BY <2>1
    <3> QED  BY <2>1, <3>1 DEF RestoreInv, PendingInv
  <2> QED  BY <1>1, <1>2, <2>1 DEF RestoreInv, PendingInv
<1> QED  BY <1>3, <1>4, <1>5, <1>6 DEF RestoreInv

\* A setscene task that is undecided when the build is at its setscene part, or runs.
LEMMA PendingBlocked ==
    ASSUME RestoreInv, pc # "migrate", NEW s \in pending, s \notin Decided(sq)
    PROVE  Blocked(s)
BY DEF RestoreInv, PendingInv

-----------------------------------------------------------------------------
(* The steps                                                               *)

\* NotCovered decides t and what needs it; a task that needs another one is not needed in turn.
LEMMA FailsHard ==
    ASSUME build \in Builds, NEW q, NEW r, NEW t \in Setscene, HardFails(q, t) \subseteq Decided(r),
           Decided(q) \subseteq Decided(r)
    PROVE  /\ HardFails(q, t) \in SUBSET Setscene
           /\ \A h \in HardFails(q, t) : build.hard[h] \subseteq Decided(r)
<1>1. t \in Tasks
  BY BuildTyped, GraphType
<1> QED  BY <1>1, HardFacts DEF HardFails

\* DecideKept when the tasks C become covered.
LEMMA CoverKept ==
    ASSUME Typed, Rest, RestoreInv, NEW C \in SUBSET Setscene,
           build' = build, rn' = rn, failed' = failed, pending' = pending, look' = look, look = {}, moved' = {},
           sq'.covered = sq.covered \cup C, sq'.notcovered = sq.notcovered,
           sq'.running = sq.running \cup C, sq'.live = sq.live \ C,
           sq'.deferred \subseteq sq.deferred \cup (Setscene \X Setscene),
           \A s \in Waiting(sq') : s \in Waiting(sq) \/ SqRevdeps(s) \subseteq Decided(sq'),
           \A s \in C \cap pending : s \in sq.live \/ Blocked(s),
           hardfailed' = hardfailed,
           pc' \notin {"validate", "migrate", "task"}, pc' # "hardfail" => hardfailed' = {},
           hardfailed' # {} => sched'.update,
           ~sched'.update => (~sched.update /\ moved = {} /\ sched'.holdoff = sched.holdoff)
    PROVE  RestoreInv'
<1> DEFINE X == {}
<1>1. /\ X \in SUBSET Setscene /\ C \cup X = C /\ sq'.notcovered = sq.notcovered \cup X
      /\ \A h \in X : build.hard[h] \subseteq Decided(sq')
  OBVIOUS
<1> HIDE DEF X
<1> QED  BY <1>1, DecideKept

\* DecideKept when the tasks X are given up.
LEMMA FailKept ==
    ASSUME Typed, Rest, RestoreInv, NEW X \in SUBSET Setscene,
           build' = build, rn' = rn, failed' = failed, pending' = pending, look' = look, look = {}, moved' = {},
           sq'.covered = sq.covered, sq'.notcovered = sq.notcovered \cup X,
           sq'.running = sq.running \cup X, sq'.live = sq.live \ X,
           sq'.deferred \subseteq sq.deferred \cup (Setscene \X Setscene),
           \A s \in Waiting(sq') : s \in Waiting(sq) \/ SqRevdeps(s) \subseteq Decided(sq'),
           \A h \in X : build.hard[h] \subseteq Decided(sq'),
           hardfailed' \subseteq hardfailed, hardfailed \subseteq hardfailed' \cup Decided(sq'),
           pc' \notin {"validate", "migrate", "task"}, pc' # "hardfail" => hardfailed' = {},
           hardfailed' # {} => sched'.update,
           ~sched'.update => (~sched.update /\ moved = {} /\ sched'.holdoff = sched.holdoff)
    PROVE  RestoreInv'
<1> DEFINE C == {}
<1>1. /\ C \in SUBSET Setscene /\ C \cup X = X /\ sq'.covered = sq.covered \cup C
      /\ \A s \in C \cap pending : s \in sq.live \/ Blocked(s)
  OBVIOUS
<1> HIDE DEF C
<1> QED  BY <1>1, DecideKept

LEMMA SceneSteps ==
    ASSUME Typed, Rest, RestoreInv, NEW s \in Setscene,
           SceneSkip(s) \/ SceneFailOutright(s) \/ SetsceneComplete(s) \/ SetsceneFail(s)
    PROVE  RestoreInv'
<1>0. s \in Tasks /\ {s} \in SUBSET Setscene /\ {} \in SUBSET Setscene
  BY GraphType DEF Typed
<1>a. /\ rn' = rn /\ build' = build /\ failed' = failed /\ pending' = pending /\ look' = look /\ look = {}
      /\ pc' \notin {"task", "migrate", "validate"} /\ moved' = {} /\ moved = {} /\ hardfailed' = {} /\ hardfailed = {}
      /\ sched' = sched \/ sched' = [sched EXCEPT !.update = TRUE]
  BY DEF SceneSkip, SceneFailOutright, SetsceneComplete, SetsceneFail, Reading, Goto, hashVars,
         RestoreInv, SceneInv, PendingInv
<1>b. ~sched'.update => (~sched.update /\ moved = {} /\ sched'.holdoff = sched.holdoff)
  BY <1>a DEF Typed, SchedType
<1>c. pc # "migrate"
  BY DEF SceneSkip, SceneFailOutright, SetsceneComplete, SetsceneFail, Reading
<1>1. CASE SceneSkip(s)
  <2>1. Decides(sq, Covered(sq, {s}), {s}, {})
    BY <1>0, CoveredDecides DEF Typed
  <2>2. Decides(Covered(sq, {s}), sq', {}, {})
    BY <1>1, <2>1, UndeferDecides DEF SceneSkip, Decides, Touches
  <2>3. Decides(sq, sq', {s}, {})
    <3>1. {s} \cup {} = {s} /\ {} \cup {} = {}
      OBVIOUS
    <3> QED  BY <2>1, <2>2, <3>1, ComposeDecides
  <2>4. s \notin sq.live /\ s \notin Decided(sq)
    BY <1>1 DEF SceneSkip, Selectable, RestoreInv, SceneInv
  <2>5. s \in pending => Blocked(s)
    BY <1>c, <2>4, PendingBlocked
  <2>6. /\ sq'.covered = sq.covered \cup {s} /\ sq'.notcovered = sq.notcovered
        /\ sq'.running = sq.running \cup {s} /\ sq'.live = sq.live \ {s}
    BY <2>3, <2>4 DEF Decides, Touches
  <2> QED  BY <1>0, <1>a, <1>b, <2>3, <2>5, <2>6, CoverKept DEF Decides
<1>2. CASE SetsceneComplete(s)
  <2> DEFINE r == Covered(sq, {s})
  <2>1. Decides(sq, r, {s}, {})
    BY <1>0, CoveredDecides DEF Typed
  <2>2. sq' = [r EXCEPT !.live = @ \ {s}] /\ s \in sq.live /\ r \in SqType
    BY <1>2, <2>1 DEF SetsceneComplete, Decides, Touches
  <2> HIDE DEF r
  <2>3. /\ sq'.covered = sq.covered \cup {s} /\ sq'.notcovered = sq.notcovered
        /\ sq'.running = sq.running \cup {s} /\ sq'.live = sq.live \ {s}
        /\ sq'.deferred \subseteq sq.deferred \cup (Setscene \X Setscene)
        /\ Waiting(sq') = Waiting(r) /\ Decided(sq') = Decided(r)
    BY <2>1, <2>2 DEF Decides, Touches, SqType, Waiting, Decided
  <2>4. \A u \in Waiting(sq') : u \in Waiting(sq) \/ SqRevdeps(u) \subseteq Decided(sq')
    BY <2>1, <2>3 DEF Decides
  <2> QED  BY <1>0, <1>a, <1>b, <2>2, <2>3, <2>4, CoverKept
<1>3. CASE SceneFailOutright(s)
  <2>1. Decides(sq, Undefer(sq, s), {}, {})
    BY UndeferDecides DEF Typed
  <2> DEFINE q == Undefer(sq, s)
             F == HardFails(q, s)
  <2>2. Decides(q, sq', {}, F)
    BY <1>0, <1>3, <2>1, NotCoveredDecides DEF SceneFailOutright, Decides, Touches, Typed
  <2> HIDE DEF q
  <2>3. Decides(sq, sq', {}, F)
    <3>1. {} \cup {} = {} /\ {} \cup F = F
      OBVIOUS
    <3> QED  BY <2>1, <2>2, <3>1, ComposeDecides DEF q
  <2>4. s \notin sq.live /\ s \notin Decided(sq)
    BY <1>3 DEF SceneFailOutright, Selectable, RestoreInv, SceneInv
  <2>5. F \in SUBSET Setscene /\ \A h \in F : build.hard[h] \subseteq Decided(sq')
    <3>1. F \subseteq Decided(sq') /\ Decided(q) \subseteq Decided(sq')
      BY <2>2 DEF Decides, Touches, Decided
    <3> QED  BY <3>1, FailsHard DEF Rest
  <2>6. sq.live \cap F = {}
    BY <1>0, <2>4 DEF HardFails, RestoreInv, HardInv
  <2> QED  BY <1>0, <1>a, <1>b, <2>3, <2>5, <2>6, FailKept DEF Decides, Touches
<1>4. CASE SetsceneFail(s)
  <2> DEFINE r == NotCovered(sq, s)
             F == HardFails(sq, s)
  <2>1. Decides(sq, r, {}, F)
    BY <1>0, NotCoveredDecides DEF Typed
  <2>2. sq' = [r EXCEPT !.live = @ \ {s}] /\ s \in sq.live /\ r \in SqType
    BY <1>4, <2>1 DEF SetsceneFail, Decides, Touches
  <2> HIDE DEF r
  <2>3. sq.live \cap F = {s}
    BY <1>0, <2>2 DEF HardFails, RestoreInv, HardInv, SceneInv
  <2> HIDE DEF F
  <2>4. /\ sq'.covered = sq.covered /\ sq'.notcovered = sq.notcovered \cup F
        /\ sq'.running = sq.running \cup F /\ sq'.live = sq.live \ F
        /\ sq'.deferred \subseteq sq.deferred \cup (Setscene \X Setscene)
        /\ Waiting(sq') = Waiting(r) /\ Decided(sq') = Decided(r)
    BY <2>1, <2>2, <2>3 DEF Decides, Touches, SqType, Waiting, Decided
  <2>5. \A u \in Waiting(sq') : u \in Waiting(sq) \/ SqRevdeps(u) \subseteq Decided(sq')
    BY <2>1, <2>4 DEF Decides
  <2>6. F \in SUBSET Setscene /\ \A h \in F : build.hard[h] \subseteq Decided(sq')
    <3>1. F \subseteq Decided(sq') /\ Decided(sq) \subseteq Decided(sq')
      BY <2>4 DEF Decided
    <3> QED  BY <3>1, FailsHard DEF Rest, F
  <2> QED  BY <1>0, <1>a, <1>b, <2>4, <2>5, <2>6, FailKept
<1> QED  BY <1>1, <1>2, <1>3, <1>4

LEMMA SceneStartStep ==
    ASSUME Typed, Rest, RestoreInv, NEW s \in Setscene, SceneStart(s)
    PROVE  RestoreInv'
<1>0. s \in Tasks /\ s \notin sq.running /\ s \in sq.buildable /\ s \notin Decided(sq) /\ pc = "scene"
  BY GraphType DEF Typed, SceneStart, Selectable, RestoreInv, SceneInv
<1>1. /\ rn' = rn /\ build' = build /\ failed' = failed /\ pending' = pending /\ look' = look /\ look = {}
      /\ pc' \in {"top", "holdoff"} /\ moved' = {} /\ moved = {} /\ hardfailed' = {} /\ hardfailed = {} /\ sched' = sched
  BY <1>0 DEF SceneStart, Goto, hashVars, RestoreInv, SceneInv, PendingInv
<1>2. /\ sq'.live = sq.live \cup {s} /\ sq'.running = sq.running \cup {s}
      /\ sq'.covered = sq.covered /\ sq'.notcovered = sq.notcovered
  BY <1>0, LiveType DEF SceneStart, Typed
<1>3. sq'.buildable = sq.buildable /\ sq'.deferred \subseteq sq.deferred
  BY DEF SceneStart, Live, Undefer, Typed, SqType
<1>4. Decided(sq') = Decided(sq) /\ Decided(sq)' = Decided(sq') /\ Waiting(sq)' = sq'.buildable \ sq'.running
  BY <1>2 DEF Decided, Waiting
<1>5. /\ Setscene' = Setscene /\ (\A u : Blocked(u)' = Blocked(u)) /\ Executing' = Executing
  BY <1>1, SameGraph DEF Blocked, Executing
<1>6. SceneInv'
  BY <1>0, <1>1, <1>2, <1>3, <1>4, <1>5 DEF RestoreInv, SceneInv
<1>7. HardInv'
  <2>1. ASSUME NEW h \in Tasks, NEW u \in build.hard[h]
        PROVE  u \in sq'.live \cup Waiting(sq)' => h \in Decided(sq)
    BY <1>0, <1>2, <1>3, <1>4, <2>1 DEF RestoreInv, HardInv, Waiting
  <2>2. ASSUME NEW h \in Tasks, NEW u \in build.hard[h], h \in sq'.notcovered
        PROVE  u \in Decided(sq)
    BY <1>1, <1>2, <2>2 DEF RestoreInv, HardInv
  <2> QED  BY <1>1, <1>4, <2>1, <2>2 DEF HardInv
<1>8. HoldInv'
  BY <1>1, <1>4, <1>5, HoldKept DEF RestoreInv
<1>9. PendingInv'
  <2>1. s \in pending => Blocked(s)
    BY <1>0, PendingBlocked
  <2> QED  BY <1>1, <1>2, <1>4, <1>5, <2>1 DEF RestoreInv, PendingInv
<1> QED  BY <1>6, <1>7, <1>8, <1>9 DEF RestoreInv

LEMMA ValidateStep ==
    ASSUME Typed, Rest, RestoreInv, ValidateAll \/ EndMigrations
    PROVE  RestoreInv'
<1>0. Setscene \in SUBSET Tasks /\ moved \in SUBSET Setscene
  BY GraphType DEF Typed, RestoreInv, SceneInv
<1>1. /\ build' = build /\ hardfailed' = hardfailed /\ rn' = rn /\ failed' = failed /\ pending' = pending
      /\ look' = look /\ look = {} /\ pc' \in {"top", "hardfail"} /\ (pc' = "top" => hardfailed = {})
      /\ moved' = {}
  BY DEF ValidateAll, EndMigrations, Goto, hashVars, RestoreInv, SceneInv, PendingInv
<1>2. ASSUME NEW T \in SUBSET Setscene, NEW V \in SUBSET T, sq' = Updated(sq, T, V),
             T \cap (sq.live \cup pending) = {}, hardfailed' # {} => sched'.update,
             ~sched'.update => (~sched.update /\ moved = {} /\ sched'.holdoff = sched.holdoff)
      PROVE  RestoreInv'
  <2> DEFINE C == T \cap Stamped
  <2>1. Decides(sq, sq', C, {})
    BY <1>0, <1>2, UpdatedDecides DEF Typed
  <2>2. /\ sq'.covered = sq.covered \cup C /\ sq'.notcovered = sq.notcovered
        /\ sq'.running = sq.running \cup C /\ sq'.live = sq.live \ C
        /\ C \in SUBSET Setscene /\ \A s \in C \cap pending : s \in sq.live \/ Blocked(s)
    BY <1>2, <2>1 DEF Decides, Touches
  <2> HIDE DEF C
  <2> QED  BY <1>1, <1>2, <2>1, <2>2, CoverKept DEF Decides
<1>3. CASE ValidateAll
  <2>1. sq.live = {} /\ pending = {} /\ moved = {} /\ sched' = sched /\ hardfailed' = {}
    BY <1>3 DEF ValidateAll, RestoreInv, SceneInv, hashVars
  <2>2. PICK V \in SUBSET (Setscene \ Stamped) : sq' = Updated(sq, Setscene, V)
    BY <1>3 DEF ValidateAll
  <2>3. V \in SUBSET Setscene
    OBVIOUS
  <2> QED  BY <1>2, <2>1, <2>2, <2>3
<1>4. CASE EndMigrations /\ moved = {}
  <2>1. sq' = sq /\ sched' = [sched EXCEPT !.update = @ \/ changed] /\ hardfailed = {}
    BY <1>4 DEF EndMigrations, RestoreInv, HardInv
  <2>2. ~sched'.update => (~sched.update /\ moved = {} /\ sched'.holdoff = sched.holdoff)
    BY <1>4, <2>1 DEF Typed, SchedType
  <2> DEFINE C == {}
  <2>3. /\ sq'.covered = sq.covered \cup C /\ sq'.notcovered = sq.notcovered
        /\ sq'.running = sq.running \cup C /\ sq'.live = sq.live \ C
        /\ C \in SUBSET Setscene /\ \A s \in C \cap pending : s \in sq.live \/ Blocked(s)
        /\ sq'.deferred \subseteq sq.deferred \cup (Setscene \X Setscene) /\ Waiting(sq') = Waiting(sq)
    BY <2>1
  <2> HIDE DEF C
  <2> QED  BY <1>1, <2>1, <2>2, <2>3, CoverKept
<1>5. CASE EndMigrations /\ moved # {}
  <2>1. sched' = [sched EXCEPT !.update = TRUE] /\ moved \cap (sq.live \cup pending) = {}
    BY <1>5 DEF EndMigrations, RestoreInv, SceneInv, PendingInv
  <2>2. PICK V \in SUBSET (moved \ Stamped) : sq' = Updated(sq, moved, V)
    BY <1>5 DEF EndMigrations
  <2>3. V \in SUBSET moved /\ sched'.update
    BY <2>1 DEF Typed, SchedType
  <2> QED  BY <1>0, <1>2, <2>1, <2>2, <2>3
<1> QED  BY <1>3, <1>4, <1>5

LEMMA HardFailStep ==
    ASSUME Typed, Rest, RestoreInv, HardFail, hardfailed # {}
    PROVE  RestoreInv'
<1>1. PICK s \in hardfailed : sq' = NotCovered(sq, s) /\ hardfailed' = hardfailed \ {s} /\ pc' = pc
  BY DEF HardFail
<1>2. /\ rn' = rn /\ build' = build /\ failed' = failed /\ pending' = pending /\ look' = look /\ look = {}
      /\ pc = "hardfail" /\ moved' = {} /\ moved = {} /\ sched' = sched /\ sched.update
  BY DEF HardFail, RestoreInv, SceneInv, PendingInv, HardInv
<1>3. s \in Setscene /\ s \in Tasks /\ build.hard[s] = {} /\ s \notin sq.live
  BY GraphType DEF RestoreInv, SceneInv, HardInv, Typed
<1>4. HardFails(sq, s) = {s} /\ {s} \in SUBSET Setscene
  BY <1>3 DEF HardFails
<1>5. Decides(sq, sq', {}, {s})
  BY <1>1, <1>3, <1>4, NotCoveredDecides DEF Typed
<1>6. s \in Decided(sq') /\ \A h \in {s} : build.hard[h] \subseteq Decided(sq')
  BY <1>3, <1>5 DEF Decides, Touches, Decided
<1>7. /\ sq'.covered = sq.covered /\ sq'.notcovered = sq.notcovered \cup {s}
      /\ sq'.running = sq.running \cup {s} /\ sq'.live = sq.live \ {s}
  BY <1>3, <1>5 DEF Decides, Touches
<1> QED  BY <1>1, <1>2, <1>4, <1>5, <1>6, <1>7, FailKept DEF Decides

LEMMA ForceStep ==
    ASSUME Typed, Rest, RestoreInv, ForceDeferred
    PROVE  RestoreInv'
<1>1. PICK d \in sq.deferred : sq' = NotCovered([sq EXCEPT !.deferred = @ \ {d}], d[2])
  BY DEF ForceDeferred
<1> DEFINE q == [sq EXCEPT !.deferred = @ \ {d}]
           F == HardFails(q, d[2])
<1>2. /\ q \in SqType /\ d[2] \in Setscene /\ d[2] \in Tasks /\ Decides(sq, q, {}, {})
  <2>1. d[2] \in Setscene /\ d[2] \in Tasks
    BY GraphType DEF Typed, RestoreInv, SceneInv
  <2>2. q \in SqType
    BY DEF Typed, SqType
  <2>3. Decides(sq, q, {}, {})
    BY <2>2 DEF Typed, SqType, Decides, Touches, Waiting
  <2> QED  BY <2>1, <2>2, <2>3
<1> HIDE DEF q
<1>3. Decides(q, sq', {}, F)
  BY <1>1, <1>2, NotCoveredDecides DEF Typed, q
<1>4. Decides(sq, sq', {}, F)
  <2>1. {} \cup {} = {} /\ {} \cup F = F
    OBVIOUS
  <2> QED  BY <1>2, <1>3, <2>1, ComposeDecides
<1>5. F \in SUBSET Setscene /\ \A h \in F : build.hard[h] \subseteq Decided(sq')
  <2>1. F \subseteq Decided(sq') /\ Decided(q) \subseteq Decided(sq')
    BY <1>3 DEF Decides, Touches, Decided
  <2> QED  BY <1>2, <2>1, FailsHard DEF Rest
<1>6. sq.live = {}
  <2>1. Active = 0
    BY DEF ForceDeferred
  <2>2. Cardinality(sq.live) = 0
    BY <2>1, ActiveTyped DEF Active
  <2> QED  BY <2>2, ActiveTyped, FS_EmptySet
<1>7. /\ rn' = rn /\ build' = build /\ failed' = failed /\ pending' = pending /\ look' = look /\ look = {}
      /\ pc' = "top" /\ moved' = {} /\ hardfailed' = {} /\ hardfailed = {} /\ sched'.update
  BY DEF ForceDeferred, Goto, hashVars, RestoreInv, SceneInv, PendingInv, Typed, SchedType
<1>8. /\ sq'.covered = sq.covered /\ sq'.notcovered = sq.notcovered \cup F
      /\ sq'.running = sq.running \cup F /\ sq'.live = sq.live \ F
  BY <1>4, <1>6 DEF Decides, Touches
<1> HIDE DEF F
<1> QED  BY <1>4, <1>5, <1>7, <1>8, FailKept DEF Decides

\* What the steps have in common that leave the setscene side alone.
LEMMA SameScene ==
    ASSUME RestoreInv, sq' = sq, build' = build, pending' = pending, look' = look, moved' = moved,
           hardfailed' = hardfailed, failed \subseteq failed',
           pc # "migrate", pc' \notin {"validate", "migrate"}, hardfailed = {},
           failed' \subseteq rn'.running \ rn'.complete, rn'.complete \subseteq rn'.running
    PROVE  SceneInv' /\ HardInv' /\ PendingInv'
<1>1. /\ Setscene' = Setscene /\ Decided(sq)' = Decided(sq) /\ Waiting(sq)' = Waiting(sq)
      /\ \A s : Blocked(s) => Blocked(s)'
  BY SameGraph DEF Decided, Waiting, Blocked
<1>2. SceneInv'
  BY <1>1 DEF RestoreInv, SceneInv
<1>3. HardInv'
  BY <1>1 DEF RestoreInv, HardInv
<1>4. PendingInv'
  BY <1>1 DEF RestoreInv, PendingInv
<1> QED  BY <1>2, <1>3, <1>4

LEMMA TaskSteps ==
    ASSUME Typed, RestoreInv, NEW t \in Tasks,
           \/ TaskSkipCovered(t) \/ TaskSkipExisting(t)
           \/ TaskComplete(t) \/ TaskFail(t) \/ TaskUniHashUpdate(t)
    PROVE  RestoreInv'
<1>1. /\ sq' = sq /\ build' = build /\ hardfailed' = hardfailed /\ hardfailed = {} /\ moved' = moved /\ sched' = sched
      /\ pending' = pending /\ look' = look
      /\ pc' # "validate" /\ pc' # "task" /\ pc # "migrate" /\ pc' # "migrate"
  BY DEF TaskSkipCovered, TaskSkipExisting, TaskComplete, TaskFail, TaskUniHashUpdate, Reading, Goto, hashVars,
         RestoreInv, SceneInv
<1>2. RunsLess
  BY TaskRuns
<1>3. /\ failed \subseteq failed' /\ failed' \subseteq rn'.running \ rn'.complete
      /\ rn'.complete \subseteq rn'.running
  <2> USE DEF RestoreInv, PendingInv, Typed
  <2>1. CASE TaskSkipCovered(t)
    BY <2>1, SkippedType DEF TaskSkipCovered, Next_buildable
  <2>2. CASE TaskSkipExisting(t)
    <3>1. rn'.running = Skipped(rn, t).running /\ rn'.complete = Skipped(rn, t).complete
      BY <2>2, SkippedType DEF TaskSkipExisting, RnType
    <3> QED  BY <2>2, <3>1, SkippedType DEF TaskSkipExisting, Next_buildable
  <2>3. CASE TaskComplete(t)
    <3>1. /\ Completed(rn, t) \in RnType
          /\ Completed(rn, t).running = rn.running
          /\ Completed(rn, t).complete = rn.complete \cup {t}
      BY CompletedType
    <3>2. rn'.running = rn.running /\ rn'.complete = rn.complete \cup {t}
      BY <2>3, <3>1 DEF TaskComplete, RnType
    <3> QED  BY <2>3, <3>2 DEF TaskComplete, Executing
  <2>4. CASE TaskFail(t)
    BY <2>4 DEF TaskFail, Executing
  <2>5. CASE TaskUniHashUpdate(t)
    BY <2>5 DEF TaskUniHashUpdate
  <2> QED  BY <2>1, <2>2, <2>3, <2>4, <2>5
<1>4. HoldInv'
  BY <1>1, <1>2, HoldKept DEF RunsLess, RestoreInv
<1> QED  BY <1>1, <1>3, <1>4, SameScene DEF RestoreInv

LEMMA TaskStartStep ==
    ASSUME Typed, RestoreInv, NEW t \in Tasks, TaskStart(t)
    PROVE  RestoreInv'
<1>1. /\ sq' = sq /\ build' = build /\ hardfailed' = hardfailed /\ moved' = moved /\ sched' = sched
      /\ pending' = pending /\ look' = look /\ failed' = failed /\ hardfailed = {}
      /\ pc' \in {"top", "wait"} /\ pc = "task" /\ t \notin sched.holdoff /\ t \notin rn.running
  BY DEF TaskStart, Next_buildable, Goto, hashVars, RestoreInv, SceneInv
<1>2. rn'.complete = rn.complete /\ rn'.running = rn.running \cup {t} /\ Executing' \subseteq Executing \cup {t}
  BY DEF TaskStart, Typed, RnType, Executing
<1>3. t \in Executing' => t \notin rn.complete
  BY <1>2 DEF Executing
<1>4. \A s \in Setscene \ Decided(sq) : Replaced(s) \subseteq sched.holdoff \cup rn.complete
  BY <1>1 DEF RestoreInv, HoldInv
<1>5. \A s \in Setscene \ Decided(sq) : Executing' \cap Replaced(s) = {}
  BY <1>1, <1>2, <1>3, <1>4 DEF RestoreInv, HoldInv
<1>6. Setscene' = Setscene /\ Decided(sq)' = Decided(sq) /\ \A s : Replaced(s)' = Replaced(s)
  BY <1>1, SameGraph DEF Decided
<1>7. HoldInv'
  BY <1>1, <1>2, <1>4, <1>5, <1>6 DEF RestoreInv, HoldInv
<1>8. failed' \subseteq rn'.running \ rn'.complete /\ rn'.complete \subseteq rn'.running
  BY <1>1, <1>2 DEF RestoreInv, PendingInv
<1> QED  BY <1>1, <1>7, <1>8, SameScene DEF RestoreInv

LEMMA HoldoffStep ==
    ASSUME Typed, RestoreInv, Holdoff
    PROVE  RestoreInv'
<1> DEFINE v == UpdateHoldoff(sched)
           open == Setscene \ Decided(sq)
           held == UNION {CoveredTasks(s) : s \in open}
<1>1. /\ sq' = sq /\ build' = build /\ hardfailed' = hardfailed /\ moved' = moved /\ sched' = v
      /\ pending' = pending /\ look' = look /\ failed' = failed /\ hardfailed = {}
      /\ pc' \in {"top", "task"} /\ pc # "migrate" /\ moved = {}
  BY DEF Holdoff, Goto, hashVars, RestoreInv, SceneInv
<1>2. RunsLess /\ rn'.complete = rn.complete /\ rn'.running = rn.running
  BY PassRuns, TypedHelpers DEF Holdoff
<1>3. Setscene' = Setscene /\ Decided(sq)' = Decided(sq) /\ \A s : Replaced(s)' = Replaced(s)
  BY <1>1, SameGraph DEF Decided
<1>4. ~v.update /\ \A s \in open : Replaced(s) \subseteq v.holdoff \cup rn.complete
  <2>1. CASE sched.update
    <3>1. v.update = FALSE /\ v.holdoff = open \cup (held \ rn.complete)
      BY <2>1 DEF UpdateHoldoff
    <3>2. ASSUME NEW s \in open PROVE Replaced(s) \subseteq v.holdoff \cup rn.complete
      <4>1. CoveredTasks(s) \subseteq held
        OBVIOUS
      <4> HIDE DEF v, open, held
      <4> QED  BY <3>1, <3>2, <4>1 DEF Replaced
    <3> QED  BY <3>1, <3>2
  <2>2. CASE ~sched.update
    BY <1>1, <2>2 DEF UpdateHoldoff, RestoreInv, HoldInv
  <2> QED  BY <2>1, <2>2
<1>5. \A s \in open : Executing' \cap Replaced(s) = {}
  BY <1>2 DEF RunsLess, RestoreInv, HoldInv
<1> HIDE DEF v
<1>6. HoldInv'
  BY <1>1, <1>2, <1>3, <1>4, <1>5 DEF HoldInv
<1>7. failed' \subseteq rn'.running \ rn'.complete /\ rn'.complete \subseteq rn'.running
  BY <1>1, <1>2 DEF RestoreInv, PendingInv
<1> QED  BY <1>1, <1>6, <1>7, SameScene DEF RestoreInv

\* Steps that leave both sides alone.
LEMMA QuietSteps ==
    ASSUME Typed, RestoreInv,
           \/ BeginExecute \/ EndRead \/ BeginPass \/ SceneNone \/ TaskNone \/ Wait \/ End
           \/ SceneSpawnFails \/ TaskSpawnFails \/ CleanUp
           \/ UserFinish \/ FinishNow \/ (HardFail /\ hardfailed = {})
    PROVE  RestoreInv'
<1>1. /\ sq' = sq /\ build' = build /\ hardfailed' = hardfailed /\ moved' = moved /\ sched' = sched
      /\ pending' = pending /\ look' = look /\ hardfailed = {} /\ rn' = rn /\ failed' = failed
      /\ pc' \notin {"validate", "task", "migrate"} /\ pc # "migrate"
  BY DEF BeginExecute, EndRead, BeginPass, SceneNone, TaskNone, Wait, End,
                SceneSpawnFails, TaskSpawnFails, CleanUp, UserFinish, FinishNow,
         HardFail, Goto, hashVars, RestoreInv, SceneInv
<1>2. Executing' = Executing
  BY <1>1 DEF Executing
<1>3. HoldInv'
  BY <1>1, <1>2, HoldKept DEF RestoreInv
<1>4. failed' \subseteq rn'.running \ rn'.complete /\ rn'.complete \subseteq rn'.running
  BY <1>1 DEF RestoreInv, PendingInv
<1> QED  BY <1>1, <1>3, <1>4, SameScene DEF RestoreInv

LEMMA RehashStep ==
    ASSUME Typed, Rest, RestoreInv, Rehash
    PROVE  RestoreInv'
<1>1. /\ sq' = sq /\ build' = build /\ hardfailed' = hardfailed /\ hardfailed = {} /\ moved' = moved /\ moved = {}
      /\ sched' = sched /\ rn' = rn /\ failed' = failed /\ pc' = "migrate" /\ look' = pending' /\ look = {}
  BY DEF Rehash, Goto, RestoreInv, SceneInv, PendingInv
<1>2. PICK C : C \cap (sq.covered \cup sq.live) = {} /\ pending' = pending \cup (C \cap Setscene)
  BY DEF Rehash
<1>3. /\ Setscene' = Setscene /\ Decided(sq)' = Decided(sq) /\ Waiting(sq)' = Waiting(sq)
      /\ Executing' = Executing /\ \A s : Blocked(s)' = Blocked(s)
  BY <1>1, SameGraph DEF Decided, Waiting, Executing, Blocked
<1>4. SceneInv'
  BY <1>1, <1>3 DEF RestoreInv, SceneInv
<1>5. HardInv'
  BY <1>1, <1>3 DEF RestoreInv, HardInv
<1>6. HoldInv'
  BY <1>1, <1>3, HoldKept DEF RestoreInv
<1>7. PendingInv'
  BY <1>1, <1>2, <1>3 DEF RestoreInv, PendingInv
<1> QED  BY <1>4, <1>5, <1>6, <1>7 DEF RestoreInv

\* A task put off whose setscene is undecided has a failed task below.
LEMMA MigrateNotStep ==
    ASSUME Typed, Rest, RestoreInv, NEW s \in Tasks, MigrateNot(s)
    PROVE  RestoreInv'
<1>1. /\ sq' = sq /\ build' = build /\ hardfailed' = hardfailed /\ moved' = moved
      /\ sched' = sched /\ rn' = rn /\ failed' = failed /\ pc' = pc /\ pc = "migrate"
      /\ s \in look /\ look' = look \ {s} /\ pending' = pending \ ({s} \cap (rn.running \cup sq.live))
  BY DEF MigrateNot
<1>2. /\ Setscene' = Setscene /\ Decided(sq)' = Decided(sq) /\ Waiting(sq)' = Waiting(sq)
      /\ Executing' = Executing /\ \A u : Blocked(u)' = Blocked(u)
  BY <1>1, SameGraph DEF Decided, Waiting, Executing, Blocked
<1>3. SceneInv'
  BY <1>1, <1>2 DEF RestoreInv, SceneInv
<1>4. HardInv'
  BY <1>1, <1>2 DEF RestoreInv, HardInv
<1>5. HoldInv'
  BY <1>1, <1>2, HoldKept DEF RestoreInv
<1>6. ASSUME s \in pending' PROVE s \in Decided(sq) \/ Blocked(s)
  <2>1. CoveredTasks(s) \cap (rn.running \ rn.complete) # {} /\ s \in Setscene
    BY <1>1, <1>6 DEF MigrateNot, RestoreInv, PendingInv
  <2> QED  BY <2>1 DEF RestoreInv, HoldInv, Replaced, Executing, Blocked
<1>7. PendingInv'
  BY <1>1, <1>2, <1>6 DEF RestoreInv, PendingInv
<1> QED  BY <1>3, <1>4, <1>5, <1>7 DEF RestoreInv

\* What is moved is neither restored nor being restored: nothing below has failed.
LEMMA MovableFacts ==
    ASSUME RestoreInv, pc = "migrate", NEW s, Movable(s)
    PROVE  /\ s \in pending /\ s \in Setscene /\ s \notin sq.covered \cup sq.live
           /\ s \notin moved /\ s \notin hardfailed
           /\ Executing \cap Replaced(s) = {}
<1>1. s \in look /\ s \notin rn.running \cup sq.live /\ CoveredTasks(s) \cap (rn.running \ rn.complete) = {}
  BY DEF Movable
<1>2. s \in pending /\ s \in Setscene /\ s \notin moved /\ s \notin hardfailed
  BY <1>1 DEF RestoreInv, PendingInv, HardInv
<1>3. ~Blocked(s)
  BY <1>1 DEF RestoreInv, PendingInv, Blocked
<1>4. Executing \cap Replaced(s) = {}
  BY <1>1 DEF Executing, Replaced
<1> QED  BY <1>1, <1>2, <1>3, <1>4 DEF RestoreInv, PendingInv

LEMMA MigrateHard ==
    ASSUME Typed, Rest, RestoreInv, NEW s \in Tasks, pc = "migrate", Movable(s),
           build' = build, pc' = pc, moved' = moved \cup {s},
           sq'.live = sq.live, sq'.running = sq.running \ {s},
           sq'.covered = sq.covered \ {s}, sq'.notcovered = sq.notcovered \ {s},
           sq'.buildable = IF (~HardDepFail(s) /\ SqRevdeps(s) \subseteq Decided(sq)) \/ SqRevdeps(s) = {}
                           THEN sq.buildable \cup {s} ELSE sq.buildable \ {s},
           hardfailed' = IF HardDepFail(s) THEN hardfailed \cup {s} ELSE hardfailed
    PROVE  HardInv'
<1>1. Waiting(sq') \subseteq Waiting(sq) \cup {s}
  BY DEF Waiting
<1>2. Decided(sq') = Decided(sq) \ {s} /\ s \notin moved /\ s \notin hardfailed /\ s \notin sq.covered \cup sq.live
  BY MovableFacts DEF Decided
<1>3. sq.notcovered \in SUBSET Tasks
  BY DEF Typed, SqType
<1>4. ASSUME NEW h \in Tasks, NEW u \in build.hard[h], u \in sq'.live \cup Waiting(sq')
      PROVE  h \in Decided(sq')
  <2>1. CASE u = s
    <3>1. h \in SqRevdeps(s) /\ h # s
      BY <1>4, <2>1, HardFacts DEF Rest
    <3>2. s \in sq'.buildable
      BY <1>2, <1>4, <2>1 DEF Waiting
    <3> QED  BY <1>2, <3>1, <3>2
  <2>2. CASE u # s
    <3>1. h \in Decided(sq) /\ u \in sq.live \cup Waiting(sq)
      BY <1>1, <1>4, <2>2 DEF RestoreInv, HardInv
    <3>2. u \notin Decided(sq) \cup hardfailed
      BY <3>1 DEF RestoreInv, HardInv, SceneInv, Waiting
    <3>3. h # s
      BY <1>2, <1>4, <3>1, <3>2 DEF RestoreInv, HardInv, Decided
    <3> QED  BY <1>2, <3>1, <3>3
  <2> QED  BY <2>1, <2>2
<1>5. ASSUME NEW h \in Tasks, NEW u \in build.hard[h], h \in sq'.notcovered
      PROVE  u \in Decided(sq') \cup hardfailed'
  <2>1. u = s => HardDepFail(s)
    BY <1>5 DEF HardDepFail
  <2>2. u \in Decided(sq) \cup hardfailed
    BY <1>5 DEF RestoreInv, HardInv
  <2> QED  BY <1>2, <2>1, <2>2
<1>6. ASSUME HardDepFail(s) PROVE build.hard[s] = {} /\ s \notin sq'.buildable
  <2>1. PICK h \in sq.notcovered : s \in build.hard[h]
    BY <1>6 DEF HardDepFail
  <2>2. build.hard[s] = {} /\ SqRevdeps(s) # {}
    BY <1>3, <2>1, HardFacts DEF Rest
  <2> QED  BY <1>6, <2>2
<1>7. \A u \in hardfailed' : build.hard[u] = {}
  BY <1>6 DEF RestoreInv, HardInv
<1>8. hardfailed' \cap sq'.buildable = {} /\ hardfailed' \subseteq moved'
  BY <1>2, <1>6 DEF RestoreInv, HardInv
<1>9. Decided(sq)' = Decided(sq') /\ Waiting(sq)' = Waiting(sq') /\ moved' # {}
  BY DEF Decided, Waiting
<1> QED  BY <1>4, <1>5, <1>7, <1>8, <1>9 DEF HardInv

LEMMA MigrateStep ==
    ASSUME Typed, Rest, RestoreInv, NEW s \in Tasks, Migrate(s)
    PROVE  RestoreInv'
<1>1. /\ build' = build /\ sched' = sched /\ rn' = rn /\ failed' = failed /\ pc' = pc /\ pc = "migrate"
      /\ look' = look \ {s} /\ pending' = pending \ {s} /\ moved' = moved \cup {s} /\ Movable(s)
      /\ hardfailed' = IF HardDepFail(s) THEN hardfailed \cup {s} ELSE hardfailed
  BY DEF Migrate
<1>2. /\ sq'.live = sq.live /\ sq'.running = sq.running \ {s} /\ sq'.deferred = sq.deferred
      /\ sq'.covered = sq.covered \ {s} /\ sq'.notcovered = sq.notcovered \ {s}
      /\ sq'.buildable = IF (~HardDepFail(s) /\ SqRevdeps(s) \subseteq Decided(sq)) \/ SqRevdeps(s) = {}
                         THEN sq.buildable \cup {s} ELSE sq.buildable \ {s}
  BY DEF Migrate, Typed, SqType
<1>3. /\ s \in pending /\ s \in Setscene /\ s \notin sq.covered \cup sq.live
      /\ s \notin moved /\ s \notin hardfailed /\ Executing \cap Replaced(s) = {}
  BY <1>1, MovableFacts
<1>4. /\ Setscene' = Setscene /\ Decided(sq)' = Decided(sq) \ {s} /\ Executing' = Executing
      /\ \A u : Blocked(u)' = Blocked(u) /\ Replaced(u)' = Replaced(u)
  BY <1>1, <1>2, SameGraph DEF Decided, Executing, Blocked
<1>5. SceneInv'
  BY <1>1, <1>2, <1>3, <1>4 DEF RestoreInv, SceneInv
<1>6. HardInv'
  BY <1>1, <1>2, MigrateHard
<1>7. HoldInv'
  <2>1. moved' # {} /\ pc' # "task"
    BY <1>1
  <2>2. ASSUME NEW u \in Setscene, u \notin Decided(sq) \ {s} PROVE Executing \cap Replaced(u) = {}
    BY <1>3, <2>2 DEF RestoreInv, HoldInv
  <2> QED  BY <1>4, <2>1, <2>2 DEF HoldInv
<1>8. PendingInv'
  BY <1>1, <1>2, <1>4 DEF RestoreInv, PendingInv
<1> QED  BY <1>5, <1>6, <1>7, <1>8 DEF RestoreInv

LEMMA NextRestore == Typed /\ Rest /\ RestoreInv /\ [Next]_vars => RestoreInv'
<1> SUFFICES ASSUME Typed, Rest, RestoreInv, [Next]_vars
             PROVE  RestoreInv'
  OBVIOUS
<1>1. CASE ValidateAll \/ EndMigrations
  BY <1>1, ValidateStep
<1>2. CASE Rehash
  BY <1>2, RehashStep
<1>3. CASE HardFail
  BY <1>3, HardFailStep, QuietSteps
<1>4. CASE \E s \in Tasks : MigrateNot(s) \/ Migrate(s)
  BY <1>4, MigrateNotStep, MigrateStep
<1>5. CASE \E s \in Setscene : SceneSkip(s) \/ SceneFailOutright(s) \/ SetsceneComplete(s) \/ SetsceneFail(s)
  BY <1>5, SceneSteps
<1>6. CASE \E s \in Setscene : SceneStart(s)
  BY <1>6, SceneStartStep
<1>7. CASE \E t \in Tasks : \/ TaskSkipCovered(t) \/ TaskSkipExisting(t)
                            \/ TaskComplete(t) \/ TaskFail(t) \/ TaskUniHashUpdate(t)
  BY <1>7, TaskSteps
<1>8. CASE \E t \in Tasks : TaskStart(t)
  BY <1>8, TaskStartStep
<1>9. CASE Holdoff
  BY <1>9, HoldoffStep
<1>10. CASE ForceDeferred
  BY <1>10, ForceStep
<1>11. CASE \/ BeginExecute \/ EndRead \/ BeginPass \/ SceneNone \/ TaskNone \/ Wait \/ End
            \/ SceneSpawnFails \/ TaskSpawnFails \/ CleanUp
            \/ UserFinish \/ FinishNow
  BY <1>11, QuietSteps
<1>12. CASE UNCHANGED vars
  <2>1. /\ sq' = sq /\ build' = build /\ hardfailed' = hardfailed /\ moved' = moved /\ sched' = sched
        /\ pending' = pending /\ look' = look /\ rn' = rn /\ failed' = failed /\ pc' = pc
    BY <1>12 DEF vars, hashVars
  <2>2. /\ Setscene' = Setscene /\ Decided(sq)' = Decided(sq) /\ Waiting(sq)' = Waiting(sq)
        /\ Executing' = Executing /\ \A u : Blocked(u)' = Blocked(u) /\ Replaced(u)' = Replaced(u)
    BY <2>1, SameGraph DEF Decided, Waiting, Executing, Blocked
  <2> QED  BY <2>1, <2>2 DEF RestoreInv, SceneInv, HardInv, HoldInv, PendingInv
<1>13. \/ ValidateAll \/ EndMigrations \/ Rehash \/ HardFail \/ (\E s \in Tasks : MigrateNot(s) \/ Migrate(s))
       \/ (\E s \in Setscene : SceneSkip(s) \/ SceneFailOutright(s) \/ SetsceneComplete(s) \/ SetsceneFail(s))
       \/ (\E s \in Setscene : SceneStart(s))
       \/ (\E t \in Tasks : \/ TaskSkipCovered(t) \/ TaskSkipExisting(t)
                            \/ TaskComplete(t) \/ TaskFail(t) \/ TaskUniHashUpdate(t))
       \/ (\E t \in Tasks : TaskStart(t))
       \/ Holdoff \/ ForceDeferred
       \/ BeginExecute \/ EndRead \/ BeginPass \/ SceneNone \/ TaskNone \/ Wait \/ End
       \/ SceneSpawnFails \/ TaskSpawnFails \/ CleanUp
       \/ UserFinish \/ FinishNow \/ UNCHANGED vars
  BY DEF Next, Pass, Migrations, WorkerEnds, Ended
<1> QED  BY <1>1, <1>2, <1>3, <1>4, <1>5, <1>6, <1>7, <1>8, <1>9, <1>10, <1>11, <1>12, <1>13

LEMMA InitRestore == Init => RestoreInv
<1> SUFFICES ASSUME Init PROVE RestoreInv
  OBVIOUS
<1>1. /\ pc = "validate" /\ moved = {} /\ hardfailed = {} /\ pending = {} /\ look = {} /\ failed = {}
      /\ sched.update /\ rn.running = {} /\ rn.complete = {} /\ build \in Builds
  BY DEF Init
<1>2. /\ sq.covered = {} /\ sq.notcovered = {} /\ sq.live = {} /\ sq.deferred = {} /\ sq.running = {}
      /\ sq.buildable = {s \in Setscene : SqRevdeps(s) = {}}
  BY DEF Init, Undecided
<1>3. Decided(sq) = {} /\ Executing = {} /\ Waiting(sq) = {s \in Setscene : SqRevdeps(s) = {}}
  BY <1>1, <1>2 DEF Decided, Executing, Waiting
<1>4. SceneInv
  BY <1>1, <1>2, <1>3 DEF SceneInv
<1>5. HardInv
  BY <1>1, <1>2, <1>3, HardFacts DEF HardInv
<1>6. HoldInv
  BY <1>1, <1>3 DEF HoldInv
<1>7. PendingInv
  BY <1>1, <1>2, <1>3 DEF PendingInv
<1> QED  BY <1>4, <1>5, <1>6, <1>7 DEF RestoreInv

\* The invariant holds of every build.
THEOREM RestoreInvariant == Spec => []RestoreInv
<1>1. QueueInv => Typed /\ Rest
  BY DEF QueueInv
<1> QED  BY <1>1, QueueInvariant, InitRestore, NextRestore, PTL DEF Spec

\* A setscene task that runs, or may yet be chosen to, excludes the tasks whose work it replaces:
\* for every build, also when it was given up before and a new hash makes it worth another try.
THEOREM SceneExcludes == Spec => []SceneExcludesCovered
<1>1. RestoreInv => SceneExcludesCovered
  BY DEF RestoreInv, SceneInv, HoldInv, Replaced, SceneExcludesCovered
<1> QED  BY <1>1, RestoreInvariant, PTL

-----------------------------------------------------------------------------
(* The graph of the build: what the recursive definitions of RunQueue say  *)
(* in one step.  Each has a solution, as it asks for more of what it       *)
(* defines only where more is given.                                       *)

LEMMA FixedPoint ==
    ASSUME NEW G, \A A \in SUBSET Nat : G[A] \in SUBSET Nat,
           \A A, B \in SUBSET Nat : A \subseteq B => G[A] \subseteq G[B]
    PROVE  \E L \in SUBSET Nat : G[L] = L
<1> DEFINE L == {t \in Nat : \A A \in SUBSET Nat : G[A] \subseteq A => t \in A}
<1>1. L \in SUBSET Nat
  OBVIOUS
<1>2. G[L] \subseteq L
  <2>1. ASSUME NEW A \in SUBSET Nat, G[A] \subseteq A PROVE G[L] \subseteq A
    <3>1. L \subseteq A
      BY <2>1
    <3> HIDE DEF L
    <3> QED  BY <1>1, <2>1, <3>1
  <2>2. G[L] \in SUBSET Nat
    BY <1>1
  <2> QED  BY <2>1, <2>2
<1>3. L \subseteq G[L]
  <2> DEFINE M == G[L]
  <2>1. M \in SUBSET Nat /\ G[M] \subseteq M
    <3> HIDE DEF L
    <3> QED  BY <1>1, <1>2
  <2> QED  BY <2>1
<1> HIDE DEF L
<1> QED  BY <1>1, <1>2, <1>3

LEMMA TasksNumbered ==
    /\ Tasks \subseteq Nat
    /\ \A b, u : RevdepsIn(b, u) \subseteq Tasks
BY RunQueueAssumption DEF RunQueueAssumption, Tasks, RevdepsIn

LEMMA CoveredTasksStep ==
    ASSUME build \in BuildType, NEW s \in Tasks, NEW t \in Tasks
    PROVE  t \in CoveredTasks(s) <=>
              t < s /\ t \notin Setscene /\ \E r \in Revdeps(t) : r = s \/ r \in CoveredTasks(s)
<1> DEFINE f == CHOOSE f : f = [u \in Nat |-> u < s /\ u \notin build.setscene
                                              /\ \E r \in RevdepsIn(build, u) : r = s \/ f[r]]
           G == [A \in SUBSET Nat |-> {u \in Nat : u < s /\ u \notin build.setscene
                                                   /\ \E r \in RevdepsIn(build, u) : r = s \/ r \in A}]
<1>1. CoveredTasks(s) = {u \in Tasks : f[u]}
  BY DEF CoveredTasks, CoveredTasksIn
<1>2. PICK L \in SUBSET Nat : G[L] = L
  <2>1. \A A \in SUBSET Nat : G[A] \in SUBSET Nat
    OBVIOUS
  <2>2. \A A, B \in SUBSET Nat : A \subseteq B => G[A] \subseteq G[B]
    OBVIOUS
  <2> HIDE DEF G
  <2> QED  BY <2>1, <2>2, FixedPoint
<1>3. \A u \in Nat : u \in L <=> (u < s /\ u \notin build.setscene /\ \E r \in RevdepsIn(build, u) : r = s \/ r \in L)
  BY <1>2
<1> DEFINE g == [u \in Nat |-> u \in L]
<1>4. \A r \in Nat : g[r] <=> r \in L
  OBVIOUS
<1>5. g = [u \in Nat |-> u < s /\ u \notin build.setscene /\ \E r \in RevdepsIn(build, u) : r = s \/ g[r]]
  <2>1. ASSUME NEW u \in Nat
        PROVE  (u \in L) = (u < s /\ u \notin build.setscene /\ \E r \in RevdepsIn(build, u) : r = s \/ g[r])
    <3> HIDE DEF g
    <3>1. (u \in L) <=> (u < s /\ u \notin build.setscene /\ \E r \in RevdepsIn(build, u) : r = s \/ g[r])
      BY <1>3, <1>4, TasksNumbered
    <3> QED  BY <3>1
  <2> QED  BY <2>1
<1>6. f = [u \in Nat |-> u < s /\ u \notin build.setscene /\ \E r \in RevdepsIn(build, u) : r = s \/ f[r]]
  BY <1>5
<1> HIDE DEF f
<1>7. f[t] <=> (t < s /\ t \notin build.setscene /\ \E r \in RevdepsIn(build, t) : r = s \/ f[r])
  BY <1>6, TasksNumbered
<1> QED  BY <1>1, <1>7, TasksNumbered DEF Revdeps, Setscene

LEMMA UnskippableStep ==
    ASSUME build \in BuildType, NEW t \in Tasks
    PROVE  t \in Unskippable <=> \/ Revdeps(t) = {}
                                 \/ t \in CantskipIn(build)
                                 \/ \E r \in Revdeps(t) : r \notin Setscene /\ r \in Unskippable
<1> DEFINE f == CHOOSE f : f = [u \in Nat |-> \/ RevdepsIn(build, u) = {}
                                              \/ u \in CantskipIn(build)
                                              \/ \E r \in RevdepsIn(build, u) : r \notin build.setscene /\ f[r]]
           G == [A \in SUBSET Nat |-> {u \in Nat : \/ RevdepsIn(build, u) = {}
                                                   \/ u \in CantskipIn(build)
                                                   \/ \E r \in RevdepsIn(build, u) : r \notin build.setscene /\ r \in A}]
<1>1. Unskippable = {u \in Tasks : f[u]}
  BY DEF Unskippable, UnskippableIn
<1>2. PICK L \in SUBSET Nat : G[L] = L
  <2>1. \A A \in SUBSET Nat : G[A] \in SUBSET Nat
    OBVIOUS
  <2>2. \A A, B \in SUBSET Nat : A \subseteq B => G[A] \subseteq G[B]
    OBVIOUS
  <2> HIDE DEF G
  <2> QED  BY <2>1, <2>2, FixedPoint
<1>3. \A u \in Nat : u \in L <=> \/ RevdepsIn(build, u) = {}
                                 \/ u \in CantskipIn(build)
                                 \/ \E r \in RevdepsIn(build, u) : r \notin build.setscene /\ r \in L
  BY <1>2
<1> DEFINE g == [u \in Nat |-> u \in L]
<1>4. \A r \in Nat : g[r] <=> r \in L
  OBVIOUS
<1>5. g = [u \in Nat |-> \/ RevdepsIn(build, u) = {}
                         \/ u \in CantskipIn(build)
                         \/ \E r \in RevdepsIn(build, u) : r \notin build.setscene /\ g[r]]
  <2>1. ASSUME NEW u \in Nat
        PROVE  (u \in L) = (\/ RevdepsIn(build, u) = {}
                            \/ u \in CantskipIn(build)
                            \/ \E r \in RevdepsIn(build, u) : r \notin build.setscene /\ g[r])
    <3> HIDE DEF g
    <3> DEFINE P == \/ RevdepsIn(build, u) = {}
                    \/ u \in CantskipIn(build)
                    \/ \E r \in RevdepsIn(build, u) : r \notin build.setscene /\ g[r]
    <3>1. P \in BOOLEAN /\ ((u \in L) <=> P)
      BY <1>3, <1>4, TasksNumbered
    <3> HIDE DEF P
    <3>2. (u \in L) = P
      BY <3>1
    <3> QED  BY <3>2 DEF P
  <2> QED  BY <2>1
<1>6. f = [u \in Nat |-> \/ RevdepsIn(build, u) = {}
                         \/ u \in CantskipIn(build)
                         \/ \E r \in RevdepsIn(build, u) : r \notin build.setscene /\ f[r]]
  BY <1>5
<1> HIDE DEF f
<1>7. f[t] <=> \/ RevdepsIn(build, t) = {}
               \/ t \in CantskipIn(build)
               \/ \E r \in RevdepsIn(build, t) : r \notin build.setscene /\ f[r]
  BY <1>6, TasksNumbered
<1> QED  BY <1>1, <1>7, TasksNumbered DEF Revdeps, Setscene

LEMMA DoneBelowStep ==
    ASSUME build \in BuildType, NEW q, NEW F \in SUBSET Tasks
    PROVE  \E D \in SUBSET Tasks :
              /\ DoneBelow(q, F) = q.done \cup D
              /\ F \subseteq D
              /\ \A t \in Tasks \ (Setscene \cup q.done) :
                    (\E r \in Revdeps(t) : r \in D) /\ Revdeps(t) \subseteq q.done \cup D => t \in D
<1> DEFINE f == CHOOSE f : f = [u \in Nat |-> \/ u \in F
                                              \/ /\ u \in Tasks \ (Setscene \cup q.done)
                                                 /\ \E r \in Revdeps(u) : f[r]
                                                 /\ \A r \in Revdeps(u) : r \in q.done \/ f[r]]
           G == [A \in SUBSET Nat |-> {u \in Nat : \/ u \in F
                                                   \/ /\ u \in Tasks \ (Setscene \cup q.done)
                                                      /\ \E r \in Revdeps(u) : r \in A
                                                      /\ \A r \in Revdeps(u) : r \in q.done \/ r \in A}]
           D == {u \in Tasks : f[u]}
<1>1. DoneBelow(q, F) = q.done \cup D
  BY DEF DoneBelow
<1>2. PICK L \in SUBSET Nat : G[L] = L
  <2>1. \A A \in SUBSET Nat : G[A] \in SUBSET Nat
    OBVIOUS
  <2>2. \A A, B \in SUBSET Nat : A \subseteq B => G[A] \subseteq G[B]
    OBVIOUS
  <2> HIDE DEF G
  <2> QED  BY <2>1, <2>2, FixedPoint
<1>3. \A u \in Nat : u \in L <=> \/ u \in F
                                 \/ /\ u \in Tasks \ (Setscene \cup q.done)
                                    /\ \E r \in Revdeps(u) : r \in L
                                    /\ \A r \in Revdeps(u) : r \in q.done \/ r \in L
  BY <1>2
<1>a. \A u : Revdeps(u) \subseteq Nat
  BY TasksNumbered DEF Revdeps
<1> DEFINE g == [u \in Nat |-> u \in L]
<1>4. \A r \in Nat : g[r] <=> r \in L
  OBVIOUS
<1>5. g = [u \in Nat |-> \/ u \in F
                         \/ /\ u \in Tasks \ (Setscene \cup q.done)
                            /\ \E r \in Revdeps(u) : g[r]
                            /\ \A r \in Revdeps(u) : r \in q.done \/ g[r]]
  <2>1. ASSUME NEW u \in Nat
        PROVE  (u \in L) = (\/ u \in F
                            \/ /\ u \in Tasks \ (Setscene \cup q.done)
                               /\ \E r \in Revdeps(u) : g[r]
                               /\ \A r \in Revdeps(u) : r \in q.done \/ g[r])
    <3> HIDE DEF g
    <3> DEFINE P == \/ u \in F
                    \/ /\ u \in Tasks \ (Setscene \cup q.done)
                       /\ \E r \in Revdeps(u) : g[r]
                       /\ \A r \in Revdeps(u) : r \in q.done \/ g[r]
    <3>1. P \in BOOLEAN /\ ((u \in L) <=> P)
      BY <1>3, <1>4, <1>a
    <3> HIDE DEF P
    <3>2. (u \in L) = P
      BY <3>1
    <3> QED  BY <3>2 DEF P
  <2> QED  BY <2>1
<1>6. f = [u \in Nat |-> \/ u \in F
                         \/ /\ u \in Tasks \ (Setscene \cup q.done)
                            /\ \E r \in Revdeps(u) : f[r]
                            /\ \A r \in Revdeps(u) : r \in q.done \/ f[r]]
  BY <1>5
<1> HIDE DEF f
<1>7. ASSUME NEW t \in Tasks
      PROVE  f[t] <=> \/ t \in F
                      \/ /\ t \in Tasks \ (Setscene \cup q.done)
                         /\ \E r \in Revdeps(t) : f[r]
                         /\ \A r \in Revdeps(t) : r \in q.done \/ f[r]
  BY <1>6, TasksNumbered
<1>8. F \subseteq D
  BY <1>7
<1>9. ASSUME NEW t \in Tasks \ (Setscene \cup q.done), \E r \in Revdeps(t) : r \in D, Revdeps(t) \subseteq q.done \cup D
      PROVE  t \in D
  BY <1>7, <1>9
<1> HIDE DEF D
<1>10. D \in SUBSET Tasks
  BY DEF D
<1> QED  BY <1>1, <1>8, <1>9, <1>10

-----------------------------------------------------------------------------
(* The first and the last of some tasks                                    *)

LEMMA FirstTask ==
    ASSUME NEW S \in SUBSET Tasks, S # {}
    PROVE  \E t \in S : \A u \in S : t <= u
<1> DEFINE R == OpToRel(<, Nat)
<1>1. IsWellFoundedOn(R, Nat)
  BY NatLessThanWellFounded, Zenon
<1>2. \A x, y \in Nat : x < y => <<x, y>> \in R
  BY Zenon DEF OpToRel
<1> HIDE DEF R
<1>3. S \subseteq Nat
  BY TasksNumbered
<1>4. PICK t \in S : \A u \in S : ~(<<u, t>> \in R)
  BY <1>1, <1>3, WFMin
<1>5. ASSUME NEW u \in S PROVE t <= u
  <2>1. ~(u < t)
    BY <1>2, <1>3, <1>4
  <2> QED  BY <1>3, <2>1
<1> QED  BY <1>5

LEMMA LastTask ==
    ASSUME NEW S \in SUBSET Tasks, S # {}
    PROVE  \E t \in S : \A u \in S : u <= t
<1>1. N \in Nat /\ \A u \in Tasks : u \in Int /\ (N + 1) - u \in Tasks
  BY RunQueueAssumption DEF RunQueueAssumption, Tasks
<1> DEFINE Up == {v \in Tasks : (N + 1) - v \in S}
<1>2. Up # {}
  <2>1. PICK u \in S : TRUE
    OBVIOUS
  <2>2. (N + 1) - ((N + 1) - u) = u
    BY <1>1
  <2> QED  BY <1>1, <2>1, <2>2
<1>3. PICK v \in Up : \A w \in Up : v <= w
  BY <1>2, FirstTask
<1>4. ASSUME NEW u \in S PROVE u <= (N + 1) - v
  <2>1. (N + 1) - ((N + 1) - u) = u /\ (N + 1) - u \in Tasks
    BY <1>1
  <2>2. v <= (N + 1) - u
    BY <1>3, <2>1
  <2> QED  BY <1>1, <2>2
<1> QED  BY <1>3, <1>4

\* A task below a setscene task, or below a task that it replaces: with the setscene tasks that
\* need it, and the tasks that it is replaced by.
LEMMA BelowFacts ==
    ASSUME build \in Builds, NEW r \in Tasks, NEW d \in Depends(r)
    PROVE  /\ d \in Tasks
           /\ r \notin Setscene /\ r \in Unskippable => d \in Unskippable
           /\ d \in Setscene /\ SqRevdeps(d) # {} =>
                 \A s \in Setscene : r = s \/ r \in CoveredTasks(s) => s \in SqRevdeps(d)
           /\ d \notin Setscene =>
                 \A s \in Setscene : r = s \/ r \in CoveredTasks(s) => d \in CoveredTasks(s)
<1>1. build \in BuildType /\ Setscene \subseteq Tasks /\ Tasks \subseteq Int
  BY BuildTyped, GraphType DEF Tasks
<1>2. d \in Tasks /\ d < r /\ r \in Revdeps(d)
  BY <1>1, GraphType, RunQueueAssumption DEF RunQueueAssumption, Depends, Revdeps, RevdepsIn
<1>3. r \notin Setscene /\ r \in Unskippable => d \in Unskippable
  BY <1>1, <1>2, UnskippableStep
<1>4. ASSUME d \in Setscene, SqRevdeps(d) # {}, NEW s \in Setscene, r = s \/ r \in CoveredTasks(s)
      PROVE  s \in SqRevdeps(d)
  <2>1. build.hard[d] = {}
    <3>1. SUFFICES ASSUME build.hard[d] # {} PROVE SqRevdeps(d) = {}
      BY <1>4
    <3>2. \A u \in Tasks : d \notin build.hard[u]
      BY <1>2, <3>1, RunQueueAssumption DEF RunQueueAssumption
    <3> QED  BY <1>1, <3>1, <3>2 DEF SqRevdeps, SqRevdepsIn, Setscene
  <2>2. r \in {s} \cup CoveredTasks(s)
    BY <1>4
  <2> QED  BY <2>1, <2>2, <1>4 DEF SqRevdeps, SqRevdepsIn, CoveredTasks, Setscene, Depends
<1>5. ASSUME d \notin Setscene, NEW s \in Setscene, r = s \/ r \in CoveredTasks(s)
      PROVE  d \in CoveredTasks(s)
  <2>1. s \in Tasks /\ r <= s
    BY <1>1, <1>5, CoveredTasksStep
  <2>2. d < s
    BY <1>1, <1>2, <2>1
  <2> QED  BY <1>1, <1>2, <1>5, <2>1, <2>2, CoveredTasksStep
<1> QED  BY <1>2, <1>3, <1>4, <1>5

LEMMA GraphFacts ==
    ASSUME build \in BuildType
    PROVE  /\ \A s \in Setscene : CoveredTasks(s) \cap Setscene = {}
           /\ CantskipIn(build) \subseteq Unskippable \ Setscene
<1>1. \A s \in Setscene : CoveredTasks(s) \cap Setscene = {}
  BY GraphType, CoveredTasksStep
<1>2. CantskipIn(build) \subseteq Unskippable
  BY GraphType, UnskippableStep
<1> QED  BY <1>1, <1>2 DEF CantskipIn, Setscene

-----------------------------------------------------------------------------
(* The inputs of the tasks                                                 *)

\* What is to be executed, and what restored tasks replace.
Wanted == sq.notcovered \cup CantskipIn(build) \cup (Unskippable \ Setscene)
             \cup UNION {CoveredTasks(s) : s \in sq.notcovered}
Spared == sq.covered \cup UNION {CoveredTasks(s) : s \in sq.covered}

\* tasks_covered and tasks_notcovered agree with the setscene tasks decided, when they are up to date.
FreshInv ==
    /\ pc = "validate" => sched.update /\ there = {}
    /\ (~sched.update /\ moved = {}) => sched.notcovered \subseteq Wanted /\ sched.covered \subseteq Spared \ Wanted

\* What is executed is needed, or its setscene, or that of a task above, was given up.
ExecInv ==
    \A t \in Executing : IF t \in Setscene THEN t \in sq.notcovered
                         ELSE t \in Unskippable \/ \E s \in sq.notcovered : t \in CoveredTasks(s)

\* What was skipped without its output is needed by restored tasks only, and is no target.
SkipInv ==
    /\ rn.tasksrun \subseteq there
    /\ \A d \in rn.complete \ rn.tasksrun :
          IF d \in Setscene THEN d \in sq.covered
          ELSE d \notin Unskippable /\ \A s \in Setscene : d \in CoveredTasks(s) => s \in sq.covered
    /\ \A d \in sq.covered \ there : d \notin Unskippable \cup build.target /\ SqRevdeps(d) # {} /\ SqRevdeps(d) \subseteq sq.covered
    /\ pc # "validate" => scened \cap Setscene \subseteq there

OutputInv == FreshInv /\ ExecInv /\ SkipInv

\* What a task that is executed needs has been skipped only if its own setscene task, or the one
\* above, is restored as well as given up.
LEMMA InputsFound ==
    ASSUME build \in Builds, Typed, ReadyInv, RestoreInv, OutputInv
    PROVE  InputsPresent
<1> SUFFICES ASSUME NEW r \in Executing, NEW d \in Depends(r), d \notin there PROVE GivenUp(r)
  BY DEF InputsPresent
<1>1. r \in Tasks /\ d \in Tasks /\ sq.covered \subseteq Tasks
  BY TypedHelpers, GraphType DEF Typed, SqType
<1>2. d \in rn.complete \ rn.tasksrun
  BY DEF Executing, ReadyInv, Ready, OutputInv, SkipInv
<1>3. r \in Setscene => r \in sq.notcovered
  BY DEF OutputInv, ExecInv
<1>4. r \notin Setscene => r \in Unskippable \/ \E s \in sq.notcovered : r \in CoveredTasks(s)
  BY DEF OutputInv, ExecInv
<1>5. d \notin Unskippable
  BY <1>2 DEF OutputInv, SkipInv
<1>6. \A s \in Setscene : r = s \/ r \in CoveredTasks(s) => s \in sq.covered
  <2>1. CASE d \in Setscene
    BY <1>1, <1>2, <2>1, BelowFacts DEF OutputInv, SkipInv
  <2>2. CASE d \notin Setscene
    BY <1>1, <1>2, <2>2, BelowFacts DEF OutputInv, SkipInv
  <2> QED  BY <2>1, <2>2
<1>7. CASE r \in Setscene
  BY <1>3, <1>6, <1>7 DEF GivenUp
<1>8. CASE r \notin Setscene
  <2>1. PICK s \in sq.notcovered : r \in CoveredTasks(s)
    BY <1>1, <1>4, <1>5, <1>8, BelowFacts
  <2>2. s \in Setscene
    BY <2>1 DEF RestoreInv, SceneInv, Decided
  <2> QED  BY <1>6, <2>1, <2>2 DEF GivenUp
<1> QED  BY <1>7, <1>8

LEMMA FreshKept ==
    ASSUME FreshInv, build' = build, pc' # "validate",
           (~sched'.update /\ moved' = {}) =>
               /\ ~sched.update /\ moved = {}
               /\ sq'.covered = sq.covered /\ sq'.notcovered = sq.notcovered
               /\ sched'.covered = sched.covered /\ sched'.notcovered = sched.notcovered
    PROVE  FreshInv'
<1>1. /\ Setscene' = Setscene /\ Unskippable' = Unskippable /\ CantskipIn(build)' = CantskipIn(build)
      /\ \A s : CoveredTasks(s)' = CoveredTasks(s)
  BY SameGraph
<1>2. ASSUME sq'.covered = sq.covered, sq'.notcovered = sq.notcovered
      PROVE  Wanted' = Wanted /\ Spared' = Spared
  BY <1>1, <1>2 DEF Wanted, Spared
<1> QED  BY <1>2 DEF FreshInv

LEMMA ExecKept ==
    ASSUME ExecInv, build' = build, Executing' \subseteq Executing, sq.notcovered \subseteq sq'.notcovered
    PROVE  ExecInv'
BY SameGraph DEF ExecInv

LEMMA SkipKept ==
    ASSUME SkipInv, build' = build, there \subseteq there', sq.covered \subseteq sq'.covered,
           rn'.complete \ rn'.tasksrun \subseteq rn.complete \ rn.tasksrun, rn'.tasksrun \subseteq there',
           \A d \in sq'.covered \ there' :
              \/ d \in sq.covered
              \/ d \notin Unskippable \cup build.target /\ SqRevdeps(d) # {} /\ SqRevdeps(d) \subseteq sq'.covered,
           scened' \cap Setscene \subseteq there'
    PROVE  SkipInv'
<1>1. /\ Setscene' = Setscene /\ Unskippable' = Unskippable
      /\ \A s : CoveredTasks(s)' = CoveredTasks(s) /\ SqRevdeps(s)' = SqRevdeps(s)
  BY SameGraph
<1>2. ASSUME NEW d \in rn'.complete \ rn'.tasksrun
      PROVE  IF d \in Setscene THEN d \in sq'.covered
             ELSE d \notin Unskippable /\ \A s \in Setscene : d \in CoveredTasks(s) => s \in sq'.covered
  BY <1>2 DEF SkipInv
<1>3. ASSUME NEW d \in sq'.covered \ there'
      PROVE  d \notin Unskippable \cup build.target /\ SqRevdeps(d) # {} /\ SqRevdeps(d) \subseteq sq'.covered
  BY <1>3 DEF SkipInv
<1> QED  BY <1>1, <1>2, <1>3 DEF SkipInv

\* The steps that leave the tasks alone, and decide setscene tasks whose output is at hand.
LEMMA DecideOutput ==
    ASSUME Typed, RestoreInv, OutputInv, build' = build, rn' = rn, failed' = failed, pc' # "validate",
           sq.covered \subseteq sq'.covered, sq.notcovered \subseteq sq'.notcovered,
           there \subseteq there', scened' \cap Setscene \subseteq there',
           \A d \in sq'.covered \ there' :
              \/ d \in sq.covered
              \/ d \notin Unskippable \cup build.target /\ SqRevdeps(d) # {} /\ SqRevdeps(d) \subseteq sq'.covered,
           sched'.update \/ (sq'.covered = sq.covered /\ sq'.notcovered = sq.notcovered /\ sched' = sched /\ moved' = moved)
    PROVE  OutputInv'
<1>1. Executing' = Executing
  BY DEF Executing
<1>2. FreshInv'
  BY FreshKept DEF OutputInv
<1>3. ExecInv'
  BY <1>1, ExecKept DEF OutputInv
<1>4. SkipInv'
  <2>1. rn.tasksrun \subseteq there
    BY DEF OutputInv, SkipInv
  <2> QED  BY <2>1, SkipKept DEF OutputInv
<1> QED  BY <1>2, <1>3, <1>4 DEF OutputInv

LEMMA SceneOutput ==
    ASSUME Typed, Rest, RestoreInv, OutputInv, NEW s \in Setscene,
           SceneSkip(s) \/ SceneFailOutright(s) \/ SceneStart(s) \/ SetsceneComplete(s) \/ SetsceneFail(s)
    PROVE  OutputInv'
<1>0. s \in Tasks /\ {s} \in SUBSET Tasks /\ build \in BuildType /\ Undefer(sq, s) \in SqType
  BY GraphType, UndeferType DEF Typed, Touches
<1>1. /\ rn' = rn /\ build' = build /\ failed' = failed /\ pc' # "validate" /\ pc # "validate"
      /\ moved' = moved
  BY DEF SceneSkip, SceneFailOutright, SceneStart, SetsceneComplete, SetsceneFail, Reading, Goto, hashVars
<1>2. scened \cap Setscene \subseteq there
  BY <1>1 DEF OutputInv, SkipInv
<1> USE DEF Typed, SchedType
<1>3. CASE SceneSkip(s)
  <2>1. Covered(sq, {s}) \in SqType /\ Covered(sq, {s}).covered = sq.covered \cup {s}
        /\ Covered(sq, {s}).notcovered = sq.notcovered
    BY <1>0, CoveredType DEF Touches
  <2>2. sq'.covered = sq.covered \cup {s} /\ sq'.notcovered = sq.notcovered /\ sched'.update
    BY <1>3, <2>1, UndeferType DEF SceneSkip, Touches
  <2>3. there' = there /\ scened' = scened
    BY <1>3 DEF SceneSkip
  <2>4. Unneeded(s) \/ s \in there
    BY <1>2, <1>3 DEF SceneSkip
  <2>5. ASSUME NEW d \in sq'.covered \ there'
        PROVE  \/ d \in sq.covered
               \/ d \notin Unskippable \cup build.target /\ SqRevdeps(d) # {} /\ SqRevdeps(d) \subseteq sq'.covered
    BY <2>2, <2>3, <2>4, <2>5 DEF Unneeded
  <2> QED  BY <1>1, <1>2, <2>2, <2>3, <2>5, DecideOutput
<1>4. CASE SceneFailOutright(s)
  <2>1. sq'.covered = sq.covered /\ sq.notcovered \subseteq sq'.notcovered /\ sched'.update
    BY <1>0, <1>4, UndeferType, NotCoveredType DEF SceneFailOutright, Touches
  <2>2. there' = there /\ scened' = scened
    BY <1>4 DEF SceneFailOutright
  <2> QED  BY <1>1, <1>2, <2>1, <2>2, DecideOutput
<1>5. CASE SceneStart(s)
  <2>1. sq'.covered = sq.covered /\ sq'.notcovered = sq.notcovered /\ sched' = sched
    BY <1>0, <1>5, LiveType DEF SceneStart
  <2>2. there' = there /\ scened' = scened
    BY <1>5 DEF SceneStart
  <2> QED  BY <1>1, <1>2, <2>1, <2>2, DecideOutput
<1>6. CASE SetsceneComplete(s)
  <2>1. Covered(sq, {s}) \in SqType /\ Covered(sq, {s}).covered = sq.covered \cup {s}
        /\ Covered(sq, {s}).notcovered = sq.notcovered
    BY <1>0, CoveredType DEF Touches
  <2>2. sq'.covered = sq.covered \cup {s} /\ sq'.notcovered = sq.notcovered /\ sched'.update
    BY <1>6, <2>1 DEF SetsceneComplete, SqType
  <2>3. there' = there \cup {s} /\ scened' = scened \cup {s}
    BY <1>6 DEF SetsceneComplete
  <2> QED  BY <1>1, <1>2, <2>2, <2>3, DecideOutput
<1>7. CASE SetsceneFail(s)
  <2>1. NotCovered(sq, s) \in SqType /\ NotCovered(sq, s).covered = sq.covered
        /\ sq.notcovered \subseteq NotCovered(sq, s).notcovered
    BY <1>0, NotCoveredType DEF Touches
  <2>2. sq'.covered = sq.covered /\ sq.notcovered \subseteq sq'.notcovered /\ sched'.update
    BY <1>7, <2>1 DEF SetsceneFail, SqType
  <2>3. there' = there /\ scened' = scened
    BY <1>7 DEF SetsceneFail
  <2> QED  BY <1>1, <1>2, <2>2, <2>3, DecideOutput
<1> QED  BY <1>3, <1>4, <1>5, <1>6, <1>7

LEMMA ValidateOutput ==
    ASSUME Typed, Rest, RestoreInv, OutputInv, ValidateAll \/ EndMigrations
    PROVE  OutputInv'
<1>0. Setscene \in SUBSET Tasks /\ moved \in SUBSET Tasks /\ build \in BuildType
  BY GraphType DEF Typed
<1>1. /\ rn' = rn /\ build' = build /\ failed' = failed /\ pc' # "validate" /\ scened' = scened
  BY DEF ValidateAll, EndMigrations, Goto
<1> USE DEF Typed, SchedType
<1>2. CASE ValidateAll
  <2>1. sched' = sched /\ sched.update /\ there = {} /\ there' = Setscene \cap Stamped
    BY <1>2 DEF ValidateAll, OutputInv, FreshInv
  <2>2. PICK V \in SUBSET (Setscene \ Stamped) : sq' = Updated(sq, Setscene, V)
    BY <1>2 DEF ValidateAll
  <2>3. sq'.covered = sq.covered \cup (Setscene \cap Stamped) /\ sq'.notcovered = sq.notcovered
    <3>1. V \in SUBSET Tasks /\ sq \in SqType
      BY <1>0
    <3>2. Touches(sq, Updated(sq, Setscene, V), Setscene \cap Stamped, {}, Setscene \cap Stamped)
      BY <1>0, <3>1, UpdatedType
    <3> QED  BY <2>2, <3>2 DEF Touches
  <2>4. scened \cap Setscene \subseteq there'
    BY <2>1 DEF Stamped
  <2> QED  BY <1>1, <2>1, <2>3, <2>4, DecideOutput
<1>3. CASE EndMigrations /\ moved = {}
  <2>1. /\ sq' = sq /\ there' = there /\ moved' = moved
        /\ sched' = [sched EXCEPT !.update = @ \/ changed] /\ scened \cap Setscene \subseteq there
    BY <1>3 DEF EndMigrations, OutputInv, SkipInv
  <2>2. sched'.update \/ sched' = sched
    BY <2>1
  <2> QED  BY <1>1, <2>1, <2>2, DecideOutput
<1>4. CASE EndMigrations /\ moved # {}
  <2>1. /\ there' = there \cup (moved \cap Stamped) /\ sched'.update /\ scened \cap Setscene \subseteq there
    BY <1>4 DEF EndMigrations, OutputInv, SkipInv
  <2>2. PICK V \in SUBSET (moved \ Stamped) : sq' = Updated(sq, moved, V)
    BY <1>4 DEF EndMigrations
  <2>3. sq'.covered = sq.covered \cup (moved \cap Stamped) /\ sq'.notcovered = sq.notcovered
    <3>1. V \in SUBSET Tasks /\ sq \in SqType
      BY <1>0
    <3>2. Touches(sq, Updated(sq, moved, V), moved \cap Stamped, {}, moved \cap Stamped)
      BY <1>0, <3>1, UpdatedType
    <3> QED  BY <2>2, <3>2 DEF Touches
  <2> QED  BY <1>1, <2>1, <2>3, DecideOutput
<1> QED  BY <1>2, <1>3, <1>4

\* Steps after which a setscene task is given up, and those that leave the setscene side alone.
LEMMA FailOutput ==
    ASSUME Typed, Rest, RestoreInv, OutputInv, HardFail \/ ForceDeferred
    PROVE  OutputInv'
<1>1. /\ rn' = rn /\ build' = build /\ failed' = failed /\ pc' # "validate" /\ scened' = scened /\ there' = there
      /\ moved' = moved /\ scened \cap Setscene \subseteq there
  BY DEF HardFail, ForceDeferred, Goto, hashVars, OutputInv, SkipInv
<1>2. CASE HardFail /\ hardfailed = {}
  BY <1>1, <1>2, DecideOutput DEF HardFail
<1>3. CASE HardFail /\ hardfailed # {}
  <2>1. PICK s \in hardfailed : sq' = NotCovered(sq, s)
    BY <1>3 DEF HardFail
  <2>2. s \in Tasks
    BY DEF Typed
  <2>3. sq'.covered = sq.covered /\ sq.notcovered \subseteq sq'.notcovered
    <3>1. Touches(sq, NotCovered(sq, s), {}, HardFails(sq, s), HardFails(sq, s))
      BY <2>2, NotCoveredType DEF Typed
    <3> QED  BY <2>1, <3>1 DEF Touches
  <2>4. sched'.update
    BY <1>3 DEF HardFail, RestoreInv, SceneInv, HardInv
  <2> QED  BY <1>1, <2>3, <2>4, DecideOutput
<1>4. CASE ForceDeferred
  <2>1. PICK d \in sq.deferred : sq' = NotCovered([sq EXCEPT !.deferred = @ \ {d}], d[2])
    BY <1>4 DEF ForceDeferred
  <2> DEFINE q == [sq EXCEPT !.deferred = @ \ {d}]
  <2>2. q \in SqType /\ q.covered = sq.covered /\ q.notcovered = sq.notcovered /\ d[2] \in Tasks
    BY DEF Typed, SqType
  <2> HIDE DEF q
  <2>3. sq'.covered = sq.covered /\ sq.notcovered \subseteq sq'.notcovered
    <3>1. Touches(q, NotCovered(q, d[2]), {}, HardFails(q, d[2]), HardFails(q, d[2]))
      BY <2>2, NotCoveredType DEF Typed
    <3>2. sq' = NotCovered(q, d[2])
      BY <2>1 DEF q
    <3> QED  BY <2>2, <3>1, <3>2 DEF Touches
  <2>4. sched'.update
    BY <1>4 DEF ForceDeferred, Typed, SchedType
  <2> QED  BY <1>1, <2>3, <2>4, DecideOutput
<1> QED  BY <1>2, <1>3, <1>4

LEMMA MigrateOutput ==
    ASSUME Typed, Rest, RestoreInv, OutputInv, NEW s \in Tasks, Migrate(s)
    PROVE  OutputInv'
<1>1. /\ rn' = rn /\ build' = build /\ failed' = failed /\ pc' = pc /\ pc = "migrate" /\ scened' = scened /\ there' = there
      /\ moved' = moved \cup {s} /\ Movable(s)
      /\ sq'.covered = sq.covered \ {s} /\ sq'.notcovered = sq.notcovered \ {s}
  BY DEF Migrate, Typed, SqType
<1>2. s \notin sq.covered /\ Executing \cap Replaced(s) = {}
  BY <1>1, MovableFacts
<1>3. FreshInv'
  BY <1>1, FreshKept DEF OutputInv
<1>4. ExecInv'
  <2>1. Executing' = Executing /\ Setscene' = Setscene /\ Unskippable' = Unskippable
        /\ \A u : CoveredTasks(u)' = CoveredTasks(u)
    BY <1>1, SameGraph DEF Executing
  <2>2. \A t \in Executing : t # s /\ t \notin CoveredTasks(s)
    BY <1>2 DEF Replaced
  <2> QED  BY <1>1, <2>1, <2>2 DEF OutputInv, ExecInv
<1>5. SkipInv'
  <2>1. scened \cap Setscene \subseteq there /\ rn.tasksrun \subseteq there
    BY <1>1 DEF OutputInv, SkipInv
  <2> QED  BY <1>1, <1>2, <2>1, SkipKept DEF OutputInv
<1> QED  BY <1>3, <1>4, <1>5 DEF OutputInv

\* The steps that leave the setscene side alone.
LEMMA SameSceneOutput ==
    ASSUME Typed, OutputInv, sq' = sq, build' = build, sched' = sched, moved' = moved, scened' = scened,
           pc # "validate", pc' # "validate", there \subseteq there', Executing' \subseteq Executing,
           rn'.complete \ rn'.tasksrun \subseteq rn.complete \ rn.tasksrun, rn'.tasksrun \subseteq there'
    PROVE  OutputInv'
<1>1. FreshInv'
  BY FreshKept DEF OutputInv
<1>2. ExecInv'
  BY ExecKept DEF OutputInv
<1>3. SkipInv'
  <2>1. scened \cap Setscene \subseteq there
    BY DEF OutputInv, SkipInv
  <2> QED  BY <2>1, SkipKept DEF OutputInv
<1> QED  BY <1>1, <1>2, <1>3 DEF OutputInv

LEMMA TaskOutput ==
    ASSUME Typed, OutputInv, NEW t \in Tasks,
           TaskSkipExisting(t) \/ TaskComplete(t) \/ TaskFail(t) \/ TaskUniHashUpdate(t)
    PROVE  OutputInv'
<1>1. /\ sq' = sq /\ build' = build /\ sched' = sched /\ moved' = moved /\ scened' = scened
      /\ pc # "validate" /\ pc' # "validate"
  BY DEF TaskSkipExisting, TaskComplete, TaskFail, TaskUniHashUpdate, Reading, Goto, hashVars
<1>2. Executing' \subseteq Executing
  BY TaskRuns DEF RunsLess
<1>3. /\ there \subseteq there' /\ rn'.tasksrun \subseteq there'
      /\ rn'.complete \ rn'.tasksrun \subseteq rn.complete \ rn.tasksrun
  <2>0. rn.tasksrun \subseteq there
    BY DEF OutputInv, SkipInv
  <2> USE DEF Typed
  <2>1. CASE TaskSkipExisting(t)
    <3>1. rn'.complete = rn.complete \cup {t} /\ rn'.tasksrun = rn.tasksrun \cup {t}
      BY <2>1, SkippedType DEF TaskSkipExisting, RnType
    <3> QED  BY <2>0, <2>1, <3>1 DEF TaskSkipExisting
  <2>2. CASE TaskComplete(t)
    <3>1. /\ Completed(rn, t) \in RnType
          /\ Completed(rn, t).complete = rn.complete \cup {t}
          /\ Completed(rn, t).tasksrun = rn.tasksrun
      BY CompletedType
    <3>2. rn'.complete = rn.complete \cup {t} /\ rn'.tasksrun = rn.tasksrun \cup {t}
      BY <2>2, <3>1 DEF TaskComplete, RnType
    <3> QED  BY <2>0, <2>2, <3>2 DEF TaskComplete
  <2>3. CASE TaskFail(t)
    BY <2>0, <2>3 DEF TaskFail
  <2>4. CASE TaskUniHashUpdate(t)
    BY <2>0, <2>4 DEF TaskUniHashUpdate
  <2> QED  BY <2>1, <2>2, <2>3, <2>4
<1> QED  BY <1>1, <1>2, <1>3, SameSceneOutput

\* A task is skipped without its output only when restored tasks spare it.
LEMMA TaskSkipCoveredOutput ==
    ASSUME Typed, Rest, RestoreInv, OutputInv, NEW t \in Tasks, TaskSkipCovered(t)
    PROVE  OutputInv'
<1>1. /\ sq' = sq /\ build' = build /\ sched' = sched /\ moved' = moved /\ scened' = scened /\ there' = there
      /\ pc = "task" /\ pc' # "validate" /\ t \in sched.covered /\ t \notin sched.holdoff /\ t \notin rn.running
      /\ ~sched.update /\ moved = {}
  BY DEF TaskSkipCovered, Next_buildable, Goto, hashVars, RestoreInv, HoldInv
<1>2. Executing' \subseteq Executing
  BY TaskRuns DEF RunsLess
<1>3. rn'.complete = rn.complete \cup {t} /\ rn'.tasksrun = rn.tasksrun
  BY SkippedType DEF TaskSkipCovered
<1>4. t \in Spared /\ t \notin Wanted
  BY <1>1 DEF OutputInv, FreshInv
<1>5. sq.covered \subseteq Setscene /\ t \notin rn.complete
  BY <1>1 DEF RestoreInv, SceneInv, PendingInv, Decided
<1>6. t \in Setscene => t \in sq.covered
  BY <1>4, <1>5, GraphFacts DEF Spared, Typed
<1>7. ASSUME t \notin Setscene
      PROVE  t \notin Unskippable /\ \A s \in Setscene : t \in CoveredTasks(s) => s \in sq.covered
  <2>1. t \notin Unskippable
    BY <1>4, <1>7 DEF Wanted
  <2>2. ASSUME NEW s \in Setscene, t \in CoveredTasks(s), s \notin Decided(sq) PROVE FALSE
    BY <1>1, <1>5, <2>2 DEF RestoreInv, HoldInv, Replaced
  <2>3. ASSUME NEW s \in sq.notcovered PROVE t \notin CoveredTasks(s)
    BY <1>4 DEF Wanted
  <2> QED  BY <2>1, <2>2, <2>3 DEF Decided
<1>8. FreshInv'
  BY <1>1, FreshKept DEF OutputInv
<1>9. ExecInv'
  BY <1>1, <1>2, ExecKept DEF OutputInv
<1>10. SkipInv'
  <2>1. /\ Setscene' = Setscene /\ Unskippable' = Unskippable
        /\ \A s : CoveredTasks(s)' = CoveredTasks(s) /\ SqRevdeps(s)' = SqRevdeps(s)
    BY <1>1, SameGraph
  <2>2. ASSUME NEW d \in rn.complete \cup {t}, d \notin rn.tasksrun
        PROVE  IF d \in Setscene THEN d \in sq.covered
               ELSE d \notin Unskippable /\ \A s \in Setscene : d \in CoveredTasks(s) => s \in sq.covered
    BY <1>6, <1>7, <2>2 DEF OutputInv, SkipInv
  <2>3. scened \cap Setscene \subseteq there
    BY <1>1 DEF OutputInv, SkipInv
  <2> QED  BY <1>1, <1>3, <2>1, <2>2, <2>3 DEF OutputInv, SkipInv
<1> QED  BY <1>8, <1>9, <1>10 DEF OutputInv

LEMMA TaskStartOutput ==
    ASSUME Typed, Rest, RestoreInv, OutputInv, NEW t \in Tasks, TaskStart(t)
    PROVE  OutputInv'
<1>1. /\ sq' = sq /\ build' = build /\ sched' = sched /\ moved' = moved /\ scened' = scened /\ there' = there
      /\ failed' = failed /\ pc = "task" /\ pc' # "validate" /\ t \in sched.notcovered /\ ~sched.update /\ moved = {}
  BY DEF TaskStart, Next_buildable, Goto, hashVars, RestoreInv, HoldInv
<1>2. rn'.complete = rn.complete /\ rn'.tasksrun = rn.tasksrun /\ Executing' \subseteq Executing \cup {t}
  BY <1>1 DEF TaskStart, Typed, RnType, Executing
<1>3. t \in Wanted
  BY <1>1 DEF OutputInv, FreshInv
<1>4. sq.notcovered \subseteq Setscene
  BY DEF RestoreInv, SceneInv, Decided
<1>5. IF t \in Setscene THEN t \in sq.notcovered
      ELSE t \in Unskippable \/ \E s \in sq.notcovered : t \in CoveredTasks(s)
  BY <1>3, <1>4, GraphFacts DEF Wanted, Typed
<1>6. FreshInv'
  BY <1>1, FreshKept DEF OutputInv
<1>7. ExecInv'
  <2>1. Setscene' = Setscene /\ Unskippable' = Unskippable /\ \A s : CoveredTasks(s)' = CoveredTasks(s)
    BY <1>1, SameGraph
  <2> QED  BY <1>1, <1>2, <1>5, <2>1 DEF OutputInv, ExecInv
<1>8. SkipInv'
  <2>1. scened \cap Setscene \subseteq there /\ rn.tasksrun \subseteq there
    BY <1>1 DEF OutputInv, SkipInv
  <2> QED  BY <1>1, <1>2, <2>1, SkipKept DEF OutputInv
<1> QED  BY <1>6, <1>7, <1>8 DEF OutputInv

LEMMA HoldoffOutput ==
    ASSUME Typed, Rest, RestoreInv, OutputInv, Holdoff
    PROVE  OutputInv'
<1> DEFINE v == UpdateHoldoff(sched)
<1>1. /\ sq' = sq /\ build' = build /\ sched' = v /\ moved' = moved /\ scened' = scened /\ there' = there
      /\ pc = "holdoff" /\ pc' # "validate" /\ moved = {}
  BY DEF Holdoff, Goto, hashVars, RestoreInv, SceneInv
<1>2. Executing' \subseteq Executing /\ rn'.complete = rn.complete /\ rn'.tasksrun = rn.tasksrun
  BY PassRuns, TypedHelpers DEF Holdoff, RunsLess
<1>3. v.notcovered \subseteq Wanted /\ v.covered \subseteq Spared \ Wanted
  <2>1. CASE sched.update
    <3>1. v.notcovered = Wanted \cap sq.done /\ v.covered = (Spared \ v.notcovered) \cap sq.done
      BY <2>1 DEF UpdateHoldoff, Wanted, Spared
    <3> HIDE DEF v
    <3> QED  BY <3>1
  <2>2. CASE ~sched.update
    BY <1>1, <2>2 DEF UpdateHoldoff, OutputInv, FreshInv
  <2> QED  BY <2>1, <2>2
<1> HIDE DEF v
<1>4. Wanted' = Wanted /\ Spared' = Spared
  BY <1>1, SameGraph DEF Wanted, Spared
<1>5. FreshInv'
  BY <1>1, <1>3, <1>4 DEF FreshInv
<1>6. ExecInv'
  BY <1>1, <1>2, ExecKept DEF OutputInv
<1>7. SkipInv'
  <2>1. scened \cap Setscene \subseteq there /\ rn.tasksrun \subseteq there
    BY <1>1 DEF OutputInv, SkipInv
  <2> QED  BY <1>1, <1>2, <2>1, SkipKept DEF OutputInv
<1> QED  BY <1>5, <1>6, <1>7 DEF OutputInv

LEMMA QuietOutput ==
    ASSUME Typed, RestoreInv, OutputInv,
           \/ BeginExecute \/ EndRead \/ BeginPass \/ SceneNone \/ TaskNone \/ Wait \/ End
           \/ SceneSpawnFails \/ TaskSpawnFails \/ CleanUp
           \/ UserFinish \/ FinishNow \/ Rehash \/ (\E s \in Tasks : MigrateNot(s))
    PROVE  OutputInv'
<1>1. /\ sq' = sq /\ build' = build /\ sched' = sched /\ moved' = moved /\ scened' = scened /\ there' = there
      /\ rn' = rn /\ failed' = failed /\ pc # "validate" /\ pc' # "validate"
  BY DEF BeginExecute, EndRead, BeginPass, SceneNone, TaskNone, Wait, End,
                SceneSpawnFails, TaskSpawnFails, CleanUp, UserFinish, FinishNow,
         Rehash, MigrateNot, Goto, hashVars
<1>2. Executing' = Executing
  BY <1>1 DEF Executing
<1>3. rn.tasksrun \subseteq there
  BY DEF OutputInv, SkipInv
<1> QED  BY <1>1, <1>2, <1>3, SameSceneOutput

LEMMA NextOutput == Typed /\ Rest /\ RestoreInv /\ OutputInv /\ [Next]_vars => OutputInv'
<1> SUFFICES ASSUME Typed, Rest, RestoreInv, OutputInv, [Next]_vars
             PROVE  OutputInv'
  OBVIOUS
<1>1. CASE ValidateAll \/ EndMigrations
  BY <1>1, ValidateOutput
<1>2. CASE HardFail \/ ForceDeferred
  BY <1>2, FailOutput
<1>3. CASE \E s \in Tasks : Migrate(s)
  BY <1>3, MigrateOutput
<1>4. CASE \E s \in Setscene : SceneSkip(s) \/ SceneFailOutright(s) \/ SceneStart(s)
                               \/ SetsceneComplete(s) \/ SetsceneFail(s)
  BY <1>4, SceneOutput
<1>5. CASE \E t \in Tasks : TaskSkipCovered(t)
  BY <1>5, TaskSkipCoveredOutput
<1>6. CASE \E t \in Tasks : TaskStart(t)
  BY <1>6, TaskStartOutput
<1>7. CASE \E t \in Tasks : TaskSkipExisting(t) \/ TaskComplete(t) \/ TaskFail(t) \/ TaskUniHashUpdate(t)
  BY <1>7, TaskOutput
<1>8. CASE Holdoff
  BY <1>8, HoldoffOutput
<1>9. CASE \/ BeginExecute \/ EndRead \/ BeginPass \/ SceneNone \/ TaskNone \/ Wait \/ End
           \/ SceneSpawnFails \/ TaskSpawnFails \/ CleanUp
           \/ UserFinish \/ FinishNow \/ Rehash \/ (\E s \in Tasks : MigrateNot(s))
  BY <1>9, QuietOutput
<1>10. CASE UNCHANGED vars
  <2>1. /\ sq' = sq /\ build' = build /\ sched' = sched /\ moved' = moved /\ scened' = scened /\ there' = there
        /\ rn' = rn /\ failed' = failed /\ pc' = pc
    BY <1>10 DEF vars, hashVars
  <2>2. /\ Setscene' = Setscene /\ Unskippable' = Unskippable /\ CantskipIn(build)' = CantskipIn(build)
        /\ (\A s : CoveredTasks(s)' = CoveredTasks(s) /\ SqRevdeps(s)' = SqRevdeps(s))
        /\ Executing' = Executing
    BY <2>1, SameGraph DEF Executing
  <2>3. Wanted' = Wanted /\ Spared' = Spared
    BY <2>1, <2>2 DEF Wanted, Spared
  <2> QED  BY <2>1, <2>2, <2>3 DEF OutputInv, FreshInv, ExecInv, SkipInv
<1>11. \/ ValidateAll \/ EndMigrations \/ HardFail \/ ForceDeferred \/ (\E s \in Tasks : Migrate(s))
       \/ (\E s \in Setscene : SceneSkip(s) \/ SceneFailOutright(s) \/ SceneStart(s)
                               \/ SetsceneComplete(s) \/ SetsceneFail(s))
       \/ (\E t \in Tasks : TaskSkipCovered(t)) \/ (\E t \in Tasks : TaskStart(t))
       \/ (\E t \in Tasks : TaskSkipExisting(t) \/ TaskComplete(t) \/ TaskFail(t) \/ TaskUniHashUpdate(t))
       \/ Holdoff
       \/ BeginExecute \/ EndRead \/ BeginPass \/ SceneNone \/ TaskNone \/ Wait \/ End
       \/ SceneSpawnFails \/ TaskSpawnFails \/ CleanUp
       \/ UserFinish \/ FinishNow \/ Rehash \/ (\E s \in Tasks : MigrateNot(s)) \/ UNCHANGED vars
  BY DEF Next, Pass, Migrations, WorkerEnds, Ended
<1> QED  BY <1>1, <1>2, <1>3, <1>4, <1>5, <1>6, <1>7, <1>8, <1>9, <1>10, <1>11

LEMMA InitOutput == Init => OutputInv
<1> SUFFICES ASSUME Init PROVE OutputInv
  OBVIOUS
<1>1. /\ pc = "validate" /\ sched.update /\ there = {} /\ sq.covered = {}
      /\ rn.complete = {} /\ rn.running = {} /\ rn.tasksrun = {}
  BY DEF Init, Undecided
<1> QED  BY <1>1 DEF OutputInv, FreshInv, ExecInv, SkipInv, Executing

\* The invariant holds of every build.
THEOREM OutputInvariant == Spec => []OutputInv
<1>1. QueueInv => Typed /\ Rest
  BY DEF QueueInv
<1> QED  BY <1>1, QueueInvariant, RestoreInvariant, InitOutput, NextOutput, PTL DEF Spec

\* A task that is executed finds the output of all it depends on, unless the deadlock breaker gave
\* up a setscene task that was decided before: for every build, every outcome of its tasks and
\* setscene tasks, every change of their hashes, and every stamp left by an earlier build.
THEOREM InputsAtHand == Spec => []InputsPresent
<1>1. QueueInv => Typed /\ build \in Builds
  BY DEF QueueInv, Rest
<1> QED  BY <1>1, QueueInvariant, ReadyInvariant, RestoreInvariant, OutputInvariant, InputsFound, PTL

\* No task was skipped because of a setscene task that is about to be moved.
MovedUnskipped ==
    \A s \in look : pc = "migrate" /\ Movable(s) => CoveredTasks(s) \cap (rn.complete \ rn.tasksrun) = {}

\* The code gives the build up if a setscene task is to be moved for which a task was skipped.  It
\* never does, and the guard of Migrate that stands for this never stops a step.
THEOREM MigrationAllowed == Spec => []MovedUnskipped
<1>1. ASSUME build \in BuildType, RestoreInv, OutputInv, NEW s \in look, pc = "migrate", Movable(s)
      PROVE  CoveredTasks(s) \cap (rn.complete \ rn.tasksrun) = {}
  <2>1. s \in Setscene /\ s \notin sq.covered
    BY <1>1, MovableFacts
  <2>2. CoveredTasks(s) \cap Setscene = {}
    BY <1>1, <2>1, GraphFacts
  <2> QED  BY <1>1, <2>1, <2>2 DEF OutputInv, SkipInv
<1>2. QueueInv => build \in BuildType
  BY DEF QueueInv, Typed
<1>3. build \in BuildType /\ RestoreInv /\ OutputInv => MovedUnskipped
  BY <1>1 DEF MovedUnskipped
<1> QED  BY <1>2, <1>3, QueueInvariant, RestoreInvariant, OutputInvariant, PTL

\* With the sanity check that no setscene task is decided both ways, without exception.
COROLLARY InputsAlways == Spec => [](CoveredOrNot => \A t \in Executing : Depends(t) \subseteq there)
<1>1. InputsPresent => (CoveredOrNot => \A t \in Executing : Depends(t) \subseteq there)
  BY DEF InputsPresent, GivenUp, CoveredOrNot
<1> QED  BY <1>1, InputsAtHand, PTL

-----------------------------------------------------------------------------
(* The end of the build                                                    *)

Open == Setscene \ Decided(sq)
Idle == sq.live = {} /\ Executing = {}

\* A setscene task for which all that it waits for is decided may start, or is about to fail with a
\* task it needs; what runs and is not live is decided; what is decided is done, and so is what only
\* such tasks need.
LineInv ==
    /\ sq.running \subseteq Decided(sq) \cup sq.live
    /\ Decided(sq) \subseteq sq.buildable
    /\ \A s \in Setscene : SqRevdeps(s) \subseteq Decided(sq) => s \in sq.buildable \cup hardfailed
    /\ Decided(sq) \subseteq sq.done
    /\ \A t \in Tasks \ Setscene : Revdeps(t) \subseteq sq.done => t \in sq.done

\* Of what is held off every task has an undecided setscene task above; a task whose setscene side
\* is known is buildable when its turn has come.
SchedInv ==
    /\ pc \in {"task", "wait"} => ~sched.update /\ moved = {}
    /\ rn.running \subseteq rn.buildable
    /\ sqdone /\ moved = {} => Open = {}
    /\ (~sched.update /\ moved = {}) =>
          /\ Open \subseteq sched.holdoff
          /\ \A t \in sched.holdoff : \E s \in Open : t \in Replaced(s)
          /\ (Wanted \cup Spared) \cap sq.done \subseteq sched.covered \cup sched.notcovered
          /\ \A t \in sched.covered \cup sched.notcovered : Depends(t) \subseteq rn.complete => t \in rn.buildable

\* What a pass has found out on its way when nothing runs any more.
StuckInv ==
    /\ pc \in {"holdoff", "task", "wait"} /\ Idle /\ sq.deferred = {} => sqdone \/ Waiting(sq) \cap Setscene = {}
    /\ pc = "wait" /\ Idle =>
          ((rn.buildable \ rn.running) \ sched.holdoff) \cap (sched.covered \cup sched.notcovered) = {}
    /\ pc \in {"migrate", "hardfail", "scene", "holdoff", "task", "wait"} => reported \subseteq rn.running \ rn.complete

EndInv == LineInv /\ SchedInv /\ StuckInv

\* A task that is no setscene task, and that nothing else asks for, has a setscene task above.
LEMMA Sheltered ==
    ASSUME build \in Builds, NEW t \in Tasks, t \notin Setscene \cup Unskippable
    PROVE  \E s \in Setscene : t \in CoveredTasks(s)
<1> DEFINE S == {u \in Tasks \ (Setscene \cup Unskippable) : \A s \in Setscene : u \notin CoveredTasks(s)}
<1>1. build \in BuildType /\ Setscene \subseteq Tasks /\ Tasks \subseteq Int
  BY BuildTyped, GraphType, TasksNumbered
<1>2. SUFFICES ASSUME S # {} PROVE FALSE
  OBVIOUS
<1>3. PICK u \in S : \A v \in S : v <= u
  BY <1>2, LastTask
<1>4. PICK r \in Revdeps(u) : TRUE
  BY <1>1, <1>3, UnskippableStep
<1>5. r \in Tasks /\ u \in Depends(r) /\ u < r
  BY RunQueueAssumption DEF RunQueueAssumption, Revdeps, RevdepsIn, Depends
<1>6. ~(r <= u)
  BY <1>1, <1>5
<1>7. CASE r \in Setscene
  BY <1>3, <1>5, <1>7, BelowFacts
<1>8. CASE r \notin Setscene
  <2>1. r \notin Unskippable
    BY <1>3, <1>5, <1>8, BelowFacts
  <2>2. PICK s \in Setscene : r \in CoveredTasks(s)
    BY <1>3, <1>5, <1>6, <1>8, <2>1
  <2> QED  BY <1>3, <1>5, <2>2, BelowFacts
<1> QED  BY <1>7, <1>8

\* When all setscene tasks are decided, all tasks are done, and are wanted or spared.
LEMMA AllKnown ==
    ASSUME build \in Builds, LineInv, Open = {}
    PROVE  Tasks \subseteq sq.done /\ Tasks \subseteq Wanted \cup Spared
<1>1. Setscene \subseteq Decided(sq) /\ Tasks \subseteq Int
  BY TasksNumbered DEF Open
<1>2. Tasks \subseteq sq.done
  <2> DEFINE S == Tasks \ sq.done
  <2>1. SUFFICES ASSUME S # {} PROVE FALSE
    OBVIOUS
  <2>2. PICK t \in S : \A u \in S : u <= t
    BY <2>1, LastTask
  <2>3. ASSUME NEW r \in Revdeps(t) PROVE r \in sq.done
    <3>1. r \in Tasks /\ t < r
      BY RunQueueAssumption DEF RunQueueAssumption, Revdeps, RevdepsIn
    <3>2. ~(r <= t)
      BY <1>1, <3>1
    <3> QED  BY <2>2, <3>1, <3>2
  <2> QED  BY <1>1, <2>2, <2>3 DEF LineInv
<1>3. ASSUME NEW t \in Tasks PROVE t \in Wanted \cup Spared
  <2>1. CASE t \in Setscene
    BY <1>1, <2>1 DEF Decided, Wanted, Spared
  <2>2. CASE t \notin Setscene /\ t \in Unskippable
    BY <2>2 DEF Wanted
  <2>3. CASE t \notin Setscene \cup Unskippable
    <3>1. PICK s \in Setscene : t \in CoveredTasks(s)
      BY <2>3, Sheltered
    <3> QED  BY <1>1, <3>1 DEF Decided, Wanted, Spared
  <2> QED  BY <2>1, <2>2, <2>3
<1> QED  BY <1>2, <1>3

\* The sanity checks find nothing when all setscene tasks are decided.
LEMMA NoErrors ==
    ASSUME build \in Builds, LineInv, SceneInv, Open = {}, NEW v, NEW r,
           sq.deferred = {}, reported = {}, v.holdoff = {},
           (Wanted \cup Spared) \cap sq.done \subseteq v.covered \cup v.notcovered,
           \A t \in v.covered \cup v.notcovered : Depends(t) \subseteq rn.complete => t \in r.buildable
    PROVE  ~SceneErrors(v, r)
<1>1. Tasks \subseteq sq.done /\ Tasks \subseteq v.covered \cup v.notcovered
  BY AllKnown
<1>2. Setscene \subseteq Decided(sq) /\ Setscene \subseteq sq.buildable \cap sq.running
  BY DEF Open, LineInv, SceneInv
<1> QED  BY <1>1, <1>2 DEF SceneErrors

\* A setscene task left over needs one that is left over, and the last of them would need none.
LEMMA AllDecided ==
    ASSUME build \in Builds, LineInv, sq.live = {}, hardfailed = {}, Waiting(sq) \cap Setscene = {}
    PROVE  Open = {}
<1>1. SUFFICES ASSUME Open # {} PROVE FALSE
  OBVIOUS
<1>2. build \in BuildType /\ Setscene \subseteq Tasks /\ Tasks \subseteq Int
  BY BuildTyped, GraphType, TasksNumbered
<1>3. PICK m \in Open : \A s \in Open : s <= m
  BY <1>1, <1>2, LastTask DEF Open
<1>4. \A s \in Open : ~(SqRevdeps(s) \subseteq Decided(sq))
  BY DEF Open, LineInv, Waiting
<1>5. PICK s \in SqRevdeps(m) : s \notin Decided(sq)
  BY <1>3, <1>4
<1>6. s \in Open
  BY <1>5 DEF SqRevdeps, SqRevdepsIn, Setscene, Open
<1>7. m \in Tasks /\ s \in Tasks /\ s <= m
  BY <1>2, <1>3, <1>6 DEF Open
<1>8. CASE m \in build.hard[s]
  <2>1. \A u \in Tasks : s \notin build.hard[u]
    BY <1>7, <1>8, RunQueueAssumption DEF RunQueueAssumption
  <2>2. SqRevdeps(s) = {}
    BY <1>2, <1>8, <2>1 DEF SqRevdeps, SqRevdepsIn, Setscene
  <2> QED  BY <1>4, <1>6, <2>2
<1>9. CASE m \notin build.hard[s]
  <2>1. PICK r \in {s} \cup CoveredTasks(s) : m \in Depends(r)
    BY <1>5, <1>9 DEF SqRevdeps, SqRevdepsIn, Depends, CoveredTasks
  <2>2. r \in Tasks /\ r <= s
    BY <1>2, <1>7, GraphType, CoveredTasksStep
  <2>3. m < r
    BY <2>1, <2>2, RunQueueAssumption DEF RunQueueAssumption, Depends
  <2> QED  BY <1>2, <1>7, <2>2, <2>3
<1> QED  BY <1>8, <1>9

\* At the end of a pass with nothing left to wait for, everything is complete.
LEMMA NothingLeft ==
    ASSUME Typed, Rest, RestoreInv, EndInv, pc = "wait", Idle, sq.deferred = {}, failed = {}
    PROVE  ~Unfinished
<1>1. hardfailed = {} /\ moved = {} /\ ~sched.update /\ build \in Builds /\ SceneInv
  BY DEF RestoreInv, SceneInv, EndInv, SchedInv, Rest
<1>2. Open = {}
  <2>1. CASE sqdone
    BY <1>1, <2>1 DEF EndInv, SchedInv
  <2>2. CASE ~sqdone
    BY <1>1, <2>2, AllDecided DEF EndInv, StuckInv, Idle
  <2> QED  BY <2>1, <2>2
<1>3. sched.holdoff = {} /\ reported = {}
  <2>1. rn.running \ rn.complete = {}
    BY DEF Idle, Executing
  <2> QED  BY <1>1, <1>2, <2>1 DEF EndInv, SchedInv, StuckInv
<1>4. /\ (Wanted \cup Spared) \cap sq.done \subseteq sched.covered \cup sched.notcovered
      /\ \A t \in sched.covered \cup sched.notcovered : Depends(t) \subseteq rn.complete => t \in rn.buildable
  BY <1>1 DEF EndInv, SchedInv
<1>5. ~SceneErrors(sched, rn)
  BY <1>1, <1>2, <1>3, <1>4, NoErrors DEF EndInv
<1>6. Tasks \subseteq sched.covered \cup sched.notcovered
  BY <1>1, <1>2, <1>4, AllKnown DEF EndInv
<1>7. Tasks \subseteq rn.complete
  <2> DEFINE S == Tasks \ rn.complete
  <2>1. SUFFICES ASSUME S # {} PROVE FALSE
    OBVIOUS
  <2>2. PICK t \in S : \A u \in S : t <= u
    BY <2>1, FirstTask
  <2>3. ASSUME NEW d \in Depends(t) PROVE d \in rn.complete
    <3>1. d \in Tasks /\ d < t
      BY <1>1, BelowFacts, RunQueueAssumption DEF RunQueueAssumption, Depends
    <3>2. ~(t <= d)
      BY <3>1, TasksNumbered
    <3> QED  BY <2>2, <3>1, <3>2
  <2>4. t \in rn.buildable
    BY <1>4, <1>6, <2>3
  <2>5. t \in rn.running
    BY <1>3, <1>6, <2>4 DEF EndInv, StuckInv
  <2> QED  BY <2>5 DEF Idle, Executing
<1>8. rn.complete \subseteq rn.running /\ rn.running \subseteq rn.buildable /\ rn.complete \subseteq Tasks
  BY DEF RestoreInv, PendingInv, EndInv, SchedInv, Typed, RnType
<1> QED  BY <1>5, <1>7, <1>8 DEF Unfinished

-----------------------------------------------------------------------------
(* LineInv                                                                 *)

\* From q to r the tasks F are decided.
Lines(q, r, F) ==
    /\ r.running = q.running \cup F
    /\ q.buildable \cup F \subseteq r.buildable
    /\ Decided(r) = Decided(q) \cup F
    /\ \A s \in Setscene : SqRevdeps(s) \cap F # {} /\ SqRevdeps(s) \subseteq Decided(r) => s \in r.buildable
    /\ q.done \cup F \subseteq r.done
    /\ \A t \in Tasks \ Setscene : Revdeps(t) \subseteq r.done /\ ~(Revdeps(t) \subseteq q.done) => t \in r.done

LEMMA CountedLines ==
    ASSUME build \in BuildType, NEW q \in SqType, NEW r \in SqType, NEW F \in SUBSET Tasks,
           r.running = q.running \cup F, r.buildable = q.buildable \cup F, r.done = q.done,
           Decided(r) = Decided(q) \cup F
    PROVE  Lines(q, Counted(r, F), F)
<1> DEFINE u == Counted(r, F)
<1>1. PICK D \in SUBSET Tasks :
              /\ DoneBelow(r, F) = q.done \cup D
              /\ F \subseteq D
              /\ \A t \in Tasks \ (Setscene \cup q.done) :
                    (\E d \in Revdeps(t) : d \in D) /\ Revdeps(t) \subseteq q.done \cup D => t \in D
  BY DoneBelowStep
<1>2. /\ u.running = r.running /\ u.buildable = r.buildable \cup Freed(r, F)
      /\ u.done = q.done \cup D /\ u.covered = r.covered /\ u.notcovered = r.notcovered
  BY <1>1 DEF Counted, SqType
<1> HIDE DEF u
<1>3. Decided(u) = Decided(r)
  BY <1>2 DEF Decided
<1>4. \A t \in Tasks \ Setscene : Revdeps(t) \subseteq u.done /\ ~(Revdeps(t) \subseteq q.done) => t \in u.done
  BY <1>1, <1>2
<1>5. \A s \in Setscene : SqRevdeps(s) \cap F # {} /\ SqRevdeps(s) \subseteq Decided(u) => s \in u.buildable
  BY <1>2, <1>3 DEF Freed
<1>6. Lines(q, u, F)
  BY <1>1, <1>2, <1>3, <1>4, <1>5 DEF Lines
<1> QED  BY <1>6 DEF u

LEMMA CoveredLines ==
    ASSUME build \in BuildType, NEW q \in SqType, NEW F \in SUBSET Tasks
    PROVE  Lines(q, Covered(q, F), F)
<1> DEFINE r == [q EXCEPT !.running = @ \cup F, !.buildable = @ \cup F, !.covered = @ \cup F]
<1>1. /\ r \in SqType /\ r.running = q.running \cup F /\ r.buildable = q.buildable \cup F /\ r.done = q.done
      /\ r.covered = q.covered \cup F /\ r.notcovered = q.notcovered
  BY DEF SqType
<1>2. Covered(q, F) = Counted(r, F)
  BY DEF Covered
<1> HIDE DEF r
<1>3. Decided(r) = Decided(q) \cup F
  BY <1>1 DEF Decided
<1> QED  BY <1>1, <1>2, <1>3, CountedLines

LEMMA NotCoveredLines ==
    ASSUME build \in BuildType, NEW q \in SqType, NEW t \in Tasks
    PROVE  Lines(q, NotCovered(q, t), HardFails(q, t))
<1> DEFINE F == HardFails(q, t)
           r == [q EXCEPT !.running = @ \cup F, !.buildable = @ \cup F, !.notcovered = @ \cup F]
<1>0. F \in SUBSET Tasks
  BY GraphType DEF HardFails
<1>1. /\ r \in SqType /\ r.running = q.running \cup F /\ r.buildable = q.buildable \cup F /\ r.done = q.done
      /\ r.notcovered = q.notcovered \cup F /\ r.covered = q.covered
  BY <1>0 DEF SqType
<1>2. NotCovered(q, t) = Counted(r, F)
  BY DEF NotCovered
<1> HIDE DEF r, F
<1>3. Decided(r) = Decided(q) \cup F
  BY <1>1 DEF Decided
<1>4. Lines(q, Counted(r, F), F)
  BY <1>0, <1>1, <1>3, CountedLines
<1> QED  BY <1>2, <1>4 DEF F

LEMMA UpdatedLines ==
    ASSUME build \in BuildType, NEW q \in SqType, NEW T \in SUBSET Tasks, NEW V \in SUBSET Tasks
    PROVE  Lines(q, Updated(q, T, V), T \cap Stamped)
<1> DEFINE F == T \cap Stamped
           r == IF F = {} THEN q ELSE Covered(q, F)
           valid == (q.valid \ T) \cup V
           invalid == Setscene \ (valid \cup Decided(r))
           deferred == {d \in invalid \X invalid :
                                    /\ d[2] < d[1] /\ build.index[d[2]] = build.index[d[1]]
                                    /\ \A k \in invalid : build.index[k] = build.index[d[1]] => d[2] <= k}
           u == [r EXCEPT !.valid = valid, !.outrightfail = @ \cup invalid, !.deferred = deferred]
<1>1. r \in SqType /\ Lines(q, r, F)
  <2>1. CASE F = {}
    BY <2>1 DEF Lines, Decided
  <2>2. CASE F # {}
    <3>1. Touches(q, Covered(q, F), F, {}, F)
      BY CoveredType
    <3> QED  BY <2>2, <3>1, CoveredLines DEF Touches
  <2> QED  BY <2>1, <2>2
<1>2. Updated(q, T, V) = u
  BY DEF Updated
<1> HIDE DEF r, valid, invalid, deferred
<1>3. /\ u.buildable = r.buildable /\ u.running = r.running /\ u.done = r.done
      /\ u.covered = r.covered /\ u.notcovered = r.notcovered
  BY <1>1 DEF SqType
<1> HIDE DEF u, F
<1>4. Decided(u) = Decided(r)
  BY <1>3 DEF Decided
<1>5. Lines(q, u, F)
  BY <1>1, <1>3, <1>4 DEF Lines
<1> QED  BY <1>2, <1>5 DEF F

\* Only these parts of the setscene side matter.
LEMMA LinesSame ==
    ASSUME NEW q, NEW r, NEW q2, NEW r2, NEW F, Lines(q, r, F),
           q2.running = q.running, q2.buildable = q.buildable, q2.done = q.done,
           q2.covered = q.covered, q2.notcovered = q.notcovered,
           r2.running = r.running, r2.buildable = r.buildable, r2.done = r.done,
           r2.covered = r.covered, r2.notcovered = r.notcovered
    PROVE  Lines(q2, r2, F)
<1>1. Decided(q2) = Decided(q) /\ Decided(r2) = Decided(r)
  BY DEF Decided
<1> QED  BY <1>1 DEF Lines

LEMMA LinesKept ==
    ASSUME LineInv, build' = build, NEW F, Lines(sq, sq', F), sq.live \ F \subseteq sq'.live,
           hardfailed \subseteq hardfailed' \cup Decided(sq')
    PROVE  LineInv' /\ Decided(sq) \subseteq Decided(sq')
<1>1. /\ Setscene' = Setscene /\ (\A s : SqRevdeps(s)' = SqRevdeps(s)) /\ (\A t : Revdeps(t)' = Revdeps(t))
      /\ Decided(sq)' = Decided(sq')
  BY SameGraph DEF Revdeps, Decided
<1>2. sq'.running \subseteq Decided(sq') \cup sq'.live /\ Decided(sq') \subseteq sq'.buildable /\ Decided(sq') \subseteq sq'.done
  BY DEF LineInv, Lines
<1>3. ASSUME NEW s \in Setscene, SqRevdeps(s) \subseteq Decided(sq') PROVE s \in sq'.buildable \cup hardfailed'
  <2>1. CASE SqRevdeps(s) \cap F # {}
    BY <1>3, <2>1 DEF Lines
  <2>2. CASE SqRevdeps(s) \cap F = {}
    <3>1. s \in sq.buildable \cup hardfailed
      BY <1>3, <2>2 DEF LineInv, Lines
    <3> QED  BY <1>2, <3>1 DEF Lines
  <2> QED  BY <2>1, <2>2
<1>4. ASSUME NEW t \in Tasks \ Setscene, Revdeps(t) \subseteq sq'.done PROVE t \in sq'.done
  BY <1>4 DEF LineInv, Lines
<1> QED  BY <1>1, <1>2, <1>3, <1>4 DEF LineInv, Lines

LEMMA DecideLines ==
    ASSUME Typed, Rest, RestoreInv, LineInv, NEW s \in Setscene,
           SceneSkip(s) \/ SceneFailOutright(s) \/ SetsceneComplete(s) \/ SetsceneFail(s)
    PROVE  LineInv' /\ Decided(sq) \subseteq Decided(sq')
<1>1. build' = build /\ hardfailed' = hardfailed /\ s \in Tasks /\ build \in BuildType
  BY GraphType DEF SceneSkip, SceneFailOutright, SetsceneComplete, SetsceneFail, hashVars, Typed
<1>2. CASE SceneSkip(s)
  <2> DEFINE r == Covered(sq, {s})
  <2>1. Touches(sq, r, {s}, {}, {s}) /\ Lines(sq, r, {s})
    BY <1>1, CoveredType, CoveredLines DEF Typed
  <2>2. sq' = Undefer(r, s)
    BY <1>2 DEF SceneSkip
  <2> HIDE DEF r
  <2>3. /\ sq'.live = sq.live /\ sq'.buildable = r.buildable /\ sq'.running = r.running
        /\ sq'.done = r.done /\ sq'.covered = r.covered /\ sq'.notcovered = r.notcovered
    BY <2>1, <2>2 DEF Touches, Undefer, SqType
  <2>4. Lines(sq, sq', {s})
    BY <2>1, <2>3, LinesSame
  <2> QED  BY <1>1, <2>3, <2>4, LinesKept
<1>3. CASE SceneFailOutright(s)
  <2> DEFINE q == Undefer(sq, s)
             F == HardFails(q, s)
  <2>1. Touches(sq, q, {}, {}, {}) /\ q \in SqType /\ q.buildable = sq.buildable /\ q.done = sq.done
    BY UndeferType DEF Typed, Touches, Undefer, SqType
  <2>2. sq' = NotCovered(q, s)
    BY <1>3 DEF SceneFailOutright
  <2> HIDE DEF q
  <2>3. Touches(q, sq', {}, F, F) /\ Lines(q, sq', F)
    BY <1>1, <2>1, <2>2, NotCoveredType, NotCoveredLines
  <2> HIDE DEF F
  <2>4. Lines(sq, sq', F)
    BY <2>1, <2>3, LinesSame DEF Touches
  <2>5. sq'.live = sq.live
    BY <2>1, <2>3 DEF Touches
  <2> QED  BY <1>1, <2>4, <2>5, LinesKept
<1>4. CASE SetsceneComplete(s)
  <2> DEFINE r == Covered(sq, {s})
  <2>1. Touches(sq, r, {s}, {}, {s}) /\ Lines(sq, r, {s})
    BY <1>1, CoveredType, CoveredLines DEF Typed
  <2>2. sq' = [r EXCEPT !.live = @ \ {s}]
    BY <1>4 DEF SetsceneComplete
  <2> HIDE DEF r
  <2>3. /\ sq'.live = sq.live \ {s} /\ sq'.buildable = r.buildable /\ sq'.running = r.running
        /\ sq'.done = r.done /\ sq'.covered = r.covered /\ sq'.notcovered = r.notcovered
    BY <2>1, <2>2 DEF Touches, SqType
  <2>4. Lines(sq, sq', {s})
    BY <2>1, <2>3, LinesSame
  <2> QED  BY <1>1, <2>3, <2>4, LinesKept
<1>5. CASE SetsceneFail(s)
  <2> DEFINE r == NotCovered(sq, s)
             F == HardFails(sq, s)
  <2>1. Touches(sq, r, {}, F, F) /\ Lines(sq, r, F) /\ s \in F
    BY <1>1, NotCoveredType, NotCoveredLines DEF Typed, HardFails
  <2>2. sq' = [r EXCEPT !.live = @ \ {s}]
    BY <1>5 DEF SetsceneFail
  <2> HIDE DEF r, F
  <2>3. /\ sq'.live = sq.live \ {s} /\ sq'.buildable = r.buildable /\ sq'.running = r.running
        /\ sq'.done = r.done /\ sq'.covered = r.covered /\ sq'.notcovered = r.notcovered
    BY <2>1, <2>2 DEF Touches, SqType
  <2>4. Lines(sq, sq', F)
    BY <2>1, <2>3, LinesSame
  <2> QED  BY <1>1, <2>1, <2>3, <2>4, LinesKept
<1> QED  BY <1>2, <1>3, <1>4, <1>5

LEMMA ValidateLines ==
    ASSUME Typed, Rest, RestoreInv, LineInv, ValidateAll \/ (EndMigrations /\ moved # {})
    PROVE  LineInv' /\ Decided(sq) \subseteq Decided(sq')
<1>1. build' = build /\ hardfailed' = hardfailed /\ build \in BuildType /\ sq \in SqType /\ Setscene \subseteq Tasks
  BY GraphType DEF ValidateAll, EndMigrations, hashVars, Typed
<1>2. PICK T \in SUBSET Setscene, V \in SUBSET Tasks : sq' = Updated(sq, T, V)
  <2>1. CASE ValidateAll
    <3>1. PICK V \in SUBSET (Setscene \ Stamped) : sq' = Updated(sq, Setscene, V)
      BY <2>1 DEF ValidateAll
    <3> QED  BY <1>1, <3>1
  <2>2. CASE EndMigrations /\ moved # {}
    <3>1. PICK V \in SUBSET (moved \ Stamped) : sq' = Updated(sq, moved, V)
      BY <2>2 DEF EndMigrations
    <3>2. moved \subseteq Setscene
      BY DEF RestoreInv, SceneInv
    <3> QED  BY <1>1, <3>1, <3>2
  <2> QED  BY <2>1, <2>2
<1>3. Touches(sq, sq', T \cap Stamped, {}, T \cap Stamped) /\ Lines(sq, sq', T \cap Stamped)
  BY <1>1, <1>2, UpdatedType, UpdatedLines
<1> QED  BY <1>1, <1>3, LinesKept DEF Touches

LEMMA FailLines ==
    ASSUME Typed, Rest, RestoreInv, LineInv, (HardFail /\ hardfailed # {}) \/ ForceDeferred
    PROVE  LineInv' /\ Decided(sq) \subseteq Decided(sq')
<1>1. build' = build /\ build \in BuildType /\ sq \in SqType /\ Setscene \subseteq Tasks
  BY GraphType DEF HardFail, ForceDeferred, Typed
<1>2. CASE HardFail /\ hardfailed # {}
  <2>1. PICK s \in hardfailed : sq' = NotCovered(sq, s) /\ hardfailed' = hardfailed \ {s}
    BY <1>2 DEF HardFail
  <2>2. s \in Tasks /\ s \in HardFails(sq, s)
    BY DEF Typed, HardFails
  <2>3. Touches(sq, sq', {}, HardFails(sq, s), HardFails(sq, s)) /\ Lines(sq, sq', HardFails(sq, s))
    BY <1>1, <2>1, <2>2, NotCoveredType, NotCoveredLines
  <2>4. s \in Decided(sq') /\ sq'.live = sq.live
    BY <2>2, <2>3 DEF Touches, Decided
  <2> QED  BY <1>1, <2>1, <2>3, <2>4, LinesKept
<1>3. CASE ForceDeferred
  <2>1. PICK d \in sq.deferred : sq' = NotCovered([sq EXCEPT !.deferred = @ \ {d}], d[2])
    BY <1>3 DEF ForceDeferred
  <2> DEFINE q == [sq EXCEPT !.deferred = @ \ {d}]
             F == HardFails(q, d[2])
  <2>2. /\ q \in SqType /\ d[2] \in Tasks /\ q.live = sq.live /\ q.running = sq.running
        /\ q.buildable = sq.buildable /\ q.done = sq.done /\ q.covered = sq.covered /\ q.notcovered = sq.notcovered
    BY <1>1 DEF SqType
  <2>3. hardfailed' = hardfailed
    BY <1>3 DEF ForceDeferred, hashVars
  <2> HIDE DEF q
  <2>4. Touches(q, sq', {}, F, F) /\ Lines(q, sq', F)
    BY <1>1, <2>1, <2>2, NotCoveredType, NotCoveredLines DEF q
  <2> HIDE DEF F
  <2>5. Lines(sq, sq', F) /\ sq'.live = sq.live
    BY <2>2, <2>4, LinesSame DEF Touches
  <2> QED  BY <1>1, <2>3, <2>5, LinesKept
<1> QED  BY <1>2, <1>3

\* What the setscene of a moved task replaces, and has not run, waits again together with what only
\* it needs.
LEMMA MigrateLines ==
    ASSUME Typed, Rest, ReadyInv, RestoreInv, LineInv, NEW s \in Tasks, Migrate(s)
    PROVE  LineInv'
<1> DEFINE M == CoveredTasks(s) \ (rn.complete \cup Unskippable)
<1>1. /\ build' = build /\ pc = "migrate" /\ Movable(s)
      /\ sq'.live = sq.live /\ sq'.running = sq.running \ {s} /\ sq'.done = sq.done \ ({s} \cup M)
      /\ sq'.covered = sq.covered \ {s} /\ sq'.notcovered = sq.notcovered \ {s}
      /\ sq'.buildable = IF (~HardDepFail(s) /\ SqRevdeps(s) \subseteq Decided(sq)) \/ SqRevdeps(s) = {}
                         THEN sq.buildable \cup {s} ELSE sq.buildable \ {s}
      /\ hardfailed' = IF HardDepFail(s) THEN hardfailed \cup {s} ELSE hardfailed
  BY DEF Migrate, Typed, SqType
<1>2. s \in Setscene /\ build \in Builds /\ build \in BuildType
  BY <1>1, MovableFacts DEF Rest, Typed
<1>3. /\ Setscene' = Setscene /\ (\A u : SqRevdeps(u)' = SqRevdeps(u)) /\ (\A t : Revdeps(t)' = Revdeps(t))
      /\ Decided(sq)' = Decided(sq') /\ Decided(sq') = Decided(sq) \ {s}
  BY <1>1, SameGraph DEF Revdeps, Decided
<1>4. Decided(sq) \cap M = {}
  BY <1>2, GraphFacts DEF RestoreInv, SceneInv
<1>5. ASSUME NEW u \in Setscene, SqRevdeps(u) \subseteq Decided(sq') PROVE u \in sq'.buildable \cup hardfailed'
  <2>1. SqRevdeps(u) \subseteq Decided(sq)
    BY <1>3, <1>5
  <2>2. u \in sq.buildable \cup hardfailed
    BY <2>1 DEF LineInv
  <2> QED  BY <1>1, <2>1, <2>2
<1>6. ASSUME NEW t \in Tasks \ Setscene, Revdeps(t) \subseteq sq'.done PROVE t \in sq'.done
  <2>1. t \in sq.done
    BY <1>1, <1>6 DEF LineInv
  <2>2. SUFFICES ASSUME t \in M PROVE FALSE
    BY <1>1, <1>2, <2>1
  <2>3. PICK r \in Revdeps(t) : r = s \/ r \in CoveredTasks(s)
    BY <1>2, <2>2, CoveredTasksStep
  <2>4. r \in CoveredTasks(s) /\ r \in rn.complete \cup Unskippable
    BY <1>1, <1>6, <2>3
  <2>5. r \in Tasks /\ t \in Depends(r) /\ r \notin Setscene
    BY <1>2, <2>3, <2>4, GraphFacts DEF Revdeps, RevdepsIn, Depends
  <2>6. CASE r \in Unskippable
    BY <1>2, <2>2, <2>5, <2>6, BelowFacts
  <2>7. CASE r \in rn.complete
    <3>1. r \in rn.running
      BY <2>7 DEF RestoreInv, PendingInv
    <3>2. t \in rn.complete
      BY <2>5, <3>1 DEF ReadyInv, Ready
    <3> QED  BY <2>2, <3>2
  <2> QED  BY <2>4, <2>6, <2>7
<1> HIDE DEF M
<1>7. Decided(sq') \subseteq sq'.buildable /\ Decided(sq') \subseteq sq'.done /\ sq'.running \subseteq Decided(sq') \cup sq'.live
  BY <1>1, <1>3, <1>4 DEF LineInv
<1> QED  BY <1>3, <1>5, <1>6, <1>7 DEF LineInv

\* The steps that decide nothing.
LEMMA SameLines ==
    ASSUME LineInv, build' = build, sq'.running \subseteq sq.running \cup sq'.live, sq.live \subseteq sq'.live,
           sq'.buildable = sq.buildable, sq'.done = sq.done, sq'.covered = sq.covered,
           sq'.notcovered = sq.notcovered, hardfailed \subseteq hardfailed'
    PROVE  LineInv'
<1>1. /\ Setscene' = Setscene /\ (\A s : SqRevdeps(s)' = SqRevdeps(s)) /\ (\A t : Revdeps(t)' = Revdeps(t))
      /\ Decided(sq)' = Decided(sq)
  BY SameGraph DEF Revdeps, Decided
<1>2. ASSUME NEW s \in Setscene, SqRevdeps(s) \subseteq Decided(sq) PROVE s \in sq.buildable \cup hardfailed'
  BY <1>2 DEF LineInv
<1> QED  BY <1>1, <1>2 DEF LineInv

LEMMA NextLines == Typed /\ Rest /\ ReadyInv /\ RestoreInv /\ LineInv /\ [Next]_vars => LineInv'
<1> SUFFICES ASSUME Typed, Rest, ReadyInv, RestoreInv, LineInv, [Next]_vars
             PROVE  LineInv'
  OBVIOUS
<1>1. CASE ValidateAll \/ (EndMigrations /\ moved # {})
  BY <1>1, ValidateLines
<1>2. CASE (HardFail /\ hardfailed # {}) \/ ForceDeferred
  BY <1>2, FailLines
<1>3. CASE \E s \in Tasks : Migrate(s)
  BY <1>3, MigrateLines
<1>4. CASE \E s \in Setscene : SceneSkip(s) \/ SceneFailOutright(s) \/ SetsceneComplete(s) \/ SetsceneFail(s)
  BY <1>4, DecideLines
<1>5. ASSUME NEW s \in Setscene, SceneStart(s) PROVE LineInv'
  <2>1. build' = build /\ hardfailed' = hardfailed /\ sq' = Live(sq, s)
    BY <1>5 DEF SceneStart, hashVars
  <2>2. /\ sq'.live = sq.live \cup {s} /\ sq'.running = sq.running \cup {s} /\ sq'.covered = sq.covered
        /\ sq'.notcovered = sq.notcovered /\ sq'.buildable = sq.buildable /\ sq'.done = sq.done
    BY <2>1 DEF Typed, SqType, Live, Undefer
  <2> QED  BY <2>1, <2>2, SameLines
<1>6. CASE \/ BeginExecute \/ EndRead \/ BeginPass \/ SceneNone \/ TaskNone \/ Wait \/ End
           \/ SceneSpawnFails \/ TaskSpawnFails \/ CleanUp
           \/ UserFinish \/ FinishNow \/ Rehash \/ Holdoff \/ (EndMigrations /\ moved = {})
           \/ (HardFail /\ hardfailed = {}) \/ (\E s \in Tasks : MigrateNot(s)) \/ UNCHANGED vars
  <2>1. sq' = sq /\ build' = build /\ hardfailed' = hardfailed
    BY <1>6 DEF BeginExecute, EndRead, BeginPass, SceneNone, TaskNone, Wait, End,
                SceneSpawnFails, TaskSpawnFails, CleanUp, UserFinish, FinishNow,
                Rehash, Holdoff, EndMigrations, HardFail, MigrateNot, vars, hashVars
  <2> QED  BY <2>1, SameLines
<1>7. CASE \E t \in Tasks : \/ TaskSkipCovered(t) \/ TaskSkipExisting(t) \/ TaskStart(t)
                            \/ TaskComplete(t) \/ TaskFail(t) \/ TaskUniHashUpdate(t)
  <2>1. sq' = sq /\ build' = build /\ hardfailed' = hardfailed
    BY <1>7 DEF TaskSkipCovered, TaskSkipExisting, TaskStart, TaskComplete, TaskFail, TaskUniHashUpdate, hashVars
  <2> QED  BY <2>1, SameLines
<1>8. \/ ValidateAll \/ EndMigrations \/ HardFail \/ ForceDeferred \/ (\E s \in Tasks : Migrate(s))
      \/ (\E s \in Setscene : SceneSkip(s) \/ SceneFailOutright(s) \/ SetsceneComplete(s) \/ SetsceneFail(s))
      \/ (\E s \in Setscene : SceneStart(s))
      \/ BeginExecute \/ EndRead \/ BeginPass \/ SceneNone \/ TaskNone \/ Wait \/ End
      \/ SceneSpawnFails \/ TaskSpawnFails \/ CleanUp
      \/ UserFinish \/ FinishNow \/ Rehash \/ Holdoff \/ (\E s \in Tasks : MigrateNot(s)) \/ UNCHANGED vars
      \/ (\E t \in Tasks : \/ TaskSkipCovered(t) \/ TaskSkipExisting(t) \/ TaskStart(t)
                            \/ TaskComplete(t) \/ TaskFail(t) \/ TaskUniHashUpdate(t))
  BY DEF Next, Pass, Migrations, WorkerEnds, Ended
<1> QED  BY <1>1, <1>2, <1>3, <1>4, <1>5, <1>6, <1>7, <1>8

-----------------------------------------------------------------------------
(* SchedInv                                                                *)

LEMMA SchedKept ==
    ASSUME SchedInv, build' = build,
           pc' \in {"task", "wait"} => ~sched'.update /\ moved' = {},
           rn'.running \subseteq rn'.buildable,
           sqdone' /\ moved' = {} => sqdone /\ moved = {} /\ Decided(sq) \subseteq Decided(sq'),
           (~sched'.update /\ moved' = {}) =>
               /\ ~sched.update /\ moved = {}
               /\ sq'.covered = sq.covered /\ sq'.notcovered = sq.notcovered /\ sq'.done = sq.done
               /\ sched'.covered = sched.covered /\ sched'.notcovered = sched.notcovered
               /\ sched'.holdoff = sched.holdoff
               /\ \A t \in sched.covered \cup sched.notcovered :
                     Depends(t) \subseteq rn'.complete => t \in rn'.buildable
    PROVE  SchedInv'
<1>1. /\ Setscene' = Setscene /\ Unskippable' = Unskippable /\ CantskipIn(build)' = CantskipIn(build)
      /\ (\A s : CoveredTasks(s)' = CoveredTasks(s) /\ Replaced(s)' = Replaced(s) /\ Depends(s)' = Depends(s))
      /\ Decided(sq)' = Decided(sq')
  BY SameGraph DEF Decided
<1>2. sqdone' /\ moved' = {} => Open' = {}
  BY <1>1 DEF SchedInv, Open
<1>3. ASSUME ~sched'.update, moved' = {}
      PROVE  /\ Open' \subseteq sched'.holdoff
             /\ \A t \in sched'.holdoff : \E s \in Open' : t \in Replaced(s)'
             /\ ((Wanted \cup Spared) \cap sq.done)' \subseteq sched'.covered \cup sched'.notcovered
             /\ \A t \in sched'.covered \cup sched'.notcovered :
                   Depends(t)' \subseteq rn'.complete => t \in rn'.buildable
  <2>1. Wanted' = Wanted /\ Spared' = Spared /\ Decided(sq') = Decided(sq)
    BY <1>1, <1>3 DEF Wanted, Spared, Decided
  <2>2. Open' = Open
    BY <1>1, <2>1 DEF Open
  <2> QED  BY <1>1, <1>3, <2>1, <2>2 DEF SchedInv
<1> QED  BY <1>2, <1>3 DEF SchedInv

\* The holdoff part of a pass brings everything up to date.
LEMMA HoldoffFacts ==
    ASSUME Typed, Rest, SchedInv, moved = {}, NEW v, v = UpdateHoldoff(sched), NEW r, r = NowBuildable(v)
    PROVE  /\ ~v.update
           /\ Open \subseteq v.holdoff
           /\ \A t \in v.holdoff : \E s \in Open : t \in Replaced(s)
           /\ (Wanted \cup Spared) \cap sq.done \subseteq v.covered \cup v.notcovered
           /\ \A t \in v.covered \cup v.notcovered : Depends(t) \subseteq rn.complete => t \in r.buildable
           /\ rn.buildable \subseteq r.buildable
<1>1. CASE sched.update
  <2>1. /\ v.update = FALSE
        /\ v.holdoff = Open \cup ((UNION {CoveredTasks(s) : s \in Open}) \ rn.complete)
        /\ v.notcovered = Wanted \cap sq.done /\ v.covered = (Spared \ v.notcovered) \cap sq.done
    BY <1>1 DEF UpdateHoldoff, Open, Wanted, Spared
  <2>2. r = [rn EXCEPT !.buildable = @ \cup {t \in v.covered \cup v.notcovered : Depends(t) \subseteq rn.complete}]
    BY <1>1 DEF NowBuildable
  <2>3. r.buildable = rn.buildable \cup {t \in v.covered \cup v.notcovered : Depends(t) \subseteq rn.complete}
    BY <2>2 DEF Typed, RnType
  <2>4. \A t \in v.holdoff : \E s \in Open : t \in Replaced(s)
    BY <2>1 DEF Replaced
  <2> QED  BY <2>1, <2>3, <2>4
<1>2. CASE ~sched.update
  <2>1. v = sched /\ r = rn
    BY <1>2 DEF UpdateHoldoff, NowBuildable
  <2> QED  BY <1>2, <2>1 DEF SchedInv
<1> QED  BY <1>1, <1>2

LEMMA HoldoffSched ==
    ASSUME Typed, Rest, RestoreInv, SchedInv, Holdoff
    PROVE  SchedInv'
<1> DEFINE v == UpdateHoldoff(sched)
           r == NowBuildable(v)
<1>1. /\ sq' = sq /\ build' = build /\ moved' = moved /\ sched' = v /\ rn' = r /\ moved = {}
      /\ pc' \in {"top", "task"}
  BY DEF Holdoff, Goto, hashVars, RestoreInv, SceneInv
<1>2. sqdone' => sqdone \/ v.holdoff = {}
  BY DEF Holdoff
<1>3. r.running = rn.running /\ r.complete = rn.complete
  BY TypedHelpers
<1>4. /\ ~v.update
      /\ Open \subseteq v.holdoff
      /\ \A t \in v.holdoff : \E s \in Open : t \in Replaced(s)
      /\ (Wanted \cup Spared) \cap sq.done \subseteq v.covered \cup v.notcovered
      /\ \A t \in v.covered \cup v.notcovered : Depends(t) \subseteq rn.complete => t \in r.buildable
      /\ rn.buildable \subseteq r.buildable
  BY <1>1, HoldoffFacts
<1> HIDE DEF v, r
<1>5. sqdone' => Open = {}
  BY <1>1, <1>2, <1>4 DEF SchedInv
<1>6. /\ Open' = Open /\ Wanted' = Wanted /\ Spared' = Spared
      /\ \A s : Replaced(s)' = Replaced(s) /\ Depends(s)' = Depends(s)
  BY <1>1, SameGraph DEF Open, Wanted, Spared, Decided
<1> QED  BY <1>1, <1>3, <1>4, <1>5, <1>6 DEF SchedInv

\* A task that is complete makes those buildable that wait for it alone.
LEMMA CompleteSched ==
    ASSUME Typed, Rest, SchedInv, NEW t \in Tasks,
           TaskSkipCovered(t) \/ TaskSkipExisting(t) \/ TaskComplete(t)
    PROVE  SchedInv'
<1>1. /\ sq' = sq /\ build' = build /\ moved' = moved /\ sched' = sched /\ sqdone' = sqdone
      /\ pc' \notin {"task", "wait"}
  BY DEF TaskSkipCovered, TaskSkipExisting, TaskComplete, Reading, Goto, hashVars
<1>2. /\ rn'.complete = rn.complete \cup {t} /\ rn.buildable \subseteq rn'.buildable
      /\ rn'.running \subseteq rn.running \cup {t}
      /\ rn'.running \subseteq rn'.buildable
      /\ \A u \in Revdeps(t) : Depends(u) \subseteq rn.complete \cup {t} => u \in rn'.buildable
  <2>1. CASE TaskComplete(t)
    <3>1. /\ Completed(rn, t) \in RnType
          /\ Completed(rn, t).running = rn.running
          /\ Completed(rn, t).complete = rn.complete \cup {t}
          /\ Completed(rn, t).buildable = rn.buildable \cup
                 {v \in Revdeps(t) \ rn.running : Depends(v) \subseteq rn.complete \cup {t}}
      BY CompletedType DEF Typed
    <3>2. /\ rn'.running = rn.running /\ rn'.complete = rn.complete \cup {t}
          /\ rn'.buildable = Completed(rn, t).buildable
      BY <2>1, <3>1 DEF TaskComplete, RnType
    <3> QED  BY <3>1, <3>2 DEF SchedInv
  <2>2. CASE TaskSkipCovered(t) \/ TaskSkipExisting(t)
    <3>1. /\ Skipped(rn, t) \in RnType
          /\ Skipped(rn, t).running = rn.running \cup {t}
          /\ Skipped(rn, t).complete = rn.complete \cup {t}
          /\ rn.buildable \cup {t} \subseteq Skipped(rn, t).buildable
          /\ \A v \in Revdeps(t) \ (rn.running \cup {t}) :
                Depends(v) \subseteq rn.complete \cup {t} => v \in Skipped(rn, t).buildable
      BY SkippedType
    <3>2. /\ rn'.running = Skipped(rn, t).running /\ rn'.complete = Skipped(rn, t).complete
          /\ rn'.buildable = Skipped(rn, t).buildable
      BY <2>2, <3>1 DEF TaskSkipCovered, TaskSkipExisting, RnType
    <3> QED  BY <3>1, <3>2 DEF SchedInv
  <2> QED  BY <2>1, <2>2
<1>3. ASSUME ~sched.update, moved = {}, NEW u \in sched.covered \cup sched.notcovered,
             Depends(u) \subseteq rn'.complete
      PROVE  u \in rn'.buildable
  <2>1. CASE Depends(u) \subseteq rn.complete
    BY <1>2, <1>3, <2>1 DEF SchedInv
  <2>2. CASE ~(Depends(u) \subseteq rn.complete)
    <3>1. u \in Tasks /\ t \in Depends(u)
      BY <1>2, <1>3, <2>2 DEF Typed, SchedType
    <3>2. u \in Revdeps(t)
      BY <3>1 DEF Revdeps, RevdepsIn, Depends
    <3> QED  BY <1>2, <1>3, <3>2
  <2> QED  BY <2>1, <2>2
<1> QED  BY <1>1, <1>2, <1>3, SchedKept

LEMMA NextSched ==
    ASSUME Typed, Rest, ReadyInv, RestoreInv, OutputInv, LineInv, SchedInv, [Next]_vars
    PROVE  SchedInv'
<1>2. CASE ValidateAll
  <2>1. /\ build' = build /\ rn' = rn /\ sched'.update /\ sqdone' = sqdone /\ moved' = moved /\ pc' = "top"
    BY <1>2 DEF ValidateAll, Goto, hashVars, OutputInv, FreshInv
  <2>2. Decided(sq) \subseteq Decided(sq')
    BY <1>2, ValidateLines
  <2> QED  BY <2>1, <2>2, SchedKept DEF SchedInv
<1>3. CASE EndMigrations
  <2>1. build' = build /\ rn' = rn /\ moved' = {} /\ pc' = "hardfail"
    BY <1>3 DEF EndMigrations, Goto
  <2>2. CASE moved # {}
    <3>1. sched'.update /\ sqdone' = FALSE
      BY <1>3, <2>2 DEF EndMigrations, Typed, SchedType
    <3> QED  BY <2>1, <3>1, SchedKept DEF SchedInv
  <2>3. CASE moved = {}
    <3>1. sq' = sq /\ sqdone' = sqdone /\ sched' = [sched EXCEPT !.update = @ \/ changed]
      BY <1>3, <2>3 DEF EndMigrations
    <3>2. /\ sched'.covered = sched.covered /\ sched'.notcovered = sched.notcovered
          /\ sched'.holdoff = sched.holdoff
      BY <3>1 DEF Typed, SchedType
    <3>3. sched'.update = (sched.update \/ changed)
      BY <3>1 DEF Typed, SchedType
    <3>4. ~sched'.update => ~sched.update
      BY <3>3
    <3> HIDE DEF Open, Wanted
    <3> QED  BY <2>1, <2>3, <3>1, <3>2, <3>4, SchedKept DEF SchedInv
  <2> QED  BY <2>2, <2>3
<1>4. CASE HardFail /\ hardfailed # {}
  <2>1. /\ build' = build /\ rn' = rn /\ sched' = sched /\ sqdone' = sqdone /\ moved' = moved /\ moved = {}
        /\ pc' = "hardfail" /\ sched.update
    BY <1>4 DEF HardFail, RestoreInv, HardInv, SceneInv
  <2>2. Decided(sq) \subseteq Decided(sq')
    BY <1>4, FailLines
  <2> QED  BY <2>1, <2>2, SchedKept DEF SchedInv
<1>5. CASE ForceDeferred
  <2>1. /\ build' = build /\ rn' = rn /\ sched'.update /\ sqdone' = sqdone /\ moved' = moved /\ pc' = "top"
    BY <1>5 DEF ForceDeferred, Goto, hashVars, Typed, SchedType
  <2>2. Decided(sq) \subseteq Decided(sq')
    BY <1>5, FailLines
  <2> QED  BY <2>1, <2>2, SchedKept DEF SchedInv
<1>6. ASSUME NEW s \in Tasks, Migrate(s) PROVE SchedInv'
  <2>1. build' = build /\ rn' = rn /\ moved' # {} /\ pc' = "migrate"
    BY <1>6 DEF Migrate
  <2> QED  BY <2>1, SchedKept DEF SchedInv
<1>7. ASSUME NEW s \in Setscene, SceneSkip(s) \/ SceneFailOutright(s) \/ SetsceneComplete(s) \/ SetsceneFail(s)
      PROVE  SchedInv'
  <2>1. /\ build' = build /\ rn' = rn /\ sched'.update /\ sqdone' = sqdone /\ moved' = moved
        /\ pc' \notin {"task", "wait"}
    BY <1>7 DEF SceneSkip, SceneFailOutright, SetsceneComplete, SetsceneFail, Reading, Goto, hashVars, Typed, SchedType
  <2>2. Decided(sq) \subseteq Decided(sq')
    BY <1>7, DecideLines
  <2> QED  BY <2>1, <2>2, SchedKept DEF SchedInv
<1>8. ASSUME NEW s \in Setscene, SceneStart(s) PROVE SchedInv'
  <2>1. /\ build' = build /\ rn' = rn /\ sched' = sched /\ sqdone' = sqdone /\ moved' = moved
        /\ sq' = Live(sq, s) /\ pc' \notin {"task", "wait"}
    BY <1>8 DEF SceneStart, Goto, hashVars
  <2>2. sq'.covered = sq.covered /\ sq'.notcovered = sq.notcovered /\ sq'.done = sq.done
    BY <2>1 DEF Typed, SqType, Live, Undefer
  <2>3. Decided(sq') = Decided(sq)
    BY <2>2 DEF Decided
  <2> QED  BY <2>1, <2>2, <2>3, SchedKept DEF SchedInv
<1>9. CASE Holdoff
  BY <1>9, HoldoffSched
<1>10. CASE \E t \in Tasks : TaskSkipCovered(t) \/ TaskSkipExisting(t) \/ TaskComplete(t)
  BY <1>10, CompleteSched
<1>11. ASSUME NEW t \in Tasks, TaskStart(t) PROVE SchedInv'
  <2>1. /\ sq' = sq /\ build' = build /\ sched' = sched /\ sqdone' = sqdone /\ moved' = moved
        /\ pc = "task" /\ t \in rn.buildable
    BY <1>11 DEF TaskStart, Next_buildable, hashVars
  <2>2. rn'.buildable = rn.buildable /\ rn'.complete = rn.complete /\ rn'.running = rn.running \cup {t}
    BY <1>11 DEF TaskStart, Typed, RnType
  <2> QED  BY <2>1, <2>2, SchedKept DEF SchedInv
<1>12. CASE \/ BeginExecute \/ EndRead \/ BeginPass \/ SceneNone \/ TaskNone \/ Wait \/ End
            \/ SceneSpawnFails \/ TaskSpawnFails \/ CleanUp
            \/ UserFinish \/ FinishNow \/ Rehash \/ (HardFail /\ hardfailed = {})
            \/ (\E s \in Tasks : MigrateNot(s)) \/ UNCHANGED vars
            \/ (\E t \in Tasks : TaskFail(t) \/ TaskUniHashUpdate(t))
  <2>1. /\ sq' = sq /\ build' = build /\ sched' = sched /\ sqdone' = sqdone /\ moved' = moved /\ rn' = rn
        /\ pc' \in {"task", "wait"} => pc \in {"task", "wait"}
    BY <1>12 DEF BeginExecute, EndRead, BeginPass, SceneNone, TaskNone, Wait, End,
                SceneSpawnFails, TaskSpawnFails, CleanUp, UserFinish, FinishNow,
                 Rehash, HardFail, MigrateNot, TaskFail, TaskUniHashUpdate, Reading, Goto, vars, hashVars
  <2> QED  BY <2>1, SchedKept DEF SchedInv
<1>13. \/ ValidateAll \/ EndMigrations \/ HardFail \/ ForceDeferred \/ (\E s \in Tasks : Migrate(s))
       \/ (\E s \in Setscene : SceneSkip(s) \/ SceneFailOutright(s) \/ SetsceneComplete(s) \/ SetsceneFail(s))
       \/ (\E s \in Setscene : SceneStart(s)) \/ Holdoff
       \/ (\E t \in Tasks : TaskSkipCovered(t) \/ TaskSkipExisting(t) \/ TaskComplete(t))
       \/ (\E t \in Tasks : TaskStart(t))
       \/ BeginExecute \/ EndRead \/ BeginPass \/ SceneNone \/ TaskNone \/ Wait \/ End
       \/ SceneSpawnFails \/ TaskSpawnFails \/ CleanUp
       \/ UserFinish \/ FinishNow \/ Rehash \/ (\E s \in Tasks : MigrateNot(s)) \/ UNCHANGED vars
       \/ (\E t \in Tasks : TaskFail(t) \/ TaskUniHashUpdate(t))
  BY DEF Next, Pass, Migrations, WorkerEnds, Ended
<1> QED  BY <1>2, <1>3, <1>4, <1>5, <1>6, <1>7, <1>8, <1>9, <1>10, <1>11, <1>12, <1>13

-----------------------------------------------------------------------------
(* StuckInv                                                                *)

LEMMA StuckKept ==
    ASSUME pc' \notin {"holdoff", "task", "wait"},
           pc' \in {"migrate", "hardfail", "scene"} => reported' \subseteq rn'.running \ rn'.complete
    PROVE  StuckInv'
BY DEF StuckInv

LEMMA NothingRuns ==
    ASSUME Typed
    PROVE  Active = 0 <=> Idle
<1> DEFINE m == Cardinality(sq.live)
           n == Cardinality(Executing)
<1>1. m \in Nat /\ n \in Nat /\ Active = m + n
  BY ActiveTyped DEF Active
<1>2. (m = 0 <=> sq.live = {}) /\ (n = 0 <=> Executing = {})
  BY ActiveTyped, FS_EmptySet
<1> HIDE DEF m, n
<1> QED  BY <1>1, <1>2 DEF Idle

LEMMA IdleStarts ==
    ASSUME Typed, Idle
    PROVE  CanStart
<1>1. Active = 0
  BY NothingRuns
<1> QED  BY <1>1, RunQueueAssumption DEF CanStart, RunQueueAssumption

LEMMA SceneStuck ==
    ASSUME Typed, Rest, StuckInv, SceneNone \/ (\E s \in Setscene : SceneStart(s))
    PROVE  StuckInv'
<1>1. /\ build' = build /\ rn' = rn /\ failed' = failed /\ reported' = reported /\ sqdone' = sqdone
      /\ pc = "scene" /\ pc' \in {"top", "holdoff"}
  BY DEF SceneNone, SceneStart, Goto, hashVars
<1>2. Executing' = Executing /\ Setscene' = Setscene
  BY <1>1, SameGraph DEF Executing
<1>3. CASE SceneNone
  <2>1. sq' = sq
    BY <1>3 DEF SceneNone
  <2>2. ASSUME Idle, sq.deferred = {}, ~sqdone, NEW s \in Setscene PROVE s \notin Waiting(sq)
    <3>1. Leader(s) = {}
      BY <2>2 DEF Leader
    <3>2. ~Selectable(s)
      BY <1>3, <3>1 DEF SceneNone
    <3> QED  BY <2>2, <3>2, IdleStarts DEF Selectable, Waiting
  <2>3. Idle' = Idle /\ Waiting(sq)' = Waiting(sq)
    BY <1>2, <2>1 DEF Idle, Waiting
  <2> QED  BY <1>1, <1>2, <2>1, <2>2, <2>3 DEF StuckInv
<1>4. ASSUME NEW s \in Setscene, SceneStart(s) PROVE StuckInv'
  <2>1. s \in sq'.live
    BY <1>4 DEF SceneStart, Live, Undefer, Typed, SqType
  <2> QED  BY <1>1, <1>2, <2>1 DEF StuckInv, Idle
<1> QED  BY <1>3, <1>4

LEMMA LateStuck ==
    ASSUME Typed, Rest, RestoreInv, StuckInv, Holdoff \/ TaskNone \/ (\E t \in Tasks : TaskStart(t))
    PROVE  StuckInv'
<1>1. /\ build' = build /\ sq' = sq /\ failed' = failed /\ reported' = reported
  BY DEF Holdoff, TaskNone, TaskStart, hashVars
<1>2. Setscene' = Setscene /\ Waiting(sq)' = Waiting(sq)
  BY <1>1, SameGraph DEF Waiting
<1>3. CASE Holdoff
  <2>2. pc = "holdoff" /\ pc' \in {"top", "task"} /\ (sqdone => sqdone')
    BY <1>3 DEF Holdoff, Goto
  <2>3. rn'.running = rn.running /\ rn'.complete = rn.complete
    BY <1>3, TypedHelpers DEF Holdoff
  <2>4. Executing' = Executing /\ Idle' = Idle
    BY <1>1, <2>3 DEF Executing, Idle
  <2> QED  BY <1>1, <1>2, <2>2, <2>3, <2>4 DEF StuckInv
<1>4. CASE TaskNone
  <2>1. rn' = rn /\ sched' = sched /\ sqdone' = sqdone /\ pc = "task" /\ Next_buildable = {}
    BY <1>4 DEF TaskNone
  <2>2. Executing' = Executing /\ Idle' = Idle
    BY <1>1, <2>1 DEF Executing, Idle
  <2>3. Idle => ((rn.buildable \ rn.running) \ sched.holdoff) \cap (sched.covered \cup sched.notcovered) = {}
    BY <2>1, IdleStarts DEF Next_buildable
  <2> QED  BY <1>1, <1>2, <2>1, <2>2, <2>3 DEF StuckInv
<1>5. ASSUME NEW t \in Tasks, TaskStart(t) PROVE StuckInv'
  <2>1. rn'.running = rn.running \cup {t} /\ rn'.complete = rn.complete /\ pc = "task" /\ t \notin rn.running
        /\ pc' \in {"top", "wait"}
    BY <1>5 DEF TaskStart, Next_buildable, Goto, Typed, RnType
  <2>2. Executing \subseteq Executing' /\ t \in Executing'
    BY <1>1, <2>1 DEF Executing, RestoreInv, PendingInv
  <2> QED  BY <1>1, <2>1, <2>2 DEF StuckInv, Idle
<1> QED  BY <1>3, <1>4, <1>5

LEMMA NextStuck ==
    ASSUME Typed, Rest, RestoreInv, StuckInv, [Next]_vars
    PROVE  StuckInv'
<1>1. CASE SceneNone \/ (\E s \in Setscene : SceneStart(s))
  BY <1>1, SceneStuck
<1>2. CASE Holdoff \/ TaskNone \/ (\E t \in Tasks : TaskStart(t))
  BY <1>2, LateStuck
<1>3. CASE \/ ValidateAll \/ BeginExecute \/ EndRead \/ BeginPass \/ Wait \/ ForceDeferred \/ End
           \/ SceneSpawnFails \/ TaskSpawnFails \/ CleanUp
           \/ UserFinish \/ FinishNow
           \/ (\E s \in Setscene : SceneSkip(s) \/ SceneFailOutright(s) \/ SetsceneComplete(s) \/ SetsceneFail(s))
           \/ (\E t \in Tasks : \/ TaskSkipCovered(t) \/ TaskSkipExisting(t)
                                \/ TaskComplete(t) \/ TaskFail(t) \/ TaskUniHashUpdate(t))
  <2>1. /\ pc' \notin {"holdoff", "task", "wait", "migrate", "hardfail"}
        /\ pc' = "scene" => reported' = {}
    BY <1>3 DEF ValidateAll, BeginExecute, EndRead, BeginPass, Wait, ForceDeferred, End,
                SceneSpawnFails, TaskSpawnFails, CleanUp, UserFinish, FinishNow,
                SceneSkip, SceneFailOutright, SetsceneComplete, SetsceneFail, TaskSkipCovered, TaskSkipExisting,
                TaskComplete, TaskFail, TaskUniHashUpdate, Reading, Goto, hashVars
  <2> QED  BY <2>1, StuckKept
<1>4. CASE Migrations
  <2>1. pc' \in {"migrate", "hardfail", "scene"} /\ rn' = rn /\ failed' = failed
        /\ (reported' = reported \cap (rn.running \ rn.complete) \/ (reported' = reported /\ pc \in {"migrate", "hardfail"}))
    BY <1>4 DEF Migrations, Rehash, EndMigrations, HardFail, MigrateNot, Migrate, Goto
  <2>2. reported' \subseteq rn'.running \ rn'.complete
    BY <2>1 DEF StuckInv
  <2> QED  BY <2>1, <2>2, StuckKept
<1>5. CASE UNCHANGED vars
  <2>1. /\ sq' = sq /\ rn' = rn /\ failed' = failed /\ reported' = reported /\ sqdone' = sqdone /\ pc' = pc
        /\ sched' = sched /\ build' = build
    BY <1>5 DEF vars, hashVars
  <2>2. Executing' = Executing /\ Setscene' = Setscene /\ Waiting(sq)' = Waiting(sq)
    BY <2>1, SameGraph DEF Executing, Waiting
  <2> QED  BY <2>1, <2>2 DEF StuckInv, Idle
<1>6. \/ SceneNone \/ (\E s \in Setscene : SceneStart(s))
      \/ Holdoff \/ TaskNone \/ (\E t \in Tasks : TaskStart(t))
      \/ ValidateAll \/ BeginExecute \/ EndRead \/ BeginPass \/ Wait \/ ForceDeferred \/ End
      \/ SceneSpawnFails \/ TaskSpawnFails \/ CleanUp
      \/ UserFinish \/ FinishNow
      \/ (\E s \in Setscene : SceneSkip(s) \/ SceneFailOutright(s) \/ SetsceneComplete(s) \/ SetsceneFail(s))
      \/ (\E t \in Tasks : \/ TaskSkipCovered(t) \/ TaskSkipExisting(t)
                           \/ TaskComplete(t) \/ TaskFail(t) \/ TaskUniHashUpdate(t))
      \/ Migrations \/ UNCHANGED vars
  BY DEF Next, Pass, WorkerEnds, Ended
<1> QED  BY <1>1, <1>2, <1>3, <1>4, <1>5, <1>6

-----------------------------------------------------------------------------
(* Why a build fails                                                       *)

LEMMA InitEnd == Init => EndInv
<1> SUFFICES ASSUME Init PROVE EndInv
  OBVIOUS
<1>1. /\ pc = "validate" /\ moved = {} /\ hardfailed = {} /\ reported = {} /\ sched.update
      /\ rn.running = {} /\ sqdone = (Setscene = {}) /\ build \in BuildType
  BY BuildTyped DEF Init
<1>2. /\ sq.covered = {} /\ sq.notcovered = {} /\ sq.live = {} /\ sq.running = {}
      /\ sq.buildable = {s \in Setscene : SqRevdeps(s) = {}} /\ sq.done = Unskippable \ Setscene
  BY DEF Init, Undecided
<1>3. Decided(sq) = {}
  BY <1>2 DEF Decided
<1>4. ASSUME NEW t \in Tasks \ Setscene, Revdeps(t) \subseteq sq.done PROVE t \in sq.done
  BY <1>1, <1>2, <1>4, UnskippableStep
<1>5. LineInv
  BY <1>2, <1>3, <1>4 DEF LineInv
<1>6. SchedInv
  BY <1>1 DEF SchedInv, Open
<1>7. StuckInv
  BY <1>1 DEF StuckInv
<1> QED  BY <1>5, <1>6, <1>7 DEF EndInv

\* The invariant holds of every build.
THEOREM EndInvariant == Spec => []EndInv
<1>1. QueueInv => Typed /\ Rest
  BY DEF QueueInv
<1>2. Typed /\ Rest /\ ReadyInv /\ RestoreInv /\ OutputInv /\ EndInv /\ [Next]_vars => EndInv'
  BY NextLines, NextSched, NextStuck DEF EndInv
<1> QED  BY <1>1, <1>2, QueueInvariant, ReadyInvariant, RestoreInvariant, OutputInvariant, InitEnd, PTL DEF Spec

LEMMA NextFailure ==
    ASSUME Typed, Rest, RestoreInv, EndInv, FailureHasCause, [Next]_vars
    PROVE  FailureHasCause'
<1>1. CASE Holdoff
  <2> DEFINE v == UpdateHoldoff(sched)
             r == NowBuildable(v)
  <2>1. moved = {} /\ build \in Builds /\ LineInv /\ SceneInv
    BY <1>1 DEF Holdoff, RestoreInv, SceneInv, Rest, EndInv
  <2>2. ASSUME sq.deferred = {}, reported = {}, v.holdoff = {} PROVE ~SceneErrors(v, r)
    <3>1. /\ Open \subseteq v.holdoff
          /\ (Wanted \cup Spared) \cap sq.done \subseteq v.covered \cup v.notcovered
          /\ \A t \in v.covered \cup v.notcovered : Depends(t) \subseteq rn.complete => t \in r.buildable
      BY <2>1, HoldoffFacts DEF EndInv
    <3> HIDE DEF v, r
    <3>2. Open = {}
      BY <2>2, <3>1
    <3> QED  BY <2>1, <2>2, <3>1, <3>2, NoErrors
  <2>3. state' = state /\ failed' = failed /\ unspawned' = unspawned
    BY <1>1, <2>2 DEF Holdoff
  <2> QED  BY <2>3 DEF FailureHasCause
<1>2. CASE End
  <2>1. /\ pc = "wait" /\ Idle /\ sq.deferred = {} /\ failed' = failed
        /\ state' = IF failed # {} \/ Unfinished THEN "failed" ELSE "complete"
    BY <1>2, NothingRuns DEF End
  <2>2. failed = {} => ~Unfinished
    BY <2>1, NothingLeft
  <2> QED  BY <2>1, <2>2 DEF FailureHasCause
<1>3. CASE \/ CleanUp \/ FinishNow \/ UserFinish \/ (\E t \in Tasks : TaskFail(t))
           \/ SceneSpawnFails \/ TaskSpawnFails
  BY <1>3 DEF CleanUp, FinishNow, UserFinish, TaskFail, SceneSpawnFails, TaskSpawnFails, FailureHasCause
<1>4. CASE \/ ValidateAll \/ BeginExecute \/ EndRead \/ BeginPass \/ Migrations
           \/ (\E s \in Setscene : SceneSkip(s) \/ SceneFailOutright(s) \/ SceneStart(s)
                                   \/ SetsceneComplete(s) \/ SetsceneFail(s))
           \/ SceneNone \/ TaskNone \/ Wait \/ ForceDeferred
           \/ (\E t \in Tasks : \/ TaskSkipCovered(t) \/ TaskSkipExisting(t) \/ TaskStart(t)
                                \/ TaskComplete(t) \/ TaskUniHashUpdate(t))
           \/ UNCHANGED vars
  <2>1. state' = state /\ failed' = failed /\ unspawned' = unspawned
    BY <1>4 DEF ValidateAll, BeginExecute, EndRead, BeginPass, Migrations, Rehash, EndMigrations, HardFail, MigrateNot,
                Migrate, SceneSkip, SceneFailOutright, SceneStart, SetsceneComplete, SetsceneFail, SceneNone, TaskNone,
                Wait, ForceDeferred, TaskSkipCovered, TaskSkipExisting, TaskStart, TaskComplete, TaskUniHashUpdate, vars
  <2> QED  BY <2>1 DEF FailureHasCause
<1>5. \/ Holdoff \/ End \/ CleanUp \/ FinishNow \/ UserFinish \/ (\E t \in Tasks : TaskFail(t))
      \/ SceneSpawnFails \/ TaskSpawnFails
      \/ ValidateAll \/ BeginExecute \/ EndRead \/ BeginPass \/ Migrations
      \/ (\E s \in Setscene : SceneSkip(s) \/ SceneFailOutright(s) \/ SceneStart(s)
                                   \/ SetsceneComplete(s) \/ SetsceneFail(s))
      \/ SceneNone \/ TaskNone \/ Wait \/ ForceDeferred
      \/ (\E t \in Tasks : \/ TaskSkipCovered(t) \/ TaskSkipExisting(t) \/ TaskStart(t)
                           \/ TaskComplete(t) \/ TaskUniHashUpdate(t))
      \/ UNCHANGED vars
  BY DEF Next, Pass, WorkerEnds, Ended
<1> QED  BY <1>1, <1>2, <1>3, <1>4, <1>5

\* A build that failed has a task that failed or could not be started for want of the fakeroot
\* worker: neither the sanity check of the setscene tasks nor the one at the end ever finds
\* anything, for every build and whatever its tasks, its setscene tasks, its users and the
\* reported hashes do.
THEOREM FailureCause == Spec => []FailureHasCause
<1>1. QueueInv => Typed /\ Rest
  BY DEF QueueInv
<1>2. Init => FailureHasCause
  BY DEF Init, FailureHasCause
<1>3. Typed /\ Rest /\ RestoreInv /\ EndInv /\ FailureHasCause /\ [Next]_vars => FailureHasCause'
  BY NextFailure
<1> QED  BY <1>1, <1>2, <1>3, QueueInvariant, RestoreInvariant, EndInvariant, PTL DEF Spec

-----------------------------------------------------------------------------
(* What a build that succeeds has done                                     *)

\* A build that nobody stopped and that is reported as complete has no failed task, has dealt with
\* every task, and has at hand the output of its targets and of all that cannot be skipped.
TargetsDelivered ==
    state = "complete" /\ ~stopped =>
        failed = {} /\ Tasks \subseteq rn.complete /\ build.target \cup Unskippable \subseteq there

\* Only the user or a failed task has the build cleaned up, and after its end nothing happens.
OverInv ==
    /\ state = "cleanup" => stopped \/ failed # {}
    /\ state = "complete" /\ ~stopped => pc = "top"

\* Of the tasks dealt with, those without output are neither targets nor needed.
LEMMA AllDelivered ==
    ASSUME build \in Builds, OutputInv, Tasks \subseteq rn.complete
    PROVE  build.target \cup Unskippable \subseteq there
<1>1. build \in BuildType /\ build.target \in SUBSET Tasks /\ Unskippable \subseteq Tasks
  BY BuildTyped DEF BuildType, Unskippable, UnskippableIn
<1>2. build.target \ Setscene \subseteq Unskippable
  BY <1>1, GraphFacts DEF CantskipIn, Setscene
<1>3. ASSUME NEW d \in build.target \cup Unskippable PROVE d \in there
  <2>1. CASE d \in rn.tasksrun
    BY <2>1 DEF OutputInv, SkipInv
  <2>2. CASE d \in rn.complete \ rn.tasksrun
    BY <1>2, <1>3, <2>2 DEF OutputInv, SkipInv
  <2> QED  BY <1>1, <1>3, <2>1, <2>2
<1> QED  BY <1>3

LEMMA NextDelivered ==
    ASSUME Typed, Rest, OutputInv, OverInv, TargetsDelivered, [Next]_vars
    PROVE  OverInv' /\ TargetsDelivered'
<1>1. CASE End
  <2>1. /\ pc' = "top" /\ build' = build /\ rn' = rn /\ failed' = failed /\ there' = there
        /\ state' = IF failed # {} \/ Unfinished THEN "failed" ELSE "complete"
    BY <1>1 DEF End, Goto
  <2>2. ASSUME state' = "complete" PROVE failed = {} /\ Tasks \subseteq rn.complete
    BY <2>1, <2>2 DEF Unfinished
  <2>3. Unskippable' = Unskippable
    BY <2>1, SameGraph
  <2>4. state' = "complete" => build.target \cup Unskippable \subseteq there
    BY <2>2, AllDelivered DEF Rest
  <2> QED  BY <2>1, <2>2, <2>3, <2>4 DEF OverInv, TargetsDelivered
<1>2. CASE CleanUp \/ FinishNow \/ UserFinish \/ SceneSpawnFails \/ TaskSpawnFails
  BY <1>2 DEF CleanUp, FinishNow, UserFinish, SceneSpawnFails, TaskSpawnFails, Goto, OverInv, TargetsDelivered
<1>3. CASE UNCHANGED vars
  <2>1. /\ state' = state /\ stopped' = stopped /\ pc' = pc /\ failed' = failed /\ rn' = rn
        /\ build' = build /\ there' = there
    BY <1>3 DEF vars
  <2>2. Unskippable' = Unskippable
    BY <2>1, SameGraph
  <2> QED  BY <2>1, <2>2 DEF OverInv, TargetsDelivered
<1>4. CASE Holdoff \/ (\E t \in Tasks : TaskFail(t))
  <2>1. stopped' = stopped /\ (pc # "top" \/ state = "cleanup")
    BY <1>4 DEF Holdoff, TaskFail, Reading
  <2>2. \/ state' = state /\ failed \subseteq failed'
        \/ state' = "failed"
        \/ state' = "cleanup" /\ failed' # {}
    BY <1>4 DEF Holdoff, TaskFail
  <2> QED  BY <2>1, <2>2 DEF OverInv, TargetsDelivered
<1>5. CASE \/ ValidateAll \/ BeginExecute \/ EndRead \/ BeginPass \/ Migrations
           \/ (\E s \in Setscene : SceneSkip(s) \/ SceneFailOutright(s) \/ SceneStart(s)
                                   \/ SetsceneComplete(s) \/ SetsceneFail(s))
           \/ SceneNone \/ TaskNone \/ Wait \/ ForceDeferred
           \/ (\E t \in Tasks : \/ TaskSkipCovered(t) \/ TaskSkipExisting(t) \/ TaskStart(t)
                                \/ TaskComplete(t) \/ TaskUniHashUpdate(t))
  <2>1. state' = state /\ failed' = failed /\ stopped' = stopped
    BY <1>5 DEF ValidateAll, BeginExecute, EndRead, BeginPass, Migrations, Rehash, EndMigrations, HardFail, MigrateNot,
                Migrate, SceneSkip, SceneFailOutright, SceneStart, SetsceneComplete, SetsceneFail, SceneNone, TaskNone,
                Wait, ForceDeferred, TaskSkipCovered, TaskSkipExisting, TaskStart, TaskComplete, TaskUniHashUpdate
  <2>2. pc # "top" \/ state \in {"running", "cleanup"}
    BY <1>5 DEF ValidateAll, BeginExecute, EndRead, BeginPass, Migrations, Rehash, EndMigrations, HardFail, MigrateNot,
                Migrate, SceneSkip, SceneFailOutright, SceneStart, SetsceneComplete, SetsceneFail, SceneNone, TaskNone,
                Wait, ForceDeferred, TaskSkipCovered, TaskSkipExisting, TaskStart, TaskComplete, TaskUniHashUpdate, Reading
  <2> QED  BY <2>1, <2>2 DEF OverInv, TargetsDelivered
<1>6. \/ End \/ CleanUp \/ FinishNow \/ UserFinish \/ UNCHANGED vars \/ Holdoff \/ (\E t \in Tasks : TaskFail(t))
      \/ SceneSpawnFails \/ TaskSpawnFails
      \/ ValidateAll \/ BeginExecute \/ EndRead \/ BeginPass \/ Migrations
      \/ (\E s \in Setscene : SceneSkip(s) \/ SceneFailOutright(s) \/ SceneStart(s)
                                   \/ SetsceneComplete(s) \/ SetsceneFail(s))
      \/ SceneNone \/ TaskNone \/ Wait \/ ForceDeferred
      \/ (\E t \in Tasks : \/ TaskSkipCovered(t) \/ TaskSkipExisting(t) \/ TaskStart(t)
                           \/ TaskComplete(t) \/ TaskUniHashUpdate(t))
  BY DEF Next, Pass, WorkerEnds, Ended
<1> QED  BY <1>1, <1>2, <1>3, <1>4, <1>5, <1>6

\* A build that succeeds has what it was asked for, whatever was restored, skipped or tried again
\* on the way: a setscene task that is skipped because all that needs it was restored is never a
\* target, so its output is not missed.
THEOREM Delivery == Spec => []TargetsDelivered
<1>1. QueueInv => Typed /\ Rest
  BY DEF QueueInv
<1>2. Init => OverInv /\ TargetsDelivered
  BY DEF Init, OverInv, TargetsDelivered
<1>3. Typed /\ Rest /\ OutputInv /\ OverInv /\ TargetsDelivered /\ [Next]_vars => (OverInv /\ TargetsDelivered)'
  BY NextDelivered
<1> QED  BY <1>1, <1>2, <1>3, QueueInvariant, OutputInvariant, PTL DEF Spec
=============================================================================
