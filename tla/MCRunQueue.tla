----------------------------- MODULE MCRunQueue -----------------------------
(* The builds that RunQueue is model-checked on. *)
EXTENDS RunQueue, TLC

At(f) == [t \in Tasks |-> IF t \in DOMAIN f THEN f[t] ELSE {}]

Plain == [setscene |-> {}, hard |-> At(<<>>), target |-> {5}, index |-> [t \in Tasks |-> t],
          stamped |-> {}, restored |-> {}, refused |-> {}, fakeroot |-> {}, abort |-> TRUE,
          recipe |-> <<1, 1, 3, 3, 5>>]

\* A build with dependencies d; f overrides the rest.
Make(d, f) == [depends |-> At(d)] @@ f @@ Plain

\* compile and package of a recipe, then of one that needs it, then an image of both; the last two
\* need the fakeroot worker.
Chain == <<{}, {1}, {2}, {2, 3}, {2, 4}>>
TwoRecipes == Make(Chain, [setscene |-> {2, 4}, fakeroot |-> {4, 5}])

\* The same as a build that goes on after an interruption, and with --no-setscene for the second.
Resumed == Make(Chain, [setscene |-> {2, 4}, stamped |-> {1}, restored |-> {4}])
Refused == Make(Chain, [setscene |-> {2, 4}, stamped |-> {1, 2}, refused |-> {4}])

\* Restoring 4 needs 2 restored.
Hard == Make(Chain, [setscene |-> {2, 4}, hard |-> At(<<{}, {4}>>), abort |-> FALSE])

\* While 1 runs and reports a hash, 2 may run, which the setscene of 3 would replace.
Parallel == Make(<<{}, {}, {1, 2}, {3}, {4}>>,
                 [setscene |-> {1, 3}, recipe |-> <<1, 2, 2, 2, 5>>, abort |-> FALSE])

\* No setscene tasks.
NoSetscene == Make(<<{}, {1}, {1}, {1}, {2, 3, 4}>>, [abort |-> FALSE])

\* 2 and 3 have the same hash, 4 needs 2, and the image 4 and 3.
SameHash == Make(<<{}, {1}, {1}, {2}, {3, 4}>>,
                 [setscene |-> {2, 3, 4}, index |-> [t \in Tasks |-> IF t = 3 THEN 2 ELSE t]])

\* The image 5 was restored before, so 3 and what it replaces are skipped, but for 2, which is held
\* off for 4; and 4 waits for 3, which has the same hash.
Forced == Make(<<{}, {}, {1, 2}, {2}, {3}>>,
               [setscene |-> {3, 4, 5}, restored |-> {5}, target |-> {4, 5},
                index |-> [t \in Tasks |-> IF t = 4 THEN 3 ELSE t]])

MCBuilds == {TwoRecipes, Resumed, Refused, Hard, Parallel, NoSetscene, SameHash, Forced}

SameHashOnly == {SameHash}
=============================================================================
