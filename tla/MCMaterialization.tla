-------------------------- MODULE MCMaterialization --------------------------
EXTENDS Materialization

Case(layout, target, r, s, c, e) ==
    [layout |-> layout, target |-> target,
     bounds |-> [revisions |-> r, sessions |-> s, cancels |-> c, events |-> e]]

OneSource == <<{1, 2}, {}>>
TwoSources == <<{1}, {2}>>
Fallback == <<{1, 2}, {2}>>
Cases ==
    {Case(OneSource, {}, 2, 1, 1, 0),      \* a replan and a cancellation
     Case(OneSource, {}, 2, 1, 0, 1),      \* a replan and a mishap
     Case(OneSource, {}, 1, 1, 1, 1),      \* a cancellation and a mishap
     Case(OneSource, {}, 2, 2, 0, 0),      \* a replan and a new session
     Case(TwoSources, {}, 1, 1, 1, 0),     \* two batches and a cancellation
     Case(TwoSources, {}, 1, 1, 0, 1),     \* two batches and a mishap
     Case(TwoSources, {}, 1, 2, 0, 0),     \* two batches, a new session
     Case(Fallback, {}, 2, 1, 0, 0),       \* a second source for one object
     Case(OneSource, {1}, 2, 1, 0, 1)}     \* an object is there already
=============================================================================
