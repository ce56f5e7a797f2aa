-------------------------- MODULE MCCeremonySessions --------------------------
EXTENDS CeremonySessions, TLC

CONSTANTS o1, o2, o3, t1, t2, t3

World(o, ts, d, b, l, r, c) ==
  [ops |-> {o}, threads |-> ts, deadlines |-> d, binds |-> b, lost |-> l, refused |-> r, crash |-> c]

Pairs == {ts \in SUBSET Threads : Cardinality(ts) = 2}

\* o1 is local, o2 hosted and sensitive, o3 hosted.  Three handlers of o1 and a
\* process end or stop; three handlers of o2, among them two completions and a
\* sweep; and, with two handlers, a binding and a latched journal, or a lost call
\* and a stop that overtakes a completion on the hosted surface.
FaultyWorlds ==
  {World(o1, Threads, 1, 0, 0, 0, 1), World(o2, Threads, 1, 0, 0, 0, 0)}
    \cup {World(o2, pair, 2, 1, 0, 1, 1) : pair \in Pairs}
    \cup {World(o3, pair, 1, 0, 1, 0, 1) : pair \in Pairs}
FairWorlds == {World(o1, {t1, t2}, 1, 0, 1, 0, 1), World(o3, {t1, t2}, 1, 0, 1, 0, 1)}

Symmetry == Permutations(Threads)
=============================================================================
