-------------------------- MODULE MCCeremonyAdmission -------------------------
EXTENDS CeremonyAdmission, TLC
CONSTANTS w1, w2, t1, t2

\* r registers a wallet; c is the migration of a legacy passkey, the addition
\* of a passkey across surfaces, or any other ceremony.
Call(w, r, c) == [wallet |-> w, anonymous |-> r, role |-> c]
Limits(n, w) == [sessions |-> n, wallet |-> w, anonymous |-> 1]

\* Two calls at once, at the concurrency limit.
Races == [threads |-> {t1, t2}, calls |-> {Call(w, FALSE, "plain") : w \in {w1, w2}},
          policies |-> {Limits(1, 2)}, steps |-> 0, restarts |-> 0, time |-> 3, sessions |-> 3]
\* Every kind of request, one call at a time, and a restart.
Kinds == [threads |-> {t1},
          calls |-> {Call(w1, FALSE, "plain"), Call(w1, FALSE, "cross"),
                     Call(w2, TRUE, "plain"), Call(w1, FALSE, "import")},
          policies |-> {Limits(2, 1)}, steps |-> 0, restarts |-> 1, time |-> 3, sessions |-> 3]
\* Two calls for one wallet while a clock is set, and a restart.
Skew == [threads |-> {t1, t2}, calls |-> {Call(w1, FALSE, "plain")},
         policies |-> {Limits(2, 2)}, steps |-> 1, restarts |-> 1, time |-> 4, sessions |-> 3]
\* A restart may lower the wallet quota.
Lowered == [threads |-> {t1}, calls |-> {Call(w1, FALSE, "plain")},
            policies |-> {Limits(3, 1), Limits(3, 3)}, steps |-> 0, restarts |-> 1,
            time |-> 6, sessions |-> 4]
\* Additions across surfaces one after the other, each with its source tab.
Sources == [threads |-> {t1}, calls |-> {Call(w1, FALSE, "cross")},
            policies |-> {Limits(1, 3)}, steps |-> 0, restarts |-> 0, time |-> 5, sessions |-> 4]
AllWorlds == {Races, Kinds, Skew, Lowered, Sources}
Symmetry == Permutations({t1, t2})
=============================================================================
