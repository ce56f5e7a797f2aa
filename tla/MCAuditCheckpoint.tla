-------------------------- MODULE MCAuditCheckpoint --------------------------
(* Instances of AuditCheckpoint for TLC. *)
EXTENDS AuditCheckpoint, TLC

CONSTANTS m1, m2

\* Two calls, the worker and Machine requests at once; and one call with two
\* rotations and crashes at every point of them.
Races == [mutators |-> {m1, m2}, entries |-> 3, key |-> 1, peer |-> 1, crashes |-> 1]
Rotation == [mutators |-> {m1}, entries |-> 2, key |-> 2, peer |-> 0, crashes |-> 3]
BothWorlds == {Races, Rotation}
==============================================================================
