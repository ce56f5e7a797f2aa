---------------------------- MODULE MCCrossSurface ----------------------------
EXTENDS CrossSurface, TLC

\* An answer is lost and the process ends; or the journal latches instead.
SomeFaults == {[lost |-> 1, refused |-> 0, crash |-> 1], [lost |-> 0, refused |-> 1, crash |-> 1]}
=============================================================================
